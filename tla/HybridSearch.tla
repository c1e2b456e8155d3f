---------------------------- MODULE HybridSearch ----------------------------
(***************************************************************************)
(* The hybrid search of src/engines/vector.rs with its ranking: one action *)
(* per pass over the table, then reciprocal rank fusion                    *)
(* (src/engines/rank_fusion.rs).  An open LanceDB table is one version of  *)
(* the data, so the passes of a search all read the same rows, which are   *)
(* those of some CustomerTable.                                            *)
(***************************************************************************)
EXTENDS Retrieval

CONSTANTS
    FilterLists,   \* the lists of filters a parsed question may carry
    FusionK,       \* the constant k of the fusion
    LexicalOrder   \* LexicalOrder[id] is the place of a kunnr among strings

ASSUME HybridAssumption ==
    /\ FusionK \in Nat
    /\ \A list \in FilterLists : Len(list) \in Nat /\ DOMAIN list = 1 .. Len(list)
    /\ \A row \in Rows : LexicalOrder[row.kunnr] \in Nat

VARIABLES
    pc,        \* the pass to come; RankedSearch goes on to "ranked"
    table,     \* the version of the table the search reads
    filters,   \* the filters of the question
    next,      \* the filter to apply next
    dense,     \* dense_ids: the kunnr of the nearest rows, nearest first
    lexical,   \* lexical_ids: those that every positive filter found, in order
    kept,      \* retrieved_chunks: the rows whose chunk is at hand
    result     \* ordered: the rows whose chunks the search returns

vars == <<pc, table, filters, next, dense, lexical, kept, result>>

Customers == INSTANCE CustomerTable

-----------------------------------------------------------------------------
(* extract_chunks_from_stream: the ids of the hits of a pass; their chunks *)
(* go into the map, where the last chunk of an id replaces those before.   *)
IdsOf(hits) == [i \in DOMAIN hits |-> hits[i].kunnr]

LastOfEach(hits) ==
    {hits[i] : i \in {n \in DOMAIN hits :
                         \A m \in DOMAIN hits : m > n => hits[m].kunnr # hits[n].kunnr}}

Extract(chunks, hits) ==
    {row \in chunks : row.kunnr \notin ToSet(IdsOf(hits))} \cup LastOfEach(hits)

Chunk(id) == CHOOSE row \in kept : row.kunnr = id

-----------------------------------------------------------------------------
(* Fusion.  An id scores 1 / (k + rank) for each place it has in a list.   *)
(* Scores are compared exactly, over a common denominator; the code adds   *)
(* them up in f32.                                                         *)
Longest == Max({Len(dense), Len(lexical)})

Denominator == ProductSet({FusionK + rank : rank \in 1 .. Longest})

Places(list, id) == {i \in DOMAIN list : list[i] = id}

ScoreIn(list, id) ==
    MapThenSumSet(LAMBDA rank : Denominator \div (FusionK + rank),
                  Places(list, id))

(* Mutant of Score: the better of the two ranks counts, not their sum.     *)
BestScore(id) == Max({ScoreIn(dense, id), ScoreIn(lexical, id)})

Score(id) == ScoreIn(dense, id) + ScoreIn(lexical, id)

RanksBefore(x, y) ==
    \/ Score(x) > Score(y)
    \/ /\ Score(x) = Score(y)
       /\ LexicalOrder[x] < LexicalOrder[y]

(* Ids in the order of their scores. *)
Ranking(ids) ==
    {list \in SetToSeqs(ids) :
        \A i, j \in DOMAIN list : i < j => RanksBefore(list[i], list[j])}

(* The first of a ranking, as many as the search returns.                  *)
Best(list) == {list[i] : i \in 1 .. Min({SearchLimit, Len(list)})}

-----------------------------------------------------------------------------
Init ==
    /\ pc = "dense"
    /\ Customers!Init /\ IsFiniteSet(table)
    /\ filters \in FilterLists
    /\ next = 1
    /\ dense = << >>
    /\ lexical = << >>
    /\ kept = {}
    /\ result = << >>

(* open_table fails: there is no table. *)
OpenFails ==
    /\ pc = "dense"
    /\ table = {}
    /\ pc' = "failed"
    /\ UNCHANGED <<table, filters, next, dense, lexical, kept, result>>

(* The nearest neighbours, whichever these are. *)
DensePass ==
    /\ pc = "dense"
    /\ table # {}
    /\ \E hits \in UNION {SetToSeqs(near) : near \in UpTo(SearchLimit, table)} :
          /\ dense' = IdsOf(hits)
          /\ kept' = Extract({}, hits)
    /\ pc' = "filter"
    /\ UNCHANGED <<table, filters, next, lexical, result>>

Pending == pc = "filter" /\ next <= Len(filters)

(* Mutants of Exclude: the filter is passed over; the next one is too.     *)
ExcludeNothing ==
    /\ Pending
    /\ filters[next].negated
    /\ next' = next + 1
    /\ UNCHANGED <<pc, table, filters, dense, lexical, kept, result>>

ExcludeSkipsNext ==
    /\ Pending
    /\ filters[next].negated
    /\ kept' = {row \in kept : ~ Excluded(row, filters[next])}
    /\ next' = next + 2
    /\ UNCHANGED <<pc, table, filters, dense, lexical, result>>

(* A NOT filter drops chunks, of the rows found so far only. *)
Exclude ==
    /\ Pending
    /\ filters[next].negated
    /\ kept' = {row \in kept : ~ Excluded(row, filters[next])}
    /\ next' = next + 1
    /\ UNCHANGED <<pc, table, filters, dense, lexical, result>>

(* A positive filter scans the sentences and adds its hits. *)
Match ==
    /\ Pending
    /\ ~ filters[next].negated
    /\ \E hits \in UNION {SetToSeqs(rows) : rows \in
                  UpTo(SearchLimit, Matching(table, {filters[next].term}))} :
          /\ lexical' = lexical \o IdsOf(hits)
          /\ kept' = Extract(kept, hits)
    /\ next' = next + 1
    /\ UNCHANGED <<pc, table, filters, dense, result>>

(* Mutant of Fuse: that the chunk was dropped is not noticed. *)
FuseUnchecked ==
    /\ pc = "filter"
    /\ next > Len(filters)
    /\ \E fused \in Ranking(ToSet(dense) \cup ToSet(lexical)) :
          \E ids \in Ranking(Best(fused)) :
             result' = [i \in DOMAIN ids |->
                           CHOOSE row \in table : row.kunnr = ids[i]]
    /\ kept' = kept \ ToSet(result')
    /\ pc' = "done"
    /\ UNCHANGED <<table, filters, next, dense, lexical>>

(* The ranking is cut first; ids whose chunk was dropped leave it after.   *)
Fuse ==
    /\ pc = "filter"
    /\ next > Len(filters)
    /\ \E fused \in Ranking(ToSet(dense) \cup ToSet(lexical)) :
          \E ids \in Ranking(Best(fused) \cap Ids(kept)) :
             result' = [i \in DOMAIN ids |-> Chunk(ids[i])]
    /\ kept' = kept \ ToSet(result')
    /\ pc' = "done"
    /\ UNCHANGED <<table, filters, next, dense, lexical>>

Stop == pc \in {"done", "ranked", "failed"} /\ UNCHANGED vars

Next == OpenFails \/ DensePass \/ Exclude \/ Match \/ Fuse \/ Stop

Spec == Init /\ [][Next]_vars
-----------------------------------------------------------------------------
TypeOK ==
    /\ pc \in {"dense", "filter", "done", "ranked", "failed"}
    /\ table \subseteq Rows
    /\ filters \in FilterLists
    /\ next \in 1 .. Len(filters) + 1
    /\ dense \in Seq(Ids(Rows)) /\ lexical \in Seq(Ids(Rows))
    /\ kept \subseteq Rows /\ result \in Seq(Rows)

(* What the search returns is what Retrieval says of it as a set: the      *)
(* query pipeline is checked against that description.                     *)
ResultAsDescribed ==
    pc = "done" => ToSet(result) \in SearchOutcomes(table, filters)

(* An excluded row is returned only because a positive filter that comes   *)
(* after the last NOT filter against it found it again.                    *)
ExcludedOnlyIfFoundAgain ==
    pc = "done" =>
        \A row \in ToSet(result), i \in DOMAIN filters :
            Excluded(row, filters[i]) =>
                \E j \in i + 1 .. Len(filters) :
                    /\ ~ filters[j].negated
                    /\ filters[j].term \in Sentence(row)

(* What both passes found comes before all that was found once, however    *)
(* well that is ranked.                                                    *)
Hits(id) == Cardinality(Places(dense, id)) + Cardinality(Places(lexical, id))

DualMatchesFirst ==
    pc = "done" =>
        \A i, j \in DOMAIN result :
            /\ Hits(result[i].kunnr) = 1
            /\ result[j].kunnr \in ToSet(dense) \cap ToSet(lexical)
            => j < i

(* No row a NOT filter excludes is returned.  The code does not keep this: *)
(* see ExcludedOnlyIfFoundAgain.                                           *)
ExclusionHolds ==
    pc = "done" =>
        \A row \in ToSet(result), i \in DOMAIN filters :
            ~ Excluded(row, filters[i])
=============================================================================
