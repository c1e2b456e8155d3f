---------------------------- MODULE CacheLookup ----------------------------
(***************************************************************************)
(* How the semantic cache (src/engines/cache.rs) finds an entry and which  *)
(* contents an insertion may leave behind.  The cache is a sequence of     *)
(* entries, oldest insertion first, as in the Vec<CacheEntry> of the code. *)
(* The operators here read no more of an entry than its query, embedding  *)
(* and response, so they serve the detailed cache (SemanticCache), its     *)
(* contract (CacheContract) and the query pipeline that uses it            *)
(* (SemanticPipeline).                                                     *)
(***************************************************************************)
EXTENDS Integers, SequencesExt

CONSTANTS
    Queries,     \* query strings, as the callers spell them
    Norm,        \* Norm[q] is q trimmed and with ASCII case folded
    Embeddings,  \* embedding vectors
    Dim,         \* Dim[e] is the length of vector e
    Dot,         \* Dot[<<e, f>>] is the dot product, in hundredths
    Threshold,   \* the similarity threshold, in hundredths
    Capacity     \* the capacity the cache is created with

(***************************************************************************)
(* best_sim starts at -1.0: an entry is only considered above it.  A dot   *)
(* product that is NaN is never above it either, and is written as a value *)
(* below LowestSimilarity.                                                 *)
(***************************************************************************)
LowestSimilarity == -100

ASSUME LookupAssumption ==
    /\ Norm \in [Queries -> STRING]
    /\ Dim \in [Embeddings -> Nat]
    /\ Dot \in [Embeddings \X Embeddings -> Int]
    /\ Threshold \in Int
    /\ Capacity \in Nat

-----------------------------------------------------------------------------
(* get_exact: the first entry spelled like q up to case and outer spaces,  *)
(* 0 when there is none.                                                   *)
ExactIndex(es, q) == SelectInSeq(es, LAMBDA x : Norm[x.query] = Norm[q])

(* A vector counts as similar to one of its length, from the threshold on. *)
Similar(e, f) ==
    /\ Dim[e] = Dim[f]
    /\ Dot[<<e, f>>] > LowestSimilarity
    /\ Dot[<<e, f>>] >= Threshold

(* get_similar: the first of the entries most similar to e, 0 when none of *)
(* them reaches the threshold.  Vectors of another length are skipped.     *)
SimilarIndex(es, e) ==
    LET sim(i) == Dot[<<es[i].embedding, e>>]
        best == {i \in DOMAIN es :
                    /\ Similar(es[i].embedding, e)
                    /\ \A j \in DOMAIN es :
                          Dim[es[j].embedding] = Dim[e] => sim(j) <= sim(i)}
    IN  IF best = {} THEN 0 ELSE Min(best)

(* insert makes room first: the guard in the code is len >= capacity, and  *)
(* an empty cache has nothing to give up.                                  *)
IsFull(es) == Len(es) >= Capacity /\ es # << >>

(* The contents after storing x, when nothing is said of which entry goes. *)
AfterInsert(es, x) ==
    IF IsFull(es)
    THEN {Append(RemoveAt(es, i), x) : i \in DOMAIN es}
    ELSE {Append(es, x)}

(* The entries without the fields that only their user reads: what the     *)
(* contract of the cache speaks of.                                        *)
Content(x) == [query |-> x.query, embedding |-> x.embedding,
               response |-> x.response]

Contents(es) == [i \in DOMAIN es |-> Content(es[i])]
=============================================================================
