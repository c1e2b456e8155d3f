---------------------------- MODULE RankedSearch ----------------------------
(***************************************************************************)
(* HybridSearch followed by the cross-encoder (src/engines/rerank.rs),     *)
(* which scores what the search returned and keeps the best few.  It may   *)
(* give any scores, and a wrong number of them.  The order of scores is    *)
(* that of total_cmp, where NaN is a number beyond all others: a score is  *)
(* a place in that order.                                                  *)
(***************************************************************************)
EXTENDS HybridSearch

CONSTANTS
    Scores,  \* what a candidate may score
    Tops     \* how many candidates may be asked for

ASSUME RankedAssumption ==
    /\ Scores \subseteq Int
    /\ Tops \subseteq Nat

VARIABLES
    top,       \* top_k: how many candidates are asked for
    scores,    \* what the cross-encoder gave, in the order of result
    reranked   \* what is kept

rankingVars == <<top, scores, reranked>>

InitRanked ==
    /\ Init
    /\ top \in Tops
    /\ scores = << >>
    /\ reranked = << >>

SearchStep == Next /\ UNCHANGED rankingVars

(* Candidate i comes before candidate j: the sort is stable. *)
Outranks(given, i, j) == given[i] > given[j] \/ (given[i] = given[j] /\ i < j)

(* The places of the candidates that have a score, best first. *)
Orders(candidates, given) ==
    {order \in SetToSeqs(1 .. Min({Len(candidates), Len(given)})) :
        \A m, n \in DOMAIN order : m < n => Outranks(given, order[m], order[n])}

First(candidates, order) ==
    [n \in 1 .. Min({top, Len(order)}) |-> candidates[order[n]]]

(* Mutant of RerankByScores: what is to be kept is cut before the sort.    *)
CutByScores(candidates, given) ==
    {First(candidates, order) :
        order \in Orders(SubSeq(candidates, 1, Min({top, Len(candidates)})), given)}

(* The sort leaves one order; candidates without a score fall out of it.   *)
RerankByScores(candidates, given) ==
    {First(candidates, order) : order \in Orders(candidates, given)}

(* The rest of the search stays as it is. *)
Becomes(stage) ==
    /\ pc = "done"
    /\ pc' = stage
    /\ UNCHANGED <<table, filters, next, dense, lexical, kept, result, top>>

NothingToRank == result = << >> \/ top = 0

ScoreLists == BoundedSeq(Scores, Len(result) + 1)

(* Nothing to score, or nothing to keep: the cross-encoder is not run.     *)
SkipRanking ==
    /\ NothingToRank
    /\ Becomes("ranked")
    /\ UNCHANGED <<scores, reranked>>

(* Mutant of Rerank: the scores are not counted. *)
RerankUncounted ==
    /\ ~ NothingToRank
    /\ \E given \in ScoreLists :
          /\ scores' = given
          /\ reranked' \in RerankByScores(result, given)
    /\ Becomes("ranked")

(* There is to be a score for every candidate. *)
Rerank ==
    /\ ~ NothingToRank
    /\ \E given \in ScoreLists :
          /\ Len(given) = Len(result)
          /\ scores' = given
          /\ reranked' \in RerankByScores(result, given)
    /\ Becomes("ranked")

(* The cross-encoder fails, or gives a wrong number of scores.             *)
RerankFails ==
    /\ ~ NothingToRank
    /\ Becomes("failed")
    /\ UNCHANGED <<scores, reranked>>

NextRanked == SearchStep \/ SkipRanking \/ Rerank \/ RerankFails

SpecRanked == InitRanked /\ [][NextRanked]_<<vars, rankingVars>>
-----------------------------------------------------------------------------
(* The best candidates are kept, as many as are asked for if there are,    *)
(* the best first; equal scores leave them as the search ranked them.      *)
BestFirst ==
    pc = "ranked" =>
        /\ Len(reranked) = Min({top, Len(result)})
        /\ \A n \in DOMAIN reranked : \E i \in DOMAIN result :
              /\ reranked[n] = result[i]
              /\ Cardinality({j \in DOMAIN result : Outranks(scores, j, i)}) = n - 1

(* The semantic pipeline is checked with a re-ranking that keeps any few   *)
(* of what was found: this is one.                                         *)
AsPipelineAssumes ==
    pc = "ranked" => ToSet(reranked) \in UpTo(top, ToSet(result))
=============================================================================
