--------------------------- MODULE CacheContract ---------------------------
(***************************************************************************)
(* What a user of the semantic cache may rely on.  Lookups and insertions  *)
(* look atomic: a lookup answers from the contents at one instant and      *)
(* leaves them alone; an insertion appends its entry and gives up at most  *)
(* one other entry, only when the cache is full.  Which entry is given up  *)
(* is left open, because the clock decides it (see SemanticCache).         *)
(***************************************************************************)
EXTENDS CacheLookup

CONSTANTS
    Threads,    \* the tasks that share the cache
    Responses,  \* serialized responses
    Nothing     \* what a lookup that finds nothing returns

VARIABLES
    store,      \* the entries, oldest insertion first
    reply       \* reply[t] is what the latest lookup of thread t returned

vars == <<store, reply>>

Init ==
    /\ store = << >>
    /\ reply = [t \in Threads |-> Nothing]

Return(t, i) ==
    /\ reply' = [reply EXCEPT ![t] = IF i = 0 THEN Nothing
                                              ELSE store[i].response]
    /\ UNCHANGED store

GetExact(t, q)   == Return(t, ExactIndex(store, q))
GetSimilar(t, e) == Return(t, SimilarIndex(store, e))

Insert(q, e, r) ==
    /\ store' \in AfterInsert(store, [query     |-> q,
                                      embedding |-> e,
                                      response  |-> r])
    /\ UNCHANGED reply

Next ==
    \/ \E t \in Threads :
          \/ \E q \in Queries : GetExact(t, q)
          \/ \E e \in Embeddings : GetSimilar(t, e)
    \/ \E q \in Queries, e \in Embeddings, r \in Responses : Insert(q, e, r)

Spec == Init /\ [][Next]_vars
=============================================================================
