--------------------------- MODULE SemanticCourse ---------------------------
(***************************************************************************)
(* The course a question takes through run_semantic_pipeline               *)
(* (src/pipelines/query/mod.rs), as its callers may count on it: which     *)
(* awaits follow which, and how it may end at each.  SemanticPipeline adds *)
(* what is found and cached, Gateway what a server does around it; both    *)
(* keep to this course.                                                    *)
(***************************************************************************)
CONSTANT Requests

VARIABLES
    stage,   \* stage[r]: the await request r is at
    outcome  \* outcome[r]: what it came to

vars == <<stage, outcome>>

(* Every await leads on to one other at most, and none leads back: a       *)
(* question costs three prompts, one embedding, one search and one scan.   *)
Onward == [outside      |-> {"parsing"},
           parsing      |-> {"embedding"},
           embedding    |-> {"generating"},
           generating   |-> {"rescanning"},
           rescanning   |-> {"regenerating"},
           regenerating |-> {},
           over         |-> {}]

(* A question is never lost to its parsing; it is degraded only when there *)
(* is something to answer from and nobody to answer.  Before the pipeline  *)
(* it may be answered otherwise, or refused.                               *)
Endings == [outside      |-> {"answer", "error", "rejected", "overloaded"},
            parsing      |-> {},
            embedding    |-> {"answer", "error"},
            generating   |-> {"answer", "degraded", "error"},
            rescanning   |-> {"answer", "error"},
            regenerating |-> {"answer", "error"},
            over         |-> {}]

Init ==
    /\ stage = [r \in Requests |-> "outside"]
    /\ outcome = [r \in Requests |-> "none"]

GoOn(r) ==
    /\ \E s \in Onward[stage[r]] : stage' = [stage EXCEPT ![r] = s]
    /\ UNCHANGED outcome

End(r) ==
    /\ \E o \in Endings[stage[r]] : outcome' = [outcome EXCEPT ![r] = o]
    /\ stage' = [stage EXCEPT ![r] = "over"]

(* Whoever asked is gone. *)
Cancel(r) ==
    /\ stage[r] # "over"
    /\ stage' = [stage EXCEPT ![r] = "over"]
    /\ UNCHANGED outcome

Next == \E r \in Requests : GoOn(r) \/ End(r) \/ Cancel(r)

Spec == Init /\ [][Next]_vars
=============================================================================
