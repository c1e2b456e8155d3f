-------------------------- MODULE MCSemanticCache --------------------------
(* A small instance of SemanticCache: two spellings of one query, two      *)
(* similar vectors and a vector of another length.                         *)
EXTENDS SemanticCache

MCQueries == {"germany", " Germany", "france"}
MCNorm == [q \in MCQueries |-> IF q = "france" THEN "france" ELSE "germany"]

MCEmbeddings == {"e1", "e2", "short"}
MCDim == [e \in MCEmbeddings |-> IF e = "short" THEN 2 ELSE 3]
MCDot == [p \in MCEmbeddings \X MCEmbeddings |->
            IF p[1] = p[2] THEN 100 ELSE IF "short" \in {p[1], p[2]} THEN 0 ELSE 96]

ClockMayRepeatOrGoBack == {-1, 0, 1}

(* Tasks are interchangeable, and so are the bytes of the responses. *)
Symmetry == Permutations(Threads) \cup Permutations(Responses)
=============================================================================
