------------------------- MODULE MCSemanticCacheLRU -------------------------
(* A small instance of SemanticCacheLRU: distinct queries with orthogonal  *)
(* vectors and a clock that advances at every read of it.  Each query has  *)
(* a vector of its own, so lookups by either tell the same entries apart.  *)
EXTENDS SemanticCacheLRU

MCQueries == {"q1", "q2", "q3"}
MCNorm == [q \in MCQueries |-> q]

MCEmbeddings == {"e1", "e2"}
MCDim == [e \in MCEmbeddings |-> 1]
MCDot == [p \in MCEmbeddings \X MCEmbeddings |-> IF p[1] = p[2] THEN 100 ELSE 0]

StrictClock == {1}
=============================================================================
