------------------------- MODULE MCSemanticPipeline -------------------------
(* A small instance of SemanticPipeline.  Intents a, b, c form a chain: a  *)
(* and b are similar, b and c are, a and c are not.  Customer 1 has moved: *)
(* either row may be ingested, and both, by loaders that overlap.          *)
EXTENDS SemanticPipeline

MCQueries == {"tech?", "TECH?", "munich?"}
MCNorm == [q \in MCQueries |-> IF q = "munich?" THEN q ELSE "tech?"]

MCEmbeddings == {"a", "b", "c"}
MCDim == [e \in MCEmbeddings |-> 1]
MCDot == [p \in MCEmbeddings \X MCEmbeddings |->
            IF p[1] = p[2] THEN 100 ELSE IF "b" \in {p[1], p[2]} THEN 96 ELSE 80]

MCRaw == [q \in MCQueries |-> IF q = "munich?" THEN "c" ELSE "a"]
MCParsed == [q \in MCQueries |->
    IF q = "munich?" THEN {} ELSE {Question("b", <<Filter(TRUE, "Munich")>>)}]
MCIntentWords == [e \in MCEmbeddings |->
    CASE e = "a" -> {"Tech"} [] e = "b" -> {"Tech"} [] e = "c" -> {"Bakery"}]

Customer(kunnr, name, city, country) ==
    [kunnr |-> kunnr, name |-> name, city |-> city, country |-> country]

MCRows == {Customer("1", "Tech", "Berlin", "DE"),
           Customer("1", "Tech", "Munich", "DE")}

MCBoilerplate == {"Customer", "named", "located"}
MCSources == {"1"}
MCQuotes == {"Munich", ""}

Symmetry == Permutations(Requests)
=============================================================================
