--------------------------- MODULE MCHybridSearch ---------------------------
(* Three customers, one of them with two rows, in different cities; rows   *)
(* that share a city or a word of the name; and lists of up to two filters *)
(* in either order.                                                        *)
EXTENDS RankedSearch

Customer(kunnr, name, city, country) ==
    [kunnr |-> kunnr, name |-> name, city |-> city, country |-> country]

MCRows == {Customer("1", "Tech", "Berlin", "DE"),
           Customer("2", "Tech", "Munich", "DE"),
           Customer("3", "Bakery", "Munich", "DE"),
           Customer("3", "Bakery", "Paris", "FR")}

MCBoilerplate == {"Customer", "named", "located"}

MCLexicalOrder == [id \in {"1", "2", "3"} |->
    CASE id = "1" -> 1 [] id = "2" -> 2 [] id = "3" -> 3]

MCFilters == {Filter(TRUE, "Munich"), Filter(FALSE, "Tech"),
              Filter(FALSE, "DE"), Filter(TRUE, "DE"), Filter(FALSE, "3")}

MCFilterLists == BoundedSeq(MCFilters, 2)
=============================================================================
