--------------------------- MODULE CustomerTable ---------------------------
(***************************************************************************)
(* What the readers of the customers table rely on: ingestions add rows,   *)
(* some at a time, and change none; the whole table may be dropped at any  *)
(* time.  They cannot rely on a customer having one row: two ingestions    *)
(* that had the table open together may both have inserted it.  Ingestion  *)
(* is shown to keep to this, and it is what HybridSearch and               *)
(* SemanticPipeline are checked beside.                                    *)
(***************************************************************************)
CONSTANT
    Rows    \* the rows a table may hold

VARIABLE
    table   \* its rows; none when there is no table

Init == table \in SUBSET Rows

(* A batch is merged or the table is created with it: one step. *)
Insert ==
    /\ table' \in {rows \in SUBSET Rows : table \subseteq rows}
    /\ table' # table

Drop == table # {} /\ table' = {}

Next == Insert \/ Drop

Spec == Init /\ [][Next]_table
=============================================================================
