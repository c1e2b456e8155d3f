---------------------------- MODULE MCIngestion ----------------------------
(* Two loaders, and files that repeat a customer in a batch, across        *)
(* batches and across files, leave the number out, end in a short batch or *)
(* hold a bad line.                                                        *)
EXTENDS Ingestion

MCFiles == [f \in {"long", "short", "broken"} |->
    CASE f = "long"   -> <<"1", "1", NoNumber, "2", NoNumber>>
      [] f = "short"  -> <<"2", NoNumber, "1">>
      [] f = "broken" -> <<"3", "1", "1", BadLine>>]
=============================================================================
