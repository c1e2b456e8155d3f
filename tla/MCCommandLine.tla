--------------------------- MODULE MCCommandLine ---------------------------
(* Two processes over a model of two files, each given two questions with  *)
(* a blank line between them, the second no safe SQL, or a line that       *)
(* cannot be read.                                                         *)
EXTENDS CommandLine

MCTexts == {"select", "drop"}

MCStatements == [t \in MCTexts |-> IF t = "select" THEN <<"query">> ELSE <<"other">>]

MCInputs == {<<"select", "blank", "drop">>, <<"unreadable">>}
=============================================================================
