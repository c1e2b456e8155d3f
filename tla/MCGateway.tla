----------------------------- MODULE MCGateway -----------------------------
(* Two requests at any two of the seven entries, and a limit of one.       *)
EXTENDS Gateway
=============================================================================
