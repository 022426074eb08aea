----------------------------- MODULE MCEvidence -----------------------------
(* Bounds of the run on Stage: how often OBS changes under each client.      *)
EXTENDS Stage

ChangesPerClient == [c \in Clients |-> CASE c = "stage" -> 1 [] c = "sample" -> 2 [] OTHER -> 3]

=============================================================================
