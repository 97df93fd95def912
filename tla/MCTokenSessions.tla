--------------------------- MODULE MCTokenSessions ---------------------------
(* Instances of TokenSessions for TLC.  Names of pairs and request slots are *)
(* interchangeable in the safety runs.                                       *)
EXTENDS TokenSessions, TLC

Symmetry == Permutations(Pairs) \cup Permutations(Reqs)
=============================================================================
