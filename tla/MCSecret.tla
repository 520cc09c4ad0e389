------------------------------ MODULE MCSecret ------------------------------
(***************************************************************************)
(* The secret manager on small instances.  Requests and processes are      *)
(* interchangeable; values are too, one is written over another.           *)
(***************************************************************************)
EXTENDS SecretManager, TLC

Symmetry ==
  Permutations(Requests) \cup Permutations(Values) \cup Permutations(Processes)
=============================================================================
