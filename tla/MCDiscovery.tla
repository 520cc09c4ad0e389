---------------------------- MODULE MCDiscovery ----------------------------
(***************************************************************************)
(* The discovery service on small instances.  Serials and clients are      *)
(* interchangeable in the safety runs; names are not, the initial state    *)
(* chooses one.                                                            *)
(***************************************************************************)
EXTENDS DiscoveryService, TLC

Symmetry == Permutations(Serials) \cup Permutations(Clients)
=============================================================================
