--------------------------- MODULE MCCertificates ---------------------------
(***************************************************************************)
(* Certificate operations on a small instance.                             *)
(***************************************************************************)
EXTENDS CertificateManagement, TLC

Symmetry == Permutations(Requests) \cup Permutations(Vaults)
=============================================================================
