------------------------------ MODULE MCAuthority ------------------------------
(***************************************************************************)
(* The authority registry on a small instance: two names, an attribute     *)
(* list of each kind of login, one that has none, one without a vault.     *)
(***************************************************************************)
EXTENDS AuthorityRegistry, TLC

CONSTANTS a, b, vault, nowhere, secret, role

List(address, type, s, v) ==
    [address |-> address, type |-> type, secret |-> s, vaultRole |-> v]
Approle    == List(vault, "approle", secret, role)
Kubernetes == List(vault, "kubernetes", secret, role)
Lost       == List(nowhere, "approle", secret, Unset)
Other      == List(vault, "ldap", Unset, Unset)

MCAttributes == {Approle, Kubernetes, Lost, Other}
MCBodies == {[name |-> a, attributes |-> Approle], [name |-> b, attributes |-> Kubernetes],
             [name |-> a, attributes |-> Other], [name |-> b, attributes |-> Lost]}
MCTypes == {"approle", "kubernetes", "ldap"}

Symmetry == Permutations(Requests)
=============================================================================
