----------------------------- MODULE MCAttributes -----------------------------
(* A plain engine, a nested one, and one with a name the connector refuses;   *)
(* a role of each kind; two authorities.                                      *)
EXTENDS AttributeExchange, TLC

CONSTANTS n1, n2, plain, nested, odd, straight, slashed

MCNames == {n1, n2}
MCEngines == {plain, nested, odd}
MCRefusedEngines == {odd}
MCRoles == {straight, slashed}
MCRefusedRoles == {slashed}
Symmetry == Permutations(MCNames)
=============================================================================
