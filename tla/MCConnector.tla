---------------------------- MODULE MCConnector ----------------------------
(***************************************************************************)
(* The connector with one value per path variable, an engine at the root   *)
(* and a nested one, and lists of attributes that are data, information or *)
(* unknown.                                                                *)
(***************************************************************************)
EXTENDS Connector

CONSTANT value

Sent1(name) == [name |-> name, items |-> <<<<"object", "engineName", "e">>>>]
MCEngineNames == {<<"pki">>, <<"team", "pki">>}
MCAttributeLists ==
  {<<>>, <<Sent1("ra_profile_engine")>>, <<Sent1("unknown")>>,
   <<Sent1("ra_profile_engine"), Sent1("authority_info")>>}
=============================================================================
