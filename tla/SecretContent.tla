---------------------------- MODULE SecretContent ----------------------------
(***************************************************************************)
(* What a secret is to the interface and to the vault (internal/secret):   *)
(* ToPayload makes the keys and values a vault stores, FromPayload makes a *)
(* secret of a requested type from what a vault holds.                     *)
(*                                                                         *)
(* A value is <<"text", v>>, <<"base64", value, lines>> for the encoding   *)
(* of a value, with line breaks or without, <<"pem", v>> for a PEM block,  *)
(* and <<"number">> for JSON that is no string.                            *)
(***************************************************************************)
EXTENDS FiniteSets

CONSTANTS
  Refused,   \* the operation ended with an error
  Nil        \* nothing was sent

ApiKey     == "apiKey"
BasicAuth  == "basicAuth"
Generic    == "generic"
JwtToken   == "jwtToken"
KeyStore   == "keyStore"
KeyValue   == "keyValue"
PrivateKey == "privateKey"
SecretKey  == "secretKey"

CommonTypes == {ApiKey, Generic, JwtToken, SecretKey}
SecretTypes == CommonTypes \cup {BasicAuth, KeyStore, KeyValue, PrivateKey}

JKS    == "JKS"
PKCS12 == "PKCS12"

(* Secrets as a request or an answer carries them.                         *)

Common(type, content)         == [type |-> type, content |-> content]
Basic(username, password)     == [type |-> BasicAuth, username |-> username,
                                  password |-> password]
Store(kind, content, password) == [type |-> KeyStore, keyStoreType |-> kind,
                                   content |-> content, password |-> password]
Pairs(content)                == [type |-> KeyValue, pairs |-> content]

IsString(value) == value # <<"number">>

-----------------------------------------------------------------------------
(* To the vault.                                                           *)

GetKeyValueSecretContent(secret) ==
  IF DOMAIN secret.pairs = {} THEN Refused ELSE secret.pairs

\* Line breaks are no part of the encoding.
GetPrivateKeySecretContent(secret) ==
  IF secret.content[1] = "base64" THEN secret.content[2] ELSE Refused

isPemFormat(value) == value[1] = "pem"

\* Mutant: no secret is refused for being empty.
ToPayloadEmptyAllowed(secret) ==
  CASE secret.type \in CommonTypes -> [content |-> secret.content]
    [] secret.type = BasicAuth -> [username |-> secret.username, password |-> secret.password]
    [] secret.type = KeyStore  -> [keyStoreType |-> <<"text", secret.keyStoreType>>,
                                   content |-> secret.content, password |-> secret.password]
    [] secret.type = KeyValue  -> secret.pairs
    [] secret.type = PrivateKey -> [content |-> secret.content]
    [] OTHER -> Refused

ToPayload(secret) ==
  CASE secret.type \in CommonTypes -> [content |-> secret.content]
    [] secret.type = BasicAuth -> [username |-> secret.username, password |-> secret.password]
    [] secret.type = KeyStore  -> [keyStoreType |-> <<"text", secret.keyStoreType>>,
                                   content |-> secret.content, password |-> secret.password]
    [] secret.type = KeyValue  -> GetKeyValueSecretContent(secret)
    [] secret.type = PrivateKey ->
         LET decoded == GetPrivateKeySecretContent(secret) IN
         IF decoded = Refused THEN Refused
         ELSE IF isPemFormat(decoded) THEN [content |-> decoded] ELSE Refused
    [] OTHER -> Refused

-----------------------------------------------------------------------------
(* From the vault: what is there need not have been put there as the type  *)
(* that is asked for.                                                      *)

Strings(payload, keys) ==
  keys \subseteq DOMAIN payload /\ \A k \in keys : IsString(payload[k])

fromCommonContentPayload(payload, type) ==
  IF Strings(payload, {"content"}) THEN Common(type, payload.content) ELSE Refused

fromBasicAuthPayload(payload) ==
  IF Strings(payload, {"username", "password"})
  THEN Basic(payload.username, payload.password) ELSE Refused

fromKeyStorePayload(payload) ==
  IF /\ Strings(payload, {"keyStoreType", "content", "password"})
     /\ payload.keyStoreType \in {<<"text", JKS>>, <<"text", PKCS12>>}
  THEN Store(payload.keyStoreType[2], payload.content, payload.password) ELSE Refused

\* Whatever the one key is called.
fromGenericPayload(payload) ==
  IF Cardinality(DOMAIN payload) = 1 /\ Strings(payload, DOMAIN payload)
  THEN Common(Generic, payload[CHOOSE k \in DOMAIN payload : TRUE]) ELSE Refused

fromPrivateKeyPayload(payload) ==
  IF Strings(payload, {"content"}) /\ isPemFormat(payload.content)
  THEN Common(PrivateKey, <<"base64", payload.content, FALSE>>) ELSE Refused

FromPayload(payload, type) ==
  CASE type \in {ApiKey, JwtToken, SecretKey} -> fromCommonContentPayload(payload, type)
    [] type = Generic    -> fromGenericPayload(payload)
    [] type = BasicAuth  -> fromBasicAuthPayload(payload)
    [] type = KeyStore   -> fromKeyStorePayload(payload)
    [] type = KeyValue   -> Pairs(payload)
    [] type = PrivateKey -> fromPrivateKeyPayload(payload)
    [] OTHER             -> Refused

-----------------------------------------------------------------------------
(* What comes back of a secret that was stored.                            *)

\* The encoding of a private key is the one thing that is not kept as it came.
AsKept(secret) ==
  IF secret.type = PrivateKey THEN [secret EXCEPT !.content = <<"base64", @[2], FALSE>>]
  ELSE secret

Unreadable(secret) == secret.type = KeyStore /\ secret.keyStoreType \notin {JKS, PKCS12}

\* The secrets a request may carry: the fields of their type, strings all but
\* the values of pairs, and a private key in any encoding.
Carried(secret) ==
  CASE secret.type \in CommonTypes ->
         secret = Common(secret.type, secret.content) /\ IsString(secret.content)
    [] secret.type = BasicAuth ->
         /\ secret = Basic(secret.username, secret.password)
         /\ IsString(secret.username) /\ IsString(secret.password)
    [] secret.type = KeyStore ->
         /\ secret = Store(secret.keyStoreType, secret.content, secret.password)
         /\ IsString(secret.content) /\ IsString(secret.password)
    [] secret.type = KeyValue -> secret = Pairs(secret.pairs)
    [] secret.type = PrivateKey ->
         /\ secret = Common(PrivateKey, secret.content)
         /\ secret.content[1] = "base64" =>
              LET encoded == secret.content IN
              encoded = <<"base64", encoded[2], encoded[3]>> /\ IsString(encoded[2])
    [] OTHER -> FALSE
=============================================================================
