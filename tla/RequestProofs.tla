--------------------------- MODULE RequestProofs ---------------------------
(***************************************************************************)
(* The secret interface keeps what it promises, for any mounts, paths,     *)
(* names and secrets, and however the vault reads a path: what it asked    *)
(* for it accepts, and what was stored at a place is read back from it.    *)
(***************************************************************************)
EXTENDS SecretRequests, FiniteSetTheorems, SequenceTheorems, TLAPS

-----------------------------------------------------------------------------
(* What is written of a secret is read back.                               *)

\* The types are different strings, so a CASE has one arm for each.
USE DEF ApiKey, BasicAuth, Generic, JwtToken, KeyStore, KeyValue, PrivateKey, SecretKey,
        CommonTypes

LEMMA CommonReadsBack ==
  ASSUME NEW type \in CommonTypes, NEW c, IsString(c)
  PROVE  FromPayload(ToPayload(Common(type, c)), type) = Common(type, c)
<1>. DEFINE payload == [content |-> c]
<1>1. ToPayload(Common(type, c)) = payload
  BY DEF ToPayload, Common
<1>2. DOMAIN payload = {"content"} /\ payload.content = c
  OBVIOUS
<1>3. Strings(payload, {"content"}) /\ Strings(payload, DOMAIN payload)
  BY <1>2 DEF Strings
<1>4. CASE type = Generic
  <2>1. Cardinality(DOMAIN payload) = 1
    BY <1>2, FS_Singleton
  <2>2. payload[CHOOSE k \in DOMAIN payload : TRUE] = c
    BY <1>2
  <2>3. fromGenericPayload(payload) = Common(Generic, c)
    BY <1>3, <2>1, <2>2 DEF fromGenericPayload
  <2>4. FromPayload(payload, type) = fromGenericPayload(payload)
    BY <1>4 DEF FromPayload
  <2>. QED
    BY <1>1, <1>4, <2>3, <2>4
<1>5. CASE type \in {ApiKey, JwtToken, SecretKey}
  <2>1. FromPayload(payload, type) = fromCommonContentPayload(payload, type)
    BY <1>5 DEF FromPayload
  <2>2. fromCommonContentPayload(payload, type) = Common(type, c)
    BY <1>2, <1>3 DEF fromCommonContentPayload
  <2>. QED
    BY <1>1, <2>1, <2>2
<1>. QED
  BY <1>4, <1>5

LEMMA BasicReadsBack ==
  ASSUME NEW u, NEW p, IsString(u), IsString(p)
  PROVE  FromPayload(ToPayload(Basic(u, p)), BasicAuth) = Basic(u, p)
<1>. DEFINE payload == [username |-> u, password |-> p]
<1>1. ToPayload(Basic(u, p)) = payload
  BY DEF ToPayload, Basic
<1>2. /\ DOMAIN payload = {"username", "password"}
      /\ payload.username = u /\ payload.password = p
      /\ payload["username"] = u /\ payload["password"] = p
  OBVIOUS
<1>3. Strings(payload, {"username", "password"})
  BY <1>2 DEF Strings
<1>4. FromPayload(payload, BasicAuth) = fromBasicAuthPayload(payload)
  BY DEF FromPayload
<1>. QED
  BY <1>1, <1>2, <1>3, <1>4 DEF fromBasicAuthPayload

LEMMA StoreReadsBack ==
  ASSUME NEW kind, NEW c, NEW p, IsString(c), IsString(p)
  PROVE  FromPayload(ToPayload(Store(kind, c, p)), KeyStore) =
           IF kind \in {JKS, PKCS12} THEN Store(kind, c, p) ELSE Refused
<1>. DEFINE payload == [keyStoreType |-> <<"text", kind>>, content |-> c, password |-> p]
<1>1. ToPayload(Store(kind, c, p)) = payload
  BY DEF ToPayload, Store
<1>2. /\ DOMAIN payload = {"keyStoreType", "content", "password"}
      /\ payload.keyStoreType = <<"text", kind>>
      /\ payload.content = c /\ payload.password = p
  OBVIOUS
<1>3. IsString(<<"text", kind>>)
  BY DEF IsString
<1>4. Strings(payload, {"keyStoreType", "content", "password"})
  BY <1>2, <1>3 DEF Strings
<1>5. /\ <<"text", kind>>[2] = kind
      /\ <<"text", kind>> \in {<<"text", JKS>>, <<"text", PKCS12>>} <=> kind \in {JKS, PKCS12}
  OBVIOUS
<1>6. FromPayload(payload, KeyStore) = fromKeyStorePayload(payload)
  BY DEF FromPayload
<1>. QED
  BY <1>1, <1>2, <1>4, <1>5, <1>6 DEF fromKeyStorePayload

LEMMA PairsReadBack ==
  ASSUME NEW content, ToPayload(Pairs(content)) # Refused
  PROVE  FromPayload(ToPayload(Pairs(content)), KeyValue) = Pairs(content)
<1>1. ToPayload(Pairs(content)) = GetKeyValueSecretContent(Pairs(content))
  BY DEF ToPayload, Pairs
<1>2. GetKeyValueSecretContent(Pairs(content)) \in {Refused, content}
  BY DEF GetKeyValueSecretContent, Pairs
<1>3. FromPayload(content, KeyValue) = Pairs(content)
  BY DEF FromPayload
<1>. QED
  BY <1>1, <1>2, <1>3

LEMMA PrivateKeyReadsBack ==
  ASSUME NEW v, NEW lines, IsString(v),
         ToPayload(Common(PrivateKey, <<"base64", v, lines>>)) # Refused
  PROVE  FromPayload(ToPayload(Common(PrivateKey, <<"base64", v, lines>>)), PrivateKey) =
           Common(PrivateKey, <<"base64", v, FALSE>>)
<1>. DEFINE secret == Common(PrivateKey, <<"base64", v, lines>>)
            payload == [content |-> v]
<1>1. GetPrivateKeySecretContent(secret) = v
  BY DEF GetPrivateKeySecretContent, Common
<1>2. ToPayload(secret) =
        IF v = Refused THEN Refused
        ELSE IF isPemFormat(v) THEN [content |-> v] ELSE Refused
  BY <1>1 DEF ToPayload, Common
<1>3. ToPayload(secret) = payload /\ isPemFormat(v)
  BY <1>2
<1>4. DOMAIN payload = {"content"} /\ payload.content = v
  OBVIOUS
<1>5. Strings(payload, {"content"})
  BY <1>4 DEF Strings
<1>6. FromPayload(payload, PrivateKey) = fromPrivateKeyPayload(payload)
  BY DEF FromPayload
<1>. QED
  BY <1>3, <1>4, <1>5, <1>6 DEF fromPrivateKeyPayload

(* A secret the vault was given is read back by a request for its type as  *)
(* it was sent, with the encoding of a private key on one line; only a key *)
(* store of an unknown type is taken and refused when it is read.          *)
THEOREM ContentReadsBack ==
  ASSUME NEW secret, Carried(secret), ToPayload(secret) # Refused
  PROVE  FromPayload(ToPayload(secret), secret.type) =
           IF Unreadable(secret) THEN Refused ELSE AsKept(secret)
<1>1. CASE secret.type \in CommonTypes
  <2>1. secret = Common(secret.type, secret.content) /\ IsString(secret.content)
    BY <1>1 DEF Carried
  <2>2. secret.type # KeyStore /\ secret.type # PrivateKey
    BY <1>1
  <2>3. FromPayload(ToPayload(Common(secret.type, secret.content)), secret.type) =
          Common(secret.type, secret.content)
    BY <1>1, <2>1, CommonReadsBack
  <2>. QED
    BY <2>1, <2>2, <2>3 DEF Unreadable, AsKept
<1>2. CASE secret.type = BasicAuth
  <2>1. /\ secret = Basic(secret.username, secret.password)
        /\ IsString(secret.username) /\ IsString(secret.password)
    BY <1>2 DEF Carried
  <2>2. secret.type # KeyStore /\ secret.type # PrivateKey
    BY <1>2
  <2>3. FromPayload(ToPayload(Basic(secret.username, secret.password)), BasicAuth) =
          Basic(secret.username, secret.password)
    BY <2>1, BasicReadsBack
  <2>. QED
    BY <1>2, <2>1, <2>2, <2>3 DEF Unreadable, AsKept
<1>3. CASE secret.type = KeyStore
  <2>. DEFINE kind == secret.keyStoreType
              c    == secret.content
              p    == secret.password
  <2>1. secret = Store(kind, c, p) /\ IsString(c) /\ IsString(p)
    BY <1>3 DEF Carried
  <2>2. secret.type # PrivateKey
    BY <1>3
  <2>3. FromPayload(ToPayload(Store(kind, c, p)), KeyStore) =
          IF kind \in {JKS, PKCS12} THEN Store(kind, c, p) ELSE Refused
    BY <2>1, StoreReadsBack
  <2>. QED
    BY <1>3, <2>1, <2>2, <2>3 DEF Unreadable, AsKept
<1>4. CASE secret.type = KeyValue
  <2>1. secret = Pairs(secret.pairs)
    BY <1>4 DEF Carried
  <2>2. secret.type # KeyStore /\ secret.type # PrivateKey
    BY <1>4
  <2>3. FromPayload(ToPayload(Pairs(secret.pairs)), KeyValue) = Pairs(secret.pairs)
    BY <2>1, PairsReadBack
  <2>. QED
    BY <1>4, <2>1, <2>2, <2>3 DEF Unreadable, AsKept
<1>5. CASE secret.type = PrivateKey
  <2>. DEFINE v     == secret.content[2]
              lines == secret.content[3]
  <2>1. secret = Common(PrivateKey, secret.content)
    BY <1>5 DEF Carried
  <2>2. secret.content[1] = "base64"
    BY <1>5 DEF ToPayload, GetPrivateKeySecretContent
  <2>3. secret.content = <<"base64", v, lines>> /\ IsString(v)
    BY <1>5, <2>2 DEF Carried
  <2>4. secret = Common(PrivateKey, <<"base64", v, lines>>)
    BY <2>1, <2>3
  <2>5. AsKept(secret) = Common(PrivateKey, <<"base64", v, FALSE>>)
    BY <1>5, <2>4 DEF AsKept, Common
  <2>6. FromPayload(ToPayload(secret), PrivateKey) = Common(PrivateKey, <<"base64", v, FALSE>>)
    BY <2>3, <2>4, PrivateKeyReadsBack
  <2>. QED
    BY <1>5, <2>5, <2>6 DEF Unreadable
<1>. QED
  BY <1>1, <1>2, <1>3, <1>4, <1>5 DEF Carried

HIDE DEF ApiKey, BasicAuth, Generic, JwtToken, KeyStore, KeyValue, PrivateKey, SecretKey,
         CommonTypes

-----------------------------------------------------------------------------
(* Lists of attributes.                                                    *)

AList(list) == \E S : list \in Seq(S)

Absent(n, list) == \A i \in DOMAIN list : list[i].uuid # n

\* One attribute of a list is the one sent, and no other has its uuid.
Once(sent, list) ==
  \E i \in DOMAIN list : /\ list[i] = sent
                         /\ \A j \in DOMAIN list : list[j].uuid = sent.uuid => j = i

LEMMA Domains ==
  ASSUME NEW list, AList(list)
  PROVE  Len(list) \in Nat /\ DOMAIN list = 1 .. Len(list)
  BY LenProperties DEF AList

LEMMA Joined ==
  ASSUME NEW list, NEW more, AList(list), AList(more)
  PROVE  /\ AList(list \o more)
         /\ Len(list \o more) = Len(list) + Len(more)
         /\ DOMAIN (list \o more) = 1 .. Len(list) + Len(more)
         /\ \A i \in 1 .. Len(list) : (list \o more)[i] = list[i]
         /\ \A i \in 1 .. Len(more) : (list \o more)[Len(list) + i] = more[i]
         /\ \A i \in DOMAIN (list \o more) :
              i \in DOMAIN list \/ \E k \in DOMAIN more : i = Len(list) + k
<1>1. PICK S : list \in Seq(S)
  BY DEF AList
<1>2. PICK T : more \in Seq(T)
  BY DEF AList
<1>3. list \in Seq(S \cup T) /\ more \in Seq(S \cup T)
  BY <1>1, <1>2, SeqMonotonic
<1>. DEFINE U == S \cup T
            all == list \o more
<1>. HIDE DEF U
<1>4. list \in Seq(U) /\ more \in Seq(U)
  BY <1>3 DEF U
<1>5. /\ all \in Seq(U)
      /\ Len(all) = Len(list) + Len(more)
      /\ \A i \in 1 .. Len(list) + Len(more) :
           all[i] = IF i <= Len(list) THEN list[i] ELSE more[i - Len(list)]
  BY <1>4, ConcatProperties
<1>6. Len(list) \in Nat /\ Len(more) \in Nat
  BY <1>4, LenProperties
<1>7. DOMAIN all = 1 .. Len(all) /\ DOMAIN list = 1 .. Len(list) /\ DOMAIN more = 1 .. Len(more)
  BY <1>4, <1>5, LenProperties
<1>8. \A i \in 1 .. Len(list) : all[i] = list[i]
  BY <1>5, <1>6
<1>9. \A i \in 1 .. Len(more) : all[Len(list) + i] = more[i]
  BY <1>5, <1>6
<1>10. \A i \in DOMAIN all : i \in DOMAIN list \/ \E k \in DOMAIN more : i = Len(list) + k
  <2>. SUFFICES ASSUME NEW i \in DOMAIN all, i \notin DOMAIN list
                PROVE  \E k \in DOMAIN more : i = Len(list) + k
    OBVIOUS
  <2>1. i - Len(list) \in DOMAIN more /\ i = Len(list) + (i - Len(list))
    BY <1>5, <1>6, <1>7
  <2>. QED
    BY <2>1
<1>. QED
  BY <1>5, <1>7, <1>8, <1>9, <1>10 DEF AList

LEMMA AbsentJoined ==
  ASSUME NEW n, NEW list, NEW more, AList(list), AList(more), Absent(n, list), Absent(n, more)
  PROVE  Absent(n, list \o more)
  BY Joined, Domains DEF Absent

LEMMA OnceBefore ==
  ASSUME NEW sent, NEW list, NEW more, AList(list), AList(more),
         Once(sent, list), Absent(sent.uuid, more)
  PROVE  Once(sent, list \o more)
<1>. DEFINE all == list \o more
<1>1. PICK i \in DOMAIN list : /\ list[i] = sent
                               /\ \A j \in DOMAIN list : list[j].uuid = sent.uuid => j = i
  BY DEF Once
<1>2. i \in DOMAIN all /\ all[i] = sent
  BY <1>1, Joined, Domains
<1>3. ASSUME NEW j \in DOMAIN all, all[j].uuid = sent.uuid
      PROVE  j = i
  <2>1. CASE j \in DOMAIN list
    BY <1>1, <1>3, <2>1, Joined, Domains
  <2>2. ASSUME NEW k \in DOMAIN more, j = Len(list) + k
        PROVE  FALSE
    BY <1>3, <2>2, Joined, Domains DEF Absent
  <2>. QED
    BY <2>1, <2>2, Joined
<1>. QED
  BY <1>2, <1>3 DEF Once

LEMMA OnceAfter ==
  ASSUME NEW sent, NEW list, NEW more, AList(list), AList(more),
         Absent(sent.uuid, list), Once(sent, more)
  PROVE  Once(sent, list \o more)
<1>. DEFINE all == list \o more
<1>1. PICK i \in DOMAIN more : /\ more[i] = sent
                               /\ \A j \in DOMAIN more : more[j].uuid = sent.uuid => j = i
  BY DEF Once
<1>2. Len(list) + i \in DOMAIN all /\ all[Len(list) + i] = sent
  BY <1>1, Joined, Domains
<1>3. ASSUME NEW j \in DOMAIN all, all[j].uuid = sent.uuid
      PROVE  j = Len(list) + i
  <2>1. CASE j \in DOMAIN list
    BY <1>3, <2>1, Joined, Domains DEF Absent
  <2>2. ASSUME NEW k \in DOMAIN more, j = Len(list) + k
        PROVE  j = Len(list) + i
    BY <1>1, <1>3, <2>2, Joined, Domains
  <2>. QED
    BY <2>1, <2>2, Joined
<1>. QED
  BY <1>2, <1>3 DEF Once

(* Short lists.                                                            *)

LEMMA ShortLists ==
  /\ AList(<<>>) /\ \A n : Absent(n, <<>>)
  /\ \A a : /\ AList(<<a>>) /\ Once(a, <<a>>)
            /\ \A n : a.uuid # n => Absent(n, <<a>>)
  /\ \A a, b : /\ AList(<<a, b>>)
               /\ a.uuid # b.uuid => Once(a, <<a, b>>) /\ Once(b, <<a, b>>)
               /\ \A n : a.uuid # n /\ b.uuid # n => Absent(n, <<a, b>>)
<1>1. AList(<<>>) /\ \A n : Absent(n, <<>>)
  <2>1. <<>> \in Seq({})
    OBVIOUS
  <2>. QED
    BY <2>1 DEF AList, Absent
<1>2. ASSUME NEW a
      PROVE  /\ AList(<<a>>) /\ Once(a, <<a>>)
             /\ \A n : a.uuid # n => Absent(n, <<a>>)
  <2>1. <<a>> \in Seq({a}) /\ DOMAIN <<a>> = {1} /\ <<a>>[1] = a
    OBVIOUS
  <2>. QED
    BY <2>1 DEF AList, Once, Absent
<1>3. ASSUME NEW a, NEW b
      PROVE  /\ AList(<<a, b>>)
             /\ a.uuid # b.uuid => Once(a, <<a, b>>) /\ Once(b, <<a, b>>)
             /\ \A n : a.uuid # n /\ b.uuid # n => Absent(n, <<a, b>>)
  <2>1. /\ <<a, b>> \in Seq({a, b}) /\ DOMAIN <<a, b>> = {1, 2}
        /\ <<a, b>>[1] = a /\ <<a, b>>[2] = b
    OBVIOUS
  <2>2. AList(<<a, b>>)
    BY <2>1 DEF AList
  <2>3. ASSUME a.uuid # b.uuid
        PROVE  Once(a, <<a, b>>) /\ Once(b, <<a, b>>)
    <3>. DEFINE list == <<a, b>>
    <3>. HIDE DEF list
    <3>1. DOMAIN list = {1, 2} /\ list[1] = a /\ list[2] = b
      BY <2>1 DEF list
    <3>2. Once(a, list)
      BY <2>3, <3>1 DEF Once
    <3>3. Once(b, list)
      BY <2>3, <3>1 DEF Once
    <3>. QED
      BY <3>2, <3>3 DEF list
  <2>4. ASSUME NEW n, a.uuid # n, b.uuid # n
        PROVE  Absent(n, <<a, b>>)
    BY <2>1, <2>4 DEF Absent
  <2>. QED
    BY <2>2, <2>3, <2>4
<1>. QED
  BY <1>1, <1>2, <1>3

-----------------------------------------------------------------------------
(* What is read of them.                                                   *)

LEMMA ReadAbsent ==
  ASSUME NEW n, NEW list, Absent(n, list)
  PROVE  Read(n, list) = {Empty}
  BY DEF Read, Absent

LEMMA ReadOnce ==
  ASSUME NEW sent, NEW list, AList(list), Once(sent, list)
  PROVE  Read(sent.uuid, list) = ReadAs(sent)
<1>. DEFINE at == {i \in DOMAIN list : list[i].uuid = sent.uuid}
<1>1. PICK i \in DOMAIN list : /\ list[i] = sent
                               /\ \A j \in DOMAIN list : list[j].uuid = sent.uuid => j = i
  BY DEF Once
<1>2. at = {i}
  BY <1>1
<1>3. (CHOOSE k \in at : \A j \in at : j <= k) = i
  BY <1>2, Domains
<1>. QED
  BY <1>1, <1>2, <1>3 DEF Read

LEMMA CatalogueTypes ==
  /\ DOMAIN Catalogue = {"uri", "credential_type", "namespace", "role_id", "role_secret",
                         "role", "profile_mount", "profile_path", "secret_path"}
  /\ \A n \in DOMAIN Catalogue :
       Catalogue[n].contentType = IF n \in {"role_id", "role_secret"} THEN "resource"
                                                                     ELSE "string"
  BY DEF Catalogue, VaultAttributes, CredentialAttributes, ProfileAttributes,
         SecretAttributes, Attribute

\* A string attribute, sent as it is asked for.
Text(uuid, v) == Sent(uuid, <<<<"string", v>>>>)

Resource(uuid, secret) == Sent(uuid, <<<<"resource", secret>>>>)

LEMMA TextReads ==
  ASSUME NEW uuid \in DOMAIN Catalogue \ {"role_id", "role_secret"}, NEW v, Sendable(v)
  PROVE  Text(uuid, v).uuid = uuid /\ ReadAs(Text(uuid, v)) = {v}
<1>. DEFINE sent == Text(uuid, v)
<1>1. /\ sent.uuid = uuid /\ sent.content = <<<<"string", v>>>>
      /\ sent.contentType = Catalogue[uuid].contentType
  BY DEF Text, Sent
<1>2. Catalogue[uuid].contentType = "string"
  BY CatalogueTypes
<1>3. Single(Catalogue[uuid], sent)
  BY <1>1 DEF Single, Sendable
<1>4. sent.content[1][1] = "string" /\ sent.content[1][2] = v
  BY <1>1
<1>. HIDE DEF sent
<1>5. strContentTypeDataAttrSingle(Catalogue[uuid], sent) = {v}
  BY <1>3, <1>4 DEF strContentTypeDataAttrSingle
<1>. QED
  BY <1>1, <1>2, <1>5 DEF ReadAs, sent

LEMMA ResourceReads ==
  ASSUME NEW uuid \in {"role_id", "role_secret"}, NEW secret \in RoleSecrets
  PROVE  /\ Resource(uuid, secret).uuid = uuid
         /\ ReadAs(Resource(uuid, secret)) = {secret.content}
         /\ secret.content \notin {Refused, Empty}
<1>. DEFINE sent == Resource(uuid, secret)
<1>1. /\ sent.uuid = uuid /\ sent.content = <<<<"resource", secret>>>>
      /\ sent.contentType = Catalogue[uuid].contentType
  BY DEF Resource, Sent
<1>2. uuid \in DOMAIN Catalogue /\ Catalogue[uuid].contentType = "resource"
  BY CatalogueTypes
<1>3. Single(Catalogue[uuid], sent)
  BY <1>1, RoleSecretsAssumption DEF Single
<1>4. sent.content[1][1] = "resource" /\ sent.content[1][2] = secret
  BY <1>1
<1>5. secret.type \in CommonTypes /\ secret.type \notin {BasicAuth, KeyValue}
  BY RoleSecretsAssumption
     DEF CommonTypes, ApiKey, Generic, JwtToken, SecretKey, BasicAuth, KeyValue
<1>. HIDE DEF sent
<1>6. resourceSecretContentTypeDataAttrSingle(Catalogue[uuid], sent) = {secret.content}
  BY <1>3, <1>4, <1>5 DEF resourceSecretContentTypeDataAttrSingle
<1>. QED
  BY <1>1, <1>2, <1>6, RoleSecretsAssumption DEF ReadAs, sent

-----------------------------------------------------------------------------
(* The lists the platform sends.                                           *)

Elsewhere == {"namespace", "profile_mount", "profile_path", "secret_path"}

\* What a list has to have for a login.
Logs(list, type, id, secret) ==
  /\ Once(Text("uri", "uri"), list)
  /\ Once(Text("credential_type", type), list)
  /\ type = "approle" => /\ Once(Resource("role_id", id), list)
                         /\ Once(Resource("role_secret", secret), list)
                         /\ Absent("role", list)
  /\ type # "approle" => /\ Once(Text("role", "role"), list)
                         /\ Absent("role_id", list)
                         /\ Absent("role_secret", list)

LEMMA Uuids ==
  /\ \A n, v : Text(n, v).uuid = n
  /\ \A n, v : Resource(n, v).uuid = n
  BY DEF Text, Resource, Sent

LEMMA VaultLists ==
  ASSUME NEW type \in CredentialTypes, NEW id \in RoleSecrets, NEW secret \in RoleSecrets
  PROVE  /\ AList(VaultList(type, id, secret))
         /\ Len(VaultList(type, id, secret)) >= 2
         /\ VaultList(type, id, secret)[1] = Text("uri", "uri")
         /\ Logs(VaultList(type, id, secret), type, id, secret)
         /\ \A n \in Elsewhere : Absent(n, VaultList(type, id, secret))
<1>. DEFINE uri  == Text("uri", "uri")
            cred == Text("credential_type", type)
            head == <<uri, cred>>
            rest == CredentialList(type, id, secret)
            list == head \o rest
<1>1. VaultList(type, id, secret) = list
  BY DEF VaultList, Text
<1>2. /\ AList(head) /\ Once(uri, head) /\ Once(cred, head)
      /\ \A n : n \notin {"uri", "credential_type"} => Absent(n, head)
      /\ Len(head) = 2 /\ head[1] = uri
  BY ShortLists, Uuids
<1>3. CASE type = "approle"
  <2>1. rest = <<Resource("role_id", id), Resource("role_secret", secret)>>
    BY <1>3 DEF CredentialList, Resource
  <2>2. /\ AList(rest)
        /\ Once(Resource("role_id", id), rest) /\ Once(Resource("role_secret", secret), rest)
        /\ \A n : n \notin {"role_id", "role_secret"} => Absent(n, rest)
    BY <2>1, ShortLists, Uuids
  <2>. HIDE DEF head, rest, uri, cred
  <2>3. AList(list) /\ Len(list) >= 2 /\ list[1] = uri
    <3>1. Len(rest) \in Nat
      BY <2>2, Domains
    <3>2. /\ AList(list) /\ Len(list) = Len(head) + Len(rest)
          /\ \A i \in 1 .. Len(head) : list[i] = head[i]
      BY <1>2, <2>2, Joined
    <3>. HIDE DEF list
    <3>. QED
      BY <1>2, <3>1, <3>2
  <2>4. Once(uri, list) /\ Once(cred, list)
    BY <1>2, <2>2, OnceBefore, Uuids DEF uri, cred
  <2>5. Once(Resource("role_id", id), list) /\ Once(Resource("role_secret", secret), list)
    BY <1>2, <2>2, OnceAfter, Uuids
  <2>6. \A n : n \notin {"uri", "credential_type", "role_id", "role_secret"} => Absent(n, list)
    BY <1>2, <2>2, AbsentJoined
  <2>. HIDE DEF list
  <2>. QED
    BY <1>1, <1>3, <2>3, <2>4, <2>5, <2>6 DEF Logs, Elsewhere, uri, cred
<1>4. CASE type # "approle"
  <2>1. rest = <<Text("role", "role")>>
    BY <1>4 DEF CredentialList, Text
  <2>2. /\ AList(rest) /\ Once(Text("role", "role"), rest)
        /\ \A n : n # "role" => Absent(n, rest)
    BY <2>1, ShortLists, Uuids
  <2>. HIDE DEF head, rest, uri, cred
  <2>3. AList(list) /\ Len(list) >= 2 /\ list[1] = uri
    <3>1. Len(rest) \in Nat
      BY <2>2, Domains
    <3>2. /\ AList(list) /\ Len(list) = Len(head) + Len(rest)
          /\ \A i \in 1 .. Len(head) : list[i] = head[i]
      BY <1>2, <2>2, Joined
    <3>. HIDE DEF list
    <3>. QED
      BY <1>2, <3>1, <3>2
  <2>4. Once(uri, list) /\ Once(cred, list)
    BY <1>2, <2>2, OnceBefore, Uuids DEF uri, cred
  <2>5. Once(Text("role", "role"), list)
    BY <1>2, <2>2, OnceAfter, Uuids
  <2>6. \A n : n \notin {"uri", "credential_type", "role"} => Absent(n, list)
    BY <1>2, <2>2, AbsentJoined
  <2>. HIDE DEF list
  <2>. QED
    BY <1>1, <1>4, <2>3, <2>4, <2>5, <2>6 DEF Logs, Elsewhere, uri, cred
<1>. QED
  BY <1>3, <1>4

LEMMA FirstReplaced ==
  ASSUME NEW list, AList(list), Len(list) >= 1, NEW e, e.uuid = list[1].uuid
  PROVE  /\ AList([list EXCEPT ![1] = e])
         /\ \A n : Absent(n, list) => Absent(n, [list EXCEPT ![1] = e])
<1>1. PICK S : list \in Seq(S)
  BY DEF AList
<1>2. Len(list) \in Nat /\ DOMAIN list = 1 .. Len(list)
  BY Domains
<1>. DEFINE T == S \cup {e}
<1>3. list \in Seq(T) /\ e \in T /\ 1 \in 1 .. Len(list)
  BY <1>1, <1>2, SeqMonotonic
<1>. HIDE DEF T
<1>4. [list EXCEPT ![1] = e] \in Seq(T)
  BY <1>3, ExceptSeq
<1>5. \A i \in DOMAIN list : [list EXCEPT ![1] = e][i].uuid = list[i].uuid
  BY <1>2
<1>6. DOMAIN [list EXCEPT ![1] = e] = DOMAIN list
  OBVIOUS
<1>. QED
  BY <1>4, <1>5, <1>6 DEF AList, Absent

LEMMA StyledLists ==
  ASSUME NEW style, NEW list, AList(list), Len(list) >= 2, list[1] = Text("uri", "uri")
  PROVE  /\ AList(Styled(style, list))
         /\ \A n : n # "foreign" /\ Absent(n, list) => Absent(n, Styled(style, list))
<1>. DEFINE Keeps(other) == /\ AList(other)
                            /\ \A n : n # "foreign" /\ Absent(n, list) => Absent(n, other)
<1>0. DOMAIN list[1] = {"uuid", "contentType", "content"} /\ list[1].uuid = "uri"
  BY DEF Text, Sent
<1>1. ASSUME NEW e, e.uuid = "uri"
      PROVE  Keeps([list EXCEPT ![1] = e])
  <2>1. Len(list) >= 1
    BY Domains
  <2>2. e.uuid = list[1].uuid
    BY <1>0, <1>1
  <2>3. /\ AList([list EXCEPT ![1] = e])
        /\ \A n : Absent(n, list) => Absent(n, [list EXCEPT ![1] = e])
    BY <2>1, <2>2, FirstReplaced
  <2>. QED
    BY <2>3
<1>2. Keeps(list)
  OBVIOUS
<1>3. Keeps(list \o <<[list[1] EXCEPT !.uuid = "foreign"]>>)
  <2>. DEFINE e == [list[1] EXCEPT !.uuid = "foreign"]
  <2>1. e.uuid = "foreign"
    BY <1>0
  <2>. HIDE DEF e
  <2>2. AList(<<e>>) /\ \A n : n # "foreign" => Absent(n, <<e>>)
    BY <2>1, ShortLists
  <2>3. Keeps(list \o <<e>>)
    BY <2>2, Joined, AbsentJoined
  <2>. QED
    BY <2>3 DEF e
<1>4. Keeps([list EXCEPT ![1].contentType = "text"])
  BY <1>0, <1>1
<1>5. \A c : Keeps([list EXCEPT ![1].content = c])
  BY <1>0, <1>1
<1>6. Keeps([list EXCEPT ![1].content = @ \o @])
  BY <1>0, <1>1
<1>7. Keeps(Tail(list))
  <2>1. PICK S : list \in Seq(S)
    BY DEF AList
  <2>2. list # <<>>
    OBVIOUS
  <2>3. /\ Tail(list) \in Seq(S) /\ Len(Tail(list)) = Len(list) - 1
        /\ \A i \in 1 .. Len(Tail(list)) : Tail(list)[i] = list[i + 1]
    BY <2>1, <2>2, HeadTailProperties
  <2>4. Len(list) \in Nat /\ DOMAIN list = 1 .. Len(list)
    BY Domains
  <2>5. DOMAIN Tail(list) = 1 .. Len(Tail(list))
    BY <2>3, LenProperties
  <2>. QED
    BY <2>3, <2>4, <2>5 DEF AList, Absent
<1>. HIDE DEF Keeps
<1>8. Keeps(Styled(style, list))
  BY <1>2, <1>3, <1>4, <1>5, <1>6, <1>7 DEF Styled
<1>. QED
  BY <1>8 DEF Keeps

LEMMA AskedLists ==
  ASSUME NEW style \in {"defined", "foreign"}, NEW list, AList(list), Len(list) >= 2,
         list[1] = Text("uri", "uri"),
         NEW type, NEW id, NEW secret, Logs(list, type, id, secret)
  PROVE  Logs(Styled(style, list), type, id, secret)
<1>1. CASE style = "defined"
  BY <1>1 DEF Styled
<1>2. CASE style = "foreign"
  <2>. DEFINE e == [list[1] EXCEPT !.uuid = "foreign"]
  <2>1. e.uuid = "foreign"
    BY DEF Text, Sent
  <2>2. Styled(style, list) = list \o <<e>>
    BY <1>2 DEF Styled
  <2>. HIDE DEF e
  <2>3. AList(<<e>>) /\ \A n : n # "foreign" => Absent(n, <<e>>)
    BY <2>1, ShortLists
  <2>. QED
    BY <2>2, <2>3, OnceBefore, AbsentJoined, Uuids DEF Logs
<1>. QED
  BY <1>1, <1>2

LEMMA PathLists ==
  ASSUME NEW uuid, NEW path
  PROVE  /\ AList(PathList(uuid, path))
         /\ \A n : n # uuid => Absent(n, PathList(uuid, path))
         /\ path = <<>> => Absent(uuid, PathList(uuid, path))
         /\ path # <<>> => Once(Text(uuid, path), PathList(uuid, path))
<1>1. CASE path = <<>>
  BY <1>1, ShortLists DEF PathList
<1>2. CASE path # <<>>
  <2>1. PathList(uuid, path) = <<Text(uuid, path)>>
    BY <1>2 DEF PathList, Text
  <2>. QED
    BY <1>2, <2>1, ShortLists, Uuids
<1>. QED
  BY <1>1, <1>2

LEMMA ProfileLists ==
  ASSUME NEW mount, NEW prefix
  PROVE  /\ AList(ProfileList(mount, prefix))
         /\ Once(Text("profile_mount", mount), ProfileList(mount, prefix))
         /\ \A n : n \notin {"profile_mount", "profile_path"} =>
                   Absent(n, ProfileList(mount, prefix))
         /\ prefix = <<>> => Absent("profile_path", ProfileList(mount, prefix))
         /\ prefix # <<>> =>
              Once(Text("profile_path", prefix), ProfileList(mount, prefix))
<1>. DEFINE first == <<Text("profile_mount", mount)>>
            more  == PathList("profile_path", prefix)
<1>1. ProfileList(mount, prefix) = first \o more
  BY DEF ProfileList, Text
<1>2. /\ AList(first) /\ Once(Text("profile_mount", mount), first)
      /\ \A n : n # "profile_mount" => Absent(n, first)
  BY ShortLists, Uuids
<1>3. /\ AList(more) /\ \A n : n # "profile_path" => Absent(n, more)
      /\ prefix = <<>> => Absent("profile_path", more)
      /\ prefix # <<>> => Once(Text("profile_path", prefix), more)
  BY PathLists
<1>. HIDE DEF first, more
<1>4. AList(first \o more)
  BY <1>2, <1>3, Joined
<1>5. Once(Text("profile_mount", mount), first \o more)
  BY <1>2, <1>3, OnceBefore, Uuids
<1>6. \A n : n \notin {"profile_mount", "profile_path"} => Absent(n, first \o more)
  BY <1>2, <1>3, AbsentJoined
<1>7. prefix = <<>> => Absent("profile_path", first \o more)
  BY <1>2, <1>3, AbsentJoined
<1>8. prefix # <<>> => Once(Text("profile_path", prefix), first \o more)
  BY <1>2, <1>3, OnceAfter, Uuids
<1>. QED
  BY <1>1, <1>4, <1>5, <1>6, <1>7, <1>8

\* A list that names a mount, a prefix and a path of a secret, or none.
Carries(list, mount, prefix, path) ==
  /\ AList(list)
  /\ Once(Text("profile_mount", mount), list)
  /\ IF prefix = <<>> THEN Absent("profile_path", list)
                      ELSE Once(Text("profile_path", prefix), list)
  /\ IF path = <<>> THEN Absent("secret_path", list)
                    ELSE Once(Text("secret_path", path), list)
  /\ Absent("namespace", list)

Request(sent, mount, prefix, path) ==
  sent \o ProfileList(mount, prefix) \o PathList("secret_path", path)

LEMMA RequestLists ==
  ASSUME NEW sent, AList(sent), \A n \in Elsewhere : Absent(n, sent),
         NEW mount, NEW prefix, NEW path
  PROVE  Carries(Request(sent, mount, prefix, path), mount, prefix, path)
<1>. DEFINE list    == Request(sent, mount, prefix, path)
            profile == ProfileList(mount, prefix)
            last    == PathList("secret_path", path)
            both    == sent \o profile
<1>1. /\ AList(profile) /\ Once(Text("profile_mount", mount), profile)
      /\ \A n : n \notin {"profile_mount", "profile_path"} => Absent(n, profile)
      /\ prefix = <<>> => Absent("profile_path", profile)
      /\ prefix # <<>> => Once(Text("profile_path", prefix), profile)
  BY ProfileLists
<1>2. /\ AList(last) /\ \A n : n # "secret_path" => Absent(n, last)
      /\ path = <<>> => Absent("secret_path", last)
      /\ path # <<>> => Once(Text("secret_path", path), last)
  BY PathLists
<1>3. list = both \o last
  BY DEF Request
<1>. HIDE DEF list, profile, last
<1>4. AList(both)
  BY <1>1, Joined
<1>5. /\ Once(Text("profile_mount", mount), both)
      /\ prefix = <<>> => Absent("profile_path", both)
      /\ prefix # <<>> => Once(Text("profile_path", prefix), both)
      /\ Absent("secret_path", both) /\ Absent("namespace", both)
  BY <1>1, OnceAfter, AbsentJoined, Uuids DEF Elsewhere
<1>. HIDE DEF both
<1>7. AList(list)
  BY <1>2, <1>3, <1>4, Joined
<1>8. /\ Once(Text("profile_mount", mount), list)
      /\ prefix = <<>> => Absent("profile_path", list)
      /\ prefix # <<>> => Once(Text("profile_path", prefix), list)
      /\ Absent("namespace", list)
  BY <1>2, <1>3, <1>4, <1>5, OnceBefore, AbsentJoined, Uuids
<1>9. /\ path = <<>> => Absent("secret_path", list)
      /\ path # <<>> => Once(Text("secret_path", path), list)
  BY <1>2, <1>3, <1>4, <1>5, OnceAfter, AbsentJoined, Uuids
<1>. QED
  BY <1>7, <1>8, <1>9 DEF Carries, list

LEMMA RequestLogs ==
  ASSUME NEW sent, AList(sent), NEW mount, NEW prefix, NEW path,
         NEW type, NEW id, NEW secret, Logs(sent, type, id, secret)
  PROVE  Logs(Request(sent, mount, prefix, path), type, id, secret)
<1>. DEFINE list    == Request(sent, mount, prefix, path)
            profile == ProfileList(mount, prefix)
            last    == PathList("secret_path", path)
            both    == sent \o profile
<1>1. /\ AList(profile) /\ AList(last)
      /\ \A n : n \notin {"profile_mount", "profile_path"} => Absent(n, profile)
      /\ \A n : n # "secret_path" => Absent(n, last)
  BY ProfileLists, PathLists
<1>2. list = both \o last
  BY DEF Request
<1>. HIDE DEF list, profile, last
<1>3. AList(both) /\ Logs(both, type, id, secret)
  BY <1>1, Joined, OnceBefore, AbsentJoined, Uuids DEF Logs
<1>. HIDE DEF both
<1>4. Logs(list, type, id, secret)
  BY <1>1, <1>2, <1>3, OnceBefore, AbsentJoined, Uuids DEF Logs
<1>. QED
  BY <1>4 DEF list

-----------------------------------------------------------------------------
(* What the connector makes of them.                                       *)

LEMMA NeedsRead ==
  ASSUME NEW list, NEW needs \in Process(list)
  PROVE  /\ \A n \in DOMAIN Catalogue \ {"role_id", "role_secret"} :
              needs[n] = CHOOSE v \in Read(n, list) : TRUE
         /\ needs["role_id"] \in Read("role_id", list)
         /\ needs["role_secret"] \in Read("role_secret", list)
<1>1. PICK read \in (Read("role_id", list) \ {Refused})
                      \X (Read("role_secret", list) \ {Refused}) :
        needs = NeedsOf(list, read[1], read[2])
  BY DEF Process
<1>2. read[1] \in Read("role_id", list) /\ read[2] \in Read("role_secret", list)
  OBVIOUS
<1>3. "role_id" \in DOMAIN Catalogue /\ "role_secret" \in DOMAIN Catalogue
  BY CatalogueTypes
<1>4. needs["role_id"] = read[1] /\ needs["role_secret"] = read[2]
  BY <1>1, <1>3 DEF NeedsOf
<1>5. \A n \in DOMAIN Catalogue \ {"role_id", "role_secret"} :
        needs[n] = CHOOSE v \in Read(n, list) : TRUE
  BY <1>1 DEF NeedsOf
<1>. QED
  BY <1>2, <1>4, <1>5

LEMMA OneValue ==
  ASSUME NEW list, AList(list), NEW needs \in Process(list),
         NEW uuid \in DOMAIN Catalogue \ {"role_id", "role_secret"}
  PROVE  /\ Absent(uuid, list) => needs[uuid] = Empty
         /\ \A v : Sendable(v) /\ Once(Text(uuid, v), list) => needs[uuid] = v
<1>1. needs[uuid] = CHOOSE v \in Read(uuid, list) : TRUE
  BY NeedsRead
<1>2. ASSUME Absent(uuid, list)
      PROVE  needs[uuid] = Empty
  <2>1. Read(uuid, list) = {Empty}
    BY <1>2, ReadAbsent
  <2>. QED
    BY <1>1, <2>1
<1>3. ASSUME NEW v, Sendable(v), Once(Text(uuid, v), list)
      PROVE  needs[uuid] = v
  <2>1. Text(uuid, v).uuid = uuid /\ ReadAs(Text(uuid, v)) = {v}
    BY <1>3, TextReads
  <2>2. Read(uuid, list) = {v}
    BY <1>3, <2>1, ReadOnce
  <2>. QED
    BY <1>1, <2>2
<1>. QED
  BY <1>2, <1>3

\* The request goes to the place the profile and the platform name.
LEMMA PathRequested ==
  ASSUME NEW mount \in Mounts, NEW prefix \in Prefixes, NEW path \in SecretPaths, NEW name,
         NEW list, Carries(list, mount, prefix, path), NEW needs \in Process(list)
  PROVE  PathOf(needs, name) = Resolved[<<mount>> \o (prefix \o path \o name)]
<1>1. /\ AList(list)
      /\ Once(Text("profile_mount", mount), list)
      /\ IF prefix = <<>> THEN Absent("profile_path", list)
                          ELSE Once(Text("profile_path", prefix), list)
      /\ IF path = <<>> THEN Absent("secret_path", list)
                        ELSE Once(Text("secret_path", path), list)
  BY DEF Carries
<1>2. {"profile_mount", "profile_path", "secret_path"} \subseteq
        DOMAIN Catalogue \ {"role_id", "role_secret"}
  BY CatalogueTypes
<1>3. Sendable(mount) /\ Sendable(prefix) /\ Sendable(path)
  BY SendableAssumption
<1>4. needs["profile_mount"] = mount
  BY <1>1, <1>2, <1>3, OneValue
<1>5. Segments(needs["profile_path"]) = prefix
  <2>1. needs["profile_path"] = IF prefix = <<>> THEN Empty ELSE prefix
    BY <1>1, <1>2, <1>3, OneValue
  <2>. QED
    BY <1>3, <2>1 DEF Segments, Sendable
<1>6. Segments(needs["secret_path"]) = path
  <2>1. needs["secret_path"] = IF path = <<>> THEN Empty ELSE path
    BY <1>1, <1>2, <1>3, OneValue
  <2>. QED
    BY <1>3, <2>1 DEF Segments, Sendable
<1>. QED
  BY <1>4, <1>5, <1>6 DEF PathOf, vaultPath

\* What can be refused is an attribute that is not sent as it is asked for.
LEMMA NothingRefused ==
  ASSUME NEW list,
         \A n \in DOMAIN Catalogue :
           \/ Absent(n, list)
           \/ \E sent : sent.uuid = n /\ Once(sent, list) /\ Refused \notin ReadAs(sent)
  PROVE  ~Refusable(list)
<1>. SUFFICES ASSUME NEW i \in DOMAIN list, list[i].uuid \in DOMAIN Catalogue
              PROVE  Refused \notin ReadAs(list[i])
  BY DEF Refusable, Known
<1>1. PICK sent : /\ sent.uuid = list[i].uuid /\ Once(sent, list)
                  /\ Refused \notin ReadAs(sent)
  BY DEF Absent
<1>. QED
  BY <1>1 DEF Once

LEMMA TextNotRefused ==
  ASSUME NEW uuid \in DOMAIN Catalogue \ {"role_id", "role_secret"}, NEW v, Sendable(v)
  PROVE  Text(uuid, v).uuid = uuid /\ Refused \notin ReadAs(Text(uuid, v))
  BY TextReads DEF Sendable

\* The attributes of a login, and others that can be read, are not refused.
LEMMA LoginNotRefused ==
  ASSUME NEW list, NEW type \in CredentialTypes,
         NEW id \in RoleSecrets, NEW secret \in RoleSecrets, Logs(list, type, id, secret),
         \A n \in Elsewhere :
           Absent(n, list) \/ \E v : Sendable(v) /\ Once(Text(n, v), list)
  PROVE  ~Refusable(list)
<1>. DEFINE Fine(n) ==
       \/ Absent(n, list)
       \/ \E sent : sent.uuid = n /\ Once(sent, list) /\ Refused \notin ReadAs(sent)
<1>1. Sendable("uri") /\ Sendable("role") /\ Sendable(type)
  BY SendableAssumption
<1>2. {"uri", "credential_type", "role"} \cup Elsewhere =
        DOMAIN Catalogue \ {"role_id", "role_secret"}
  BY CatalogueTypes DEF Elsewhere
<1>3. Fine("uri") /\ Fine("credential_type")
  BY <1>1, <1>2, TextNotRefused DEF Logs
<1>4. Fine("role")
  BY <1>1, <1>2, TextNotRefused DEF Logs
<1>5. Fine("role_id") /\ Fine("role_secret")
  BY ResourceReads DEF Logs
<1>6. \A n \in Elsewhere : Fine(n)
  BY <1>2, TextNotRefused
<1>7. \A n \in DOMAIN Catalogue : Fine(n)
  <2>. HIDE DEF Fine
  <2>. QED
    BY <1>2, <1>3, <1>4, <1>5, <1>6
<1>. QED
  BY <1>7, NothingRefused

\* They are enough to log in, but for a type that needs the token.
LEMMA LoginChecked ==
  ASSUME NEW list, AList(list), NEW type \in CredentialTypes, type \in K8sTypes => k8sToken,
         NEW id \in RoleSecrets, NEW secret \in RoleSecrets, Logs(list, type, id, secret),
         NEW needs \in Process(list)
  PROVE  ConnectionCheck(needs)
<1>1. Sendable("uri") /\ Sendable("role") /\ Sendable(type)
  BY SendableAssumption
<1>2. {"uri", "credential_type", "role"} \subseteq DOMAIN Catalogue \ {"role_id", "role_secret"}
  BY CatalogueTypes
<1>3. needs["uri"] = "uri" /\ needs["credential_type"] = type
  BY <1>1, <1>2, OneValue DEF Logs
<1>4. ASSUME type = "approle"
      PROVE  Empty \notin {needs["role_id"], needs["role_secret"]}
  <2>1. /\ Once(Resource("role_id", id), list)
        /\ Once(Resource("role_secret", secret), list)
    BY <1>4 DEF Logs
  <2>2. /\ Read("role_id", list) = {id.content} /\ id.content # Empty
        /\ Read("role_secret", list) = {secret.content} /\ secret.content # Empty
    BY <2>1, ReadOnce, ResourceReads
  <2>. QED
    BY <2>2, NeedsRead
<1>5. type # "approle" => type \in K8sTypes /\ needs["role"] = "role"
  BY <1>1, <1>2, OneValue DEF Logs, CredentialTypes
<1>6. credTypeCheck(needs)
  BY <1>1, <1>3, <1>4, <1>5 DEF credTypeCheck, Sendable
<1>. QED
  BY <1>1, <1>3, <1>6 DEF ConnectionCheck, IsBlank, Sendable

-----------------------------------------------------------------------------
(* The inductive invariant.                                                *)

\* A login of this type was offered by a process that could take it; if this
\* one cannot, it was started since.
Offered(type) == type \in K8sTypes => k8sToken \/ restarts > 0

\* The platform has been given what it fills in, and fills in what it was asked.
FormInv ==
  /\ DOMAIN form = {"types", "vault", "mounts", "profile"}
  /\ \A type \in form.types : type \in CredentialTypes /\ Offered(type)
  /\ form.vault # <<>> =>
       \E type \in CredentialTypes, id \in RoleSecrets, secret \in RoleSecrets :
         form.vault = VaultList(type, id, secret) /\ Offered(type)
  /\ form.mounts \subseteq Mounts
  /\ form.profile # <<>> =>
       \E mount \in Mounts, prefix \in Prefixes : form.profile = ProfileList(mount, prefix)

\* What was last written for a place is what the vault holds there.
WrittenInv ==
  /\ DOMAIN written = Places
  /\ \A p \in Places : written[p] # Nil =>
       /\ written[p] \in Secrets
       /\ ToPayload(written[p]) # Refused
       /\ vault[p] = ToPayload(written[p])

\* A path is sent to the place it is meant for.
Aimed(path) == path.place = path.meant /\ path.place \in Places

\* So is the request for a secret that is with the manager.
AnswerInv ==
  /\ DOMAIN answer = {"op", "asked", "type", "path", "stage", "status", "content"}
  /\ (answer.stage = "manager" /\ answer.op \in {"create", "update", "content", "delete"}) =>
       Aimed(answer.path)

RequestInv == TypeOK /\ FormInv /\ WrittenInv /\ AnswerInv /\ OfferedIsAccepted

LEMMA SentOnce ==
  ASSUME NEW uuid, NEW v, NEW list, Once(Text(uuid, v), list)
  PROVE  SentFor(uuid, list) = v /\ \E j \in DOMAIN list : list[j].uuid = uuid
<1>1. PICK i \in DOMAIN list : /\ list[i] = Text(uuid, v)
                               /\ \A j \in DOMAIN list : list[j].uuid = uuid => j = i
  BY Uuids DEF Once
<1>2. list[i].uuid = uuid /\ list[i].content[1][2] = v
  BY <1>1 DEF Text, Sent
<1>3. (CHOOSE j \in DOMAIN list : list[j].uuid = uuid) = i
  BY <1>1, <1>2
<1>. QED
  BY <1>2, <1>3 DEF SentFor

LEMMA ProfileSent ==
  ASSUME NEW mount \in Mounts, NEW prefix \in Prefixes, form.profile = ProfileList(mount, prefix)
  PROVE  SentFor("profile_mount", form.profile) = mount /\ PrefixSent = prefix
<1>1. SentFor("profile_mount", form.profile) = mount
  BY ProfileLists, SentOnce
<1>2. CASE prefix = <<>>
  <2>1. Absent("profile_path", form.profile)
    BY <1>2, ProfileLists
  <2>. QED
    BY <1>1, <1>2, <2>1 DEF PrefixSent, Absent
<1>3. CASE prefix # <<>>
  <2>1. Once(Text("profile_path", prefix), form.profile)
    BY <1>3, ProfileLists
  <2>2. /\ SentFor("profile_path", form.profile) = prefix
        /\ \E j \in DOMAIN form.profile : form.profile[j].uuid = "profile_path"
    BY <2>1, SentOnce
  <2>. QED
    BY <1>1, <2>2 DEF PrefixSent
<1>. QED
  BY <1>2, <1>3

\* Where the profile, a path and a name come to.
LEMMA InPlaces ==
  ASSUME NEW mount \in Mounts, NEW prefix \in Prefixes, NEW path \in SecretPaths,
         NEW name \in Names
  PROVE  Resolved[<<mount>> \o (prefix \o path \o name)] \in Places
<1>. DEFINE at == <<mount, prefix, path, name>>
<1>1. at \in Mounts \X Prefixes \X SecretPaths \X Names
  OBVIOUS
<1>2. <<mount>> \o (prefix \o path \o name) = <<at[1]>> \o (at[2] \o at[3] \o at[4])
  OBVIOUS
<1>3. <<mount>> \o (prefix \o path \o name) \in Paths
  BY <1>1, <1>2 DEF Paths
<1>. QED
  BY <1>3 DEF Places

LEMMA RequestInit == Init => RequestInv
<1>. SUFFICES ASSUME Init PROVE RequestInv
  OBVIOUS
<1>1. TypeOK
  BY BoundsAssumption DEF Init, TypeOK, NoAnswer, Statuses
<1>2. FormInv
  BY DEF Init, FormInv, NoForm
<1>3. WrittenInv
  BY DEF Init, WrittenInv
<1>4. AnswerInv /\ OfferedIsAccepted
  BY DEF Init, AnswerInv, OfferedIsAccepted, NoAnswer
<1>. QED
  BY <1>1, <1>2, <1>3, <1>4 DEF RequestInv

-----------------------------------------------------------------------------
(* Its steps.                                                              *)

AnswerFields == {"op", "asked", "type", "path", "stage", "status", "content"}

LEMMA Settled ==
  ASSUME DOMAIN answer' = AnswerFields, answer'.stage \in {"none", "login", "vault", "operation"}
  PROVE  AnswerInv' /\ OfferedIsAccepted'
  BY DEF AnswerInv, OfferedIsAccepted, AnswerFields

LEMMA ResetStep ==
  ASSUME answer' = NoAnswer
  PROVE  AnswerInv' /\ OfferedIsAccepted' /\ answer'.status \in Statuses
<1>1. DOMAIN NoAnswer = AnswerFields /\ NoAnswer.stage = "none" /\ NoAnswer.status = 0
  BY DEF NoAnswer, AnswerFields
<1>. QED
  BY <1>1, Settled DEF Statuses

LEMMA DoneStep ==
  ASSUME AnswerInv, NEW stage \in {"vault", "operation"}, NEW status, Done(stage, status)
  PROVE  /\ AnswerInv' /\ OfferedIsAccepted' /\ answer'.status = status
         /\ answer'.stage = stage /\ answer'.op = answer.op /\ answer'.path = answer.path
<1>1. DOMAIN answer = AnswerFields
  BY DEF AnswerInv, AnswerFields
<1>2. /\ DOMAIN answer' = AnswerFields /\ answer'.stage = stage /\ answer'.status = status
      /\ answer'.op = answer.op /\ answer'.path = answer.path
  BY <1>1 DEF Done, AnswerFields
<1>. QED
  BY <1>2, Settled

LEMMA FailsStep ==
  ASSUME AnswerInv, Fails
  PROVE  /\ AnswerInv' /\ OfferedIsAccepted' /\ answer'.status \in {403, 500}
         /\ answer'.stage = "vault" /\ answer'.op = answer.op /\ answer'.path = answer.path
<1>1. PICK error \in {"forbidden", "failed"} : Done("vault", OpStatus[error])
  BY DEF Fails
<1>2. OpStatus[error] \in {403, 500}
  BY DEF OpStatus
<1>. QED
  BY <1>1, <1>2, DoneStep

\* Where the token and the form are what they were, the answer is all that counts.
LEMMA QuietStep ==
  ASSUME RequestInv, Frame, UNCHANGED form, NoChange,
         AnswerInv' /\ OfferedIsAccepted' /\ answer'.status \in Statuses
  PROVE  RequestInv'
<1>1. TypeOK'
  BY DEF RequestInv, TypeOK, Frame, NoChange
<1>2. FormInv'
  BY DEF RequestInv, FormInv, Frame, Offered
<1>3. WrittenInv'
  BY DEF RequestInv, WrittenInv, NoChange
<1>. QED
  BY <1>1, <1>2, <1>3 DEF RequestInv

(* Forms.                                                                  *)

LEMMA FormStep ==
  ASSUME RequestInv, Frame, NoChange, FormInv',
         AnswerInv' /\ OfferedIsAccepted' /\ answer'.status \in Statuses
  PROVE  RequestInv'
<1>1. TypeOK'
  BY DEF RequestInv, TypeOK, Frame, NoChange
<1>2. WrittenInv'
  BY DEF RequestInv, WrittenInv, NoChange
<1>. QED
  BY <1>1, <1>2 DEF RequestInv

LEMMA ListVaultStep ==
  ASSUME RequestInv, listVaultAttributes
  PROVE  RequestInv'
<1>1. /\ answer = NoAnswer /\ UNCHANGED answer /\ Frame /\ NoChange
      /\ form' = [NoForm EXCEPT !.types = OfferedTypes]
  BY DEF listVaultAttributes
<1>2. \A type \in OfferedTypes : type \in CredentialTypes /\ Offered(type)
  BY DEF OfferedTypes, CredentialTypes, Offered, K8sTypes
<1>3. FormInv'
  BY <1>1, <1>2 DEF FormInv, NoForm, Offered, Frame
<1>4. AnswerInv' /\ OfferedIsAccepted' /\ answer'.status \in Statuses
  BY <1>1, ResetStep
<1>. QED
  BY <1>1, <1>3, <1>4, FormStep

LEMMA ChooseProfileStep ==
  ASSUME RequestInv, ChooseProfile
  PROVE  RequestInv'
<1>1. PICK mount \in form.mounts, prefix \in Prefixes :
        form' = [form EXCEPT !.mounts = {}, !.profile = ProfileList(mount, prefix)]
  BY DEF ChooseProfile
<1>2. answer = NoAnswer /\ UNCHANGED answer /\ Frame /\ NoChange
  BY DEF ChooseProfile
<1>3. mount \in Mounts
  BY DEF RequestInv, FormInv
<1>4. FormInv'
  BY <1>1, <1>2, <1>3 DEF RequestInv, FormInv, Offered, Frame
<1>5. AnswerInv' /\ OfferedIsAccepted' /\ answer'.status \in Statuses
  BY <1>2, ResetStep
<1>. QED
  BY <1>2, <1>4, <1>5, FormStep

LEMMA CredentialsTypeStep ==
  ASSUME RequestInv, credentialsType
  PROVE  RequestInv'
<1>. PICK type \in form.types :
       /\ answer = NoAnswer
       /\ IF type = "approle" \/ k8sToken
          THEN /\ \E id \in RoleSecrets : \E secret \in RoleSecrets \ {id} :
                    form' = [form EXCEPT !.types = {}, !.vault = VaultList(type, id, secret)]
               /\ UNCHANGED answer
          ELSE /\ answer' = [NoAnswer EXCEPT !.op = "callback", !.stage = "check", !.status = 400]
               /\ UNCHANGED form
       /\ NoChange /\ Frame
  BY DEF credentialsType
<1>1. type \in CredentialTypes /\ Offered(type)
  BY DEF RequestInv, FormInv
<1>2. CASE type = "approle" \/ k8sToken
  <2>1. PICK id \in RoleSecrets, secret \in RoleSecrets :
          form' = [form EXCEPT !.types = {}, !.vault = VaultList(type, id, secret)]
    BY <1>2
  <2>2. FormInv'
    BY <1>1, <2>1 DEF RequestInv, FormInv, Offered, Frame
  <2>3. AnswerInv' /\ OfferedIsAccepted' /\ answer'.status \in Statuses
    BY <1>2, ResetStep
  <2>. QED
    BY <2>2, <2>3, FormStep
<1>3. CASE ~(type = "approle" \/ k8sToken)
  <2>1. /\ answer' = [NoAnswer EXCEPT !.op = "callback", !.stage = "check", !.status = 400]
        /\ form' = form
    BY <1>3
  <2>2. DOMAIN answer' = AnswerFields /\ answer'.stage = "check" /\ answer'.status = 400
    BY <2>1 DEF NoAnswer, AnswerFields
  <2>3. restarts > 0 /\ ~k8sToken
    BY <1>1, <1>3 DEF Offered, CredentialTypes
  <2>4. AnswerInv' /\ OfferedIsAccepted' /\ answer'.status \in Statuses
    BY <2>1, <2>2, <2>3 DEF AnswerInv, OfferedIsAccepted, Statuses, AnswerFields, Frame
  <2>. QED
    BY <2>1, <2>4, QuietStep
<1>. QED
  BY <1>2, <1>3

LEMMA ListMountsStep ==
  ASSUME RequestInv, NEW status \in Statuses, NEW offers \in BOOLEAN,
         ListVisibleMounts(status, offers)
  PROVE  RequestInv'
<1>1. Frame /\ NoChange /\ AnswerInv
  BY DEF ListVisibleMounts, RequestInv
<1>2. AnswerInv' /\ OfferedIsAccepted' /\ answer'.status \in Statuses
  <2>1. CASE Fails
    BY <1>1, <2>1, FailsStep DEF Statuses
  <2>2. CASE Done("operation", OpStatus.notFound)
    BY <1>1, <2>2, DoneStep DEF Statuses, OpStatus
  <2>3. CASE Done("operation", status)
    BY <1>1, <2>3, DoneStep
  <2>. QED
    BY <2>1, <2>2, <2>3 DEF ListVisibleMounts
<1>3. FormInv'
  <2>1. CASE UNCHANGED form
    BY <1>1, <2>1 DEF RequestInv, FormInv, Offered, Frame
  <2>2. ASSUME NEW visible \in SUBSET Mounts, form' = [form EXCEPT !.mounts = visible]
        PROVE  FormInv'
    BY <1>1, <2>2 DEF RequestInv, FormInv, Offered, Frame
  <2>. QED
    BY <2>1, <2>2 DEF ListVisibleMounts
<1>. QED
  BY <1>1, <1>2, <1>3, FormStep

(* Requests, up to the manager.                                            *)

\* A refusal of the attributes of a request is one the property allows.
LEMMA RefusedStep ==
  ASSUME RequestInv, NEW op, NEW style, NEW stage \in {"process", "check"},
         Ends(op, style, Nowhere, stage, 400),
         style \in {"defined", "foreign"} => restarts > 0 /\ ~k8sToken
  PROVE  RequestInv'
<1>1. /\ DOMAIN answer' = AnswerFields /\ answer'.stage = stage /\ answer'.status = 400
      /\ answer'.asked => style \in {"defined", "foreign"}
      /\ Frame /\ NoChange /\ UNCHANGED form
  BY DEF Ends, NoAnswer, AnswerFields
<1>2. AnswerInv' /\ answer'.status \in Statuses
  BY <1>1 DEF AnswerInv, Statuses, AnswerFields
<1>3. OfferedIsAccepted'
  BY <1>1 DEF OfferedIsAccepted, Frame
<1>. QED
  BY <1>1, <1>2, <1>3, QuietStep

LEMMA LogsInStep ==
  ASSUME RequestInv, NEW op, NEW style, NEW path, LogsIn(op, style, path),
         op \in {"create", "update", "content", "delete"} => Aimed(path)
  PROVE  RequestInv'
<1>1. ASSUME NEW fault \in DOMAIN LoginStatus,
             Ends(op, style, Nowhere, "login", LoginStatus[fault])
      PROVE  RequestInv'
  <2>1. LoginStatus[fault] \in Statuses
    BY DEF LoginStatus, Statuses
  <2>2. /\ DOMAIN answer' = AnswerFields /\ answer'.stage = "login"
        /\ answer'.status = LoginStatus[fault]
        /\ Frame /\ NoChange /\ UNCHANGED form
    BY <1>1 DEF Ends, NoAnswer, AnswerFields
  <2>. QED
    BY <2>1, <2>2, Settled, QuietStep
<1>2. ASSUME Ends(op, style, path, "manager", 0)
      PROVE  RequestInv'
  <2>1. /\ DOMAIN answer' = AnswerFields /\ answer'.stage = "manager"
        /\ answer'.status = 0 /\ answer'.op = op /\ answer'.path = path
        /\ Frame /\ NoChange /\ UNCHANGED form
    BY <1>2 DEF Ends, NoAnswer, AnswerFields
  <2>2. Aimed(path) => Aimed(answer'.path)
    BY <2>1
  <2>3. AnswerInv' /\ OfferedIsAccepted' /\ answer'.status \in Statuses
    BY <2>1, <2>2 DEF AnswerInv, OfferedIsAccepted, Statuses, AnswerFields, Aimed, Places
  <2>. QED
    BY <2>1, <2>3, QuietStep
<1>. QED
  BY <1>1, <1>2 DEF LogsIn

LEMMA ConfiguredVault ==
  ASSUME FormInv, form.vault # <<>>
  PROVE  \E type \in CredentialTypes, id \in RoleSecrets, secret \in RoleSecrets :
           /\ Offered(type)
           /\ \A style : LET sent == Styled(style, form.vault) IN
                /\ AList(sent)
                /\ \A n \in Elsewhere : Absent(n, sent)
                /\ style \in {"defined", "foreign"} => Logs(sent, type, id, secret)
<1>1. PICK type \in CredentialTypes, id \in RoleSecrets, secret \in RoleSecrets :
        form.vault = VaultList(type, id, secret) /\ Offered(type)
  BY DEF FormInv
<1>2. /\ AList(form.vault) /\ Len(form.vault) >= 2 /\ form.vault[1] = Text("uri", "uri")
      /\ Logs(form.vault, type, id, secret)
      /\ \A n \in Elsewhere : Absent(n, form.vault)
  BY <1>1, VaultLists
<1>3. ASSUME NEW style
      PROVE  LET sent == Styled(style, form.vault) IN
             /\ AList(sent)
             /\ \A n \in Elsewhere : Absent(n, sent)
             /\ style \in {"defined", "foreign"} => Logs(sent, type, id, secret)
  <2>1. \A n \in Elsewhere : n # "foreign"
    BY DEF Elsewhere
  <2>2. /\ AList(Styled(style, form.vault))
        /\ \A n \in Elsewhere : Absent(n, Styled(style, form.vault))
    BY <1>2, <2>1, StyledLists
  <2>3. style \in {"defined", "foreign"} => Logs(Styled(style, form.vault), type, id, secret)
    BY <1>2, AskedLists
  <2>. QED
    BY <2>2, <2>3
<1>. QED
  BY <1>1, <1>3

LEMMA VaultRequestStep ==
  ASSUME RequestInv, NEW op \in {"check", "profile"}, NEW style, VaultRequest(op, style)
  PROVE  RequestInv'
<1>. DEFINE list == Styled(style, form.vault)
<1>1. FormInv /\ form.vault # <<>>
  BY DEF RequestInv, VaultRequest, Configured
<1>2. PICK type \in CredentialTypes, id \in RoleSecrets, secret \in RoleSecrets :
        /\ Offered(type) /\ AList(list)
        /\ \A n \in Elsewhere : Absent(n, list)
        /\ style \in {"defined", "foreign"} => Logs(list, type, id, secret)
  BY <1>1, ConfiguredVault
<1>3. \/ Refusable(list) /\ Ends(op, style, Nowhere, "process", 400)
      \/ \E needs \in Process(list) :
           IF ConnectionCheck(needs) THEN LogsIn(op, style, Nowhere)
                                     ELSE Ends(op, style, Nowhere, "check", 400)
  BY DEF VaultRequest
<1>. HIDE DEF list
<1>4. CASE Refusable(list) /\ Ends(op, style, Nowhere, "process", 400)
  <2>1. style \notin {"defined", "foreign"}
    BY <1>2, <1>4, LoginNotRefused
  <2>. QED
    BY <1>4, <2>1, RefusedStep
<1>5. ASSUME NEW needs \in Process(list), ConnectionCheck(needs), LogsIn(op, style, Nowhere)
      PROVE  RequestInv'
  BY <1>5, LogsInStep
<1>6. ASSUME NEW needs \in Process(list), ~ConnectionCheck(needs),
             Ends(op, style, Nowhere, "check", 400)
      PROVE  RequestInv'
  <2>1. style \in {"defined", "foreign"} => restarts > 0 /\ ~k8sToken
    BY <1>2, <1>6, LoginChecked DEF Offered
  <2>. QED
    BY <1>6, <2>1, RefusedStep
<1>. QED
  BY <1>3, <1>4, <1>5, <1>6

LEMMA SecretRequestStep ==
  ASSUME RequestInv, NEW op, NEW style, NEW name \in Names, SecretRequest(op, style, name)
  PROVE  RequestInv'
<1>. DEFINE sent == Styled(style, form.vault)
<1>1. FormInv /\ form.vault # <<>> /\ form.profile # <<>>
  BY DEF RequestInv, SecretRequest, Ready, Configured
<1>2. PICK type \in CredentialTypes, id \in RoleSecrets, secret \in RoleSecrets :
        /\ Offered(type) /\ AList(sent)
        /\ \A n \in Elsewhere : Absent(n, sent)
        /\ style \in {"defined", "foreign"} => Logs(sent, type, id, secret)
  BY <1>1, ConfiguredVault
<1>3. PICK mount \in Mounts, prefix \in Prefixes : form.profile = ProfileList(mount, prefix)
  BY <1>1 DEF FormInv
<1>4. PICK path \in SecretPaths :
        LET list == sent \o form.profile \o PathList("secret_path", path) IN
        \/ Refusable(list) /\ Ends(op, style, Nowhere, "process", 400)
        \/ \E needs \in Process(list) :
             IF CommonCheck(needs)
             THEN LogsIn(op, style, [place |-> PathOf(needs, name), meant |-> Meant(path, name)])
             ELSE Ends(op, style, Nowhere, "check", 400)
  BY DEF SecretRequest
<1>. DEFINE list == Request(sent, mount, prefix, path)
<1>5. \/ Refusable(list) /\ Ends(op, style, Nowhere, "process", 400)
      \/ \E needs \in Process(list) :
           IF CommonCheck(needs)
           THEN LogsIn(op, style, [place |-> PathOf(needs, name), meant |-> Meant(path, name)])
           ELSE Ends(op, style, Nowhere, "check", 400)
  BY <1>3, <1>4 DEF Request
<1>. HIDE DEF sent
<1>6. Carries(list, mount, prefix, path)
  BY <1>2, RequestLists
<1>6a. style \in {"defined", "foreign"} => Logs(list, type, id, secret)
  BY <1>2, RequestLogs
<1>. HIDE DEF list
<1>7. Sendable(mount) /\ Sendable(prefix) /\ Sendable(path)
  BY SendableAssumption
<1>8. \A n \in Elsewhere : Absent(n, list) \/ \E v : Sendable(v) /\ Once(Text(n, v), list)
  BY <1>6, <1>7 DEF Elsewhere, Carries
<1>9. ASSUME NEW needs \in Process(list)
      PROVE  PathOf(needs, name) = Resolved[<<mount>> \o (prefix \o path \o name)]
  BY <1>6, PathRequested, Z3
<1>10. CASE Refusable(list) /\ Ends(op, style, Nowhere, "process", 400)
  <2>1. style \notin {"defined", "foreign"}
    BY <1>2, <1>6a, <1>8, <1>10, LoginNotRefused
  <2>. QED
    BY <1>10, <2>1, RefusedStep
<1>11. ASSUME NEW needs \in Process(list),
              LogsIn(op, style, [place |-> PathOf(needs, name), meant |-> Meant(path, name)])
       PROVE  RequestInv'
  <2>1. Meant(path, name) = Resolved[<<mount>> \o (prefix \o path \o name)]
    BY <1>3, ProfileSent DEF Meant
  <2>2. PathOf(needs, name) \in Places /\ Meant(path, name) = PathOf(needs, name)
    BY <1>9, <2>1, InPlaces
  <2>3. Aimed([place |-> PathOf(needs, name), meant |-> Meant(path, name)])
    BY <2>2 DEF Aimed
  <2>. QED
    BY <1>11, <2>3, LogsInStep
<1>12. ASSUME NEW needs \in Process(list), ~CommonCheck(needs),
              Ends(op, style, Nowhere, "check", 400)
       PROVE  RequestInv'
  <2>1. needs["profile_mount"] = mount
    BY <1>6, <1>7, OneValue, CatalogueTypes DEF Carries
  <2>2. ~ConnectionCheck(needs)
    BY <1>7, <1>12, <2>1 DEF CommonCheck, IsBlank, Sendable
  <2>3. style \in {"defined", "foreign"} => restarts > 0 /\ ~k8sToken
    BY <1>2, <1>6, <1>6a, <2>2, LoginChecked DEF Offered, Carries
  <2>. QED
    BY <1>12, <2>3, RefusedStep
<1>. QED
  BY <1>5, <1>10, <1>11, <1>12

(* The manager.                                                            *)

LEMMA PayloadKeys ==
  ASSUME NEW secret \in Secrets, ToPayload(secret) # Refused
  PROVE  ToPayload(secret) # Nil /\ DOMAIN ToPayload(secret) # {}
<1>. USE DEF ApiKey, BasicAuth, Generic, JwtToken, KeyStore, KeyValue, PrivateKey, SecretKey,
             CommonTypes
<1>1. Carried(secret) /\ ToPayload(secret) # Nil
  BY SecretsAssumption
<1>2. CASE secret.type \in CommonTypes
  <2>1. ToPayload(secret) = [content |-> secret.content]
    BY <1>2 DEF ToPayload
  <2>. QED
    BY <1>1, <2>1
<1>3. CASE secret.type = BasicAuth
  <2>1. ToPayload(secret) = [username |-> secret.username, password |-> secret.password]
    BY <1>3 DEF ToPayload
  <2>. QED
    BY <1>1, <2>1
<1>4. CASE secret.type = KeyStore
  <2>1. ToPayload(secret) = [keyStoreType |-> <<"text", secret.keyStoreType>>,
                             content |-> secret.content, password |-> secret.password]
    BY <1>4 DEF ToPayload
  <2>. QED
    BY <1>1, <2>1
<1>5. CASE secret.type = KeyValue
  <2>1. ToPayload(secret) = GetKeyValueSecretContent(secret)
    BY <1>5 DEF ToPayload
  <2>. QED
    BY <1>1, <2>1 DEF GetKeyValueSecretContent
<1>6. CASE secret.type = PrivateKey
  <2>1. ToPayload(secret) = [content |-> GetPrivateKeySecretContent(secret)]
    BY <1>6 DEF ToPayload
  <2>. QED
    BY <1>1, <2>1
<1>. QED
  BY <1>1, <1>2, <1>3, <1>4, <1>5, <1>6 DEF Carried

\* A request that is with the manager goes to a place of the vault.
LEMMA PathInVault ==
  ASSUME RequestInv, NEW op \in {"create", "update", "content", "delete"}, InManager(op)
  PROVE  Aimed(answer.path)
  BY DEF RequestInv, AnswerInv, InManager

\* A write puts the payload of a secret of ours, or nothing of ours, at a path.
LEMMA WriteStep ==
  ASSUME RequestInv, NEW path, Aimed(path), NEW payload, NEW secret,
         Write(path, payload, secret),
         secret # Nil => /\ secret \in Secrets
                         /\ payload = ToPayload(secret) /\ payload # Refused,
         Frame, UNCHANGED form,
         AnswerInv' /\ OfferedIsAccepted' /\ answer'.status \in Statuses
  PROVE  RequestInv'
<1>. DEFINE place == path.place
<1>1. /\ DOMAIN vault = Places /\ DOMAIN written = Places /\ place \in Places
      /\ vault' = [vault EXCEPT ![place] = payload]
      /\ written' = [written EXCEPT ![place] = secret]
  BY DEF RequestInv, TypeOK, WrittenInv, Write, Aimed
<1>. HIDE DEF place
<1>2. /\ DOMAIN vault' = Places /\ DOMAIN written' = Places
      /\ vault'[place] = payload /\ written'[place] = secret
      /\ \A p \in Places \ {place} : vault'[p] = vault[p] /\ written'[p] = written[p]
  BY <1>1
<1>3. secret # Nil => payload # Nil /\ DOMAIN payload # {}
  BY PayloadKeys
<1>4. \A p \in Places : written'[p] # Nil /\ vault'[p] # Nil => DOMAIN vault'[p] # {}
  BY <1>2, <1>3 DEF RequestInv, TypeOK
<1>5. changes' \in 0 .. MaxChanges
  BY BoundsAssumption DEF RequestInv, TypeOK, Write
<1>6. TypeOK'
  BY <1>2, <1>4, <1>5 DEF RequestInv, TypeOK, Frame
<1>7. WrittenInv'
  BY <1>2 DEF RequestInv, WrittenInv
<1>8. FormInv'
  BY DEF RequestInv, FormInv, Frame, Offered
<1>. QED
  BY <1>6, <1>7, <1>8 DEF RequestInv

\* An answer of the manager that changes nothing.
LEMMA AnsweredStep ==
  ASSUME RequestInv, Keep, NoChange,
         Fails \/ \E status \in Statuses : Done("operation", status)
  PROVE  RequestInv'
<1>1. AnswerInv
  BY DEF RequestInv
<1>2. AnswerInv' /\ OfferedIsAccepted' /\ answer'.status \in Statuses
  <2>1. CASE Fails
    BY <1>1, <2>1, FailsStep DEF Statuses
  <2>2. ASSUME NEW status \in Statuses, Done("operation", status)
        PROVE  AnswerInv' /\ OfferedIsAccepted' /\ answer'.status \in Statuses
    BY <1>1, <2>2, DoneStep
  <2>. QED
    BY <2>1, <2>2
<1>. QED
  BY <1>2, QuietStep DEF Keep

LEMMA WrittenStep ==
  ASSUME RequestInv, NEW op \in {"create", "update", "content", "delete"}, InManager(op),
         NEW payload, NEW secret, Write(answer.path, payload, secret),
         secret # Nil => /\ secret \in Secrets
                         /\ payload = ToPayload(secret) /\ payload # Refused,
         Keep, NEW status \in Statuses, Done("operation", status)
  PROVE  RequestInv'
<1>1. Aimed(answer.path)
  BY PathInVault
<1>2. AnswerInv' /\ OfferedIsAccepted' /\ answer'.status \in Statuses
  BY DoneStep DEF RequestInv
<1>. QED
  BY <1>1, <1>2, WriteStep DEF Keep

LEMMA CreateStep ==
  ASSUME RequestInv, NEW secret \in Secrets, createSecret(secret)
  PROVE  RequestInv'
<1>. DEFINE payload == ToPayload(secret)
<1>1. InManager("create") /\ Keep
  BY DEF createSecret
<1>2. {500, 412, 201} \subseteq Statuses /\ OpStatus.failed = 500 /\ OpStatus.exists = 412
  BY DEF Statuses, OpStatus
<1>3. CASE NoChange /\ (Fails \/ Done("operation", 500) \/ Done("operation", 412))
  BY <1>1, <1>2, <1>3, AnsweredStep
<1>4. CASE payload # Refused /\ Write(answer.path, payload, secret) /\ Done("operation", 201)
  BY <1>1, <1>2, <1>4, WrittenStep
<1>. QED
  BY <1>2, <1>3, <1>4 DEF createSecret

LEMMA UpdateStep ==
  ASSUME RequestInv, NEW secret \in Secrets, updateSecret(secret)
  PROVE  RequestInv'
<1>. DEFINE payload == ToPayload(secret)
<1>1. InManager("update") /\ Keep
  BY DEF updateSecret
<1>2. {500, 404, 200} \subseteq Statuses /\ OpStatus.failed = 500 /\ OpStatus.notFound = 404
  BY DEF Statuses, OpStatus
<1>3. CASE NoChange /\ (Fails \/ Done("operation", 500) \/ Done("operation", 404))
  BY <1>1, <1>2, <1>3, AnsweredStep
<1>4. CASE payload # Refused /\ Write(answer.path, payload, secret) /\ Done("operation", 200)
  BY <1>1, <1>2, <1>4, WrittenStep
<1>. QED
  BY <1>2, <1>3, <1>4 DEF updateSecret

LEMMA DeleteStep ==
  ASSUME RequestInv, deleteSecret
  PROVE  RequestInv'
<1>1. InManager("delete") /\ Keep /\ 204 \in Statuses
  BY DEF deleteSecret, Statuses
<1>2. CASE Fails /\ NoChange
  BY <1>1, <1>2, AnsweredStep
<1>3. CASE Write(answer.path, Nil, Nil) /\ Done("operation", 204)
  BY <1>1, <1>3, WrittenStep
<1>. QED
  BY <1>2, <1>3 DEF deleteSecret

LEMMA ContentStep ==
  ASSUME RequestInv, NEW type, getSecretValue(type)
  PROVE  RequestInv'
<1>. DEFINE read == FromPayload(vault[answer.path.place], type)
            Returns(status, content) ==
              answer' = [answer EXCEPT !.type = type, !.stage = "operation",
                                       !.status = status, !.content = content]
<1>1. Keep /\ NoChange /\ (Fails \/ Returns(404, Nil) \/ Returns(500, Nil) \/ Returns(200, read))
  BY DEF getSecretValue, OpStatus
<1>2. CASE Fails
  BY <1>1, <1>2, AnsweredStep
<1>3. ASSUME NEW status \in {200, 404, 500}, NEW content, Returns(status, content)
      PROVE  RequestInv'
  <2>1. DOMAIN answer = AnswerFields
    BY DEF RequestInv, AnswerInv, AnswerFields
  <2>2. DOMAIN answer' = AnswerFields /\ answer'.stage = "operation" /\ answer'.status = status
    BY <1>3, <2>1 DEF AnswerFields
  <2>3. AnswerInv' /\ OfferedIsAccepted' /\ answer'.status \in Statuses
    BY <2>2, Settled DEF Statuses
  <2>. QED
    BY <1>1, <2>3, QuietStep DEF Keep
<1>. HIDE DEF Returns, read
<1>. QED
  BY <1>1, <1>2, <1>3

-----------------------------------------------------------------------------
(* Every step.                                                             *)

LEMMA NewStep ==
  ASSUME RequestInv, New
  PROVE  RequestInv'
<1>1. /\ restarts \in Nat /\ restarts' = restarts + 1 /\ restarts' \in 0 .. MaxRestarts
      /\ k8sToken' \in BOOLEAN /\ answer' = NoAnswer /\ NoChange /\ UNCHANGED form
  BY BoundsAssumption DEF RequestInv, TypeOK, New
<1>2. AnswerInv' /\ OfferedIsAccepted' /\ answer'.status \in Statuses
  BY <1>1, ResetStep
<1>3. TypeOK'
  BY <1>1, <1>2 DEF RequestInv, TypeOK, NoChange
<1>4. \A type : Offered(type)'
  BY <1>1 DEF Offered
<1>5. FormInv'
  BY <1>1, <1>4 DEF RequestInv, FormInv
<1>6. WrittenInv'
  BY <1>1 DEF RequestInv, WrittenInv, NoChange
<1>. QED
  BY <1>2, <1>3, <1>5, <1>6 DEF RequestInv

LEMMA OutsideStep ==
  ASSUME RequestInv, Outside
  PROVE  RequestInv'
<1>1. PICK place \in Places, payload \in Others :
        Write([place |-> place, meant |-> place], payload, Nil)
  BY DEF Outside
<1>1a. Aimed([place |-> place, meant |-> place])
  BY DEF Aimed
<1>2. UNCHANGED <<form, answer>> /\ Frame
  BY DEF Outside
<1>3. AnswerInv' /\ OfferedIsAccepted' /\ answer'.status \in Statuses
  BY <1>2 DEF RequestInv, TypeOK, AnswerInv, OfferedIsAccepted, Frame, Aimed, Places
<1>. QED
  BY <1>1, <1>1a, <1>2, <1>3, WriteStep

LEMMA ReceiveStep ==
  ASSUME RequestInv, Receive
  PROVE  RequestInv'
  BY ResetStep, QuietStep DEF Receive

LEMMA ConfigureStep ==
  ASSUME RequestInv, Configure
  PROVE  RequestInv'
<1>1. ASSUME NEW status \in {200, 204}, NEW offers \in BOOLEAN, ListVisibleMounts(status, offers)
      PROVE  RequestInv'
  <2>1. status \in Statuses
    BY DEF Statuses
  <2>. QED
    BY <1>1, <2>1, ListMountsStep
<1>2. ASSUME checkVaultConnection \/ listVaultProfileAttributes
      PROVE  RequestInv'
  BY <1>1, <1>2 DEF checkVaultConnection, listVaultProfileAttributes
<1>. QED
  BY <1>2, ListVaultStep, CredentialsTypeStep, ChooseProfileStep, VaultRequestStep
     DEF Configure

LEMMA UseStep ==
  ASSUME RequestInv, Use
  PROVE  RequestInv'
  BY SecretRequestStep, CreateStep, UpdateStep, ContentStep, DeleteStep DEF Use

LEMMA RequestStep == RequestInv /\ [Next]_vars => RequestInv'
<1>. SUFFICES ASSUME RequestInv, [Next]_vars
              PROVE  RequestInv'
  OBVIOUS
<1>1. CASE UNCHANGED vars
  <2>1. /\ Frame /\ NoChange /\ UNCHANGED form /\ UNCHANGED answer
    BY <1>1 DEF vars, Frame, NoChange
  <2>2. AnswerInv' /\ OfferedIsAccepted' /\ answer'.status \in Statuses
    BY <2>1 DEF RequestInv, TypeOK, AnswerInv, OfferedIsAccepted, Frame,
                Aimed, Places
  <2>. QED
    BY <2>1, <2>2, QuietStep
<1>. QED
  BY <1>1, ConfigureStep, UseStep, ReceiveStep, NewStep, OutsideStep DEF Next

LEMMA RequestsInductive == Spec => []RequestInv
  BY RequestInit, RequestStep, PTL DEF Spec

-----------------------------------------------------------------------------
(* What the requests promise.                                              *)

(* Every variable keeps its type, and nothing empty was stored by a        *)
(* request, for any secrets, forms, restarts and faults.                   *)
THEOREM RequestTypes == Spec => []TypeOK
  BY RequestsInductive, PTL DEF RequestInv

(* The refusal of a vault that was configured as the connector asked: only *)
(* after a restart that lost the token, however often requests are sent,   *)
(* whichever types were offered and whatever comes after the attributes.   *)
THEOREM AcceptedAsOffered == Spec => []OfferedIsAccepted
  BY RequestsInductive, PTL DEF RequestInv

\* The answer to a request ends in a stage of the connector, not the vault.
LEMMA EndsStage ==
  ASSUME NEW op, NEW style, NEW path, NEW stage, NEW status,
         Ends(op, style, path, stage, status)
  PROVE  answer'.stage = stage /\ NoChange
  BY DEF Ends, NoAnswer

LEMMA Asking ==
  ASSUME NEW op, NEW style, NEW name, VaultRequest(op, style) \/ SecretRequest(op, style, name)
  PROVE  answer'.stage # "operation" /\ NoChange
<1>. DEFINE Quiet == answer'.stage # "operation" /\ NoChange
<1>1. ASSUME NEW path, LogsIn(op, style, path)
      PROVE  Quiet
  BY <1>1, EndsStage DEF LogsIn
<1>2. ASSUME NEW stage \in {"process", "check"}, Ends(op, style, Nowhere, stage, 400)
      PROVE  Quiet
  BY <1>2, EndsStage
<1>. HIDE DEF Quiet
<1>3. ASSUME VaultRequest(op, style)
      PROVE  Quiet
  BY <1>1, <1>2, <1>3 DEF VaultRequest
<1>4. ASSUME SecretRequest(op, style, name)
      PROVE  Quiet
  BY <1>1, <1>2, <1>4 DEF SecretRequest
<1>. QED
  BY <1>3, <1>4 DEF Quiet

\* What asks for attributes, or answers a request about a vault, changes nothing.
LEMMA Configuring ==
  ASSUME RequestInv, Configure
  PROVE  /\ NoChange
         /\ answer' # answer => answer'.op # "content" \/ answer'.stage # "operation"
<1>1. AnswerInv
  BY DEF RequestInv
<1>2. ASSUME NEW op \in {"check", "profile"}, InManager(op),
             NEW status, NEW offers, ListVisibleMounts(status, offers)
      PROVE  NoChange /\ answer'.op # "content"
  <2>1. Fails \/ \E given : Done("operation", given)
    BY <1>2 DEF ListVisibleMounts
  <2>2. answer'.op = answer.op
    BY <1>1, <2>1, FailsStep, DoneStep
  <2>. QED
    BY <1>2, <2>2 DEF InManager, ListVisibleMounts
<1>3. CASE checkVaultConnection \/ listVaultProfileAttributes
  BY <1>2, <1>3 DEF checkVaultConnection, listVaultProfileAttributes
<1>4. CASE listVaultAttributes \/ ChooseProfile
  BY <1>4 DEF listVaultAttributes, ChooseProfile
<1>5. CASE credentialsType
  BY <1>5 DEF credentialsType, NoAnswer
<1>6. CASE \E op \in {"check", "profile"}, style \in Styles : VaultRequest(op, style)
  BY <1>6, Asking
<1>. QED
  BY <1>3, <1>4, <1>5, <1>6 DEF Configure

\* Only the handler of its kind answers a request for a content.
LEMMA ContentAnswered ==
  ASSUME RequestInv, Next, answer' # answer, answer'.op = "content", answer'.stage = "operation"
  PROVE  \E type \in SecretTypes : getSecretValue(type)
<1>1. AnswerInv
  BY DEF RequestInv
<1>2. ~Configure
  BY Configuring
<1>3. ~Receive /\ ~New /\ ~Outside
  BY DEF Receive, New, Outside, NoAnswer
<1>4. ASSUME NEW op, NEW style, NEW name, SecretRequest(op, style, name)
      PROVE  FALSE
  BY <1>4, Asking
<1>5. ASSUME NEW op \in {"create", "update", "delete"}, InManager(op),
             Fails \/ \E status : Done("operation", status)
      PROVE  FALSE
  <2>1. answer'.op = answer.op
    BY <1>1, <1>5, FailsStep, DoneStep
  <2>. QED
    BY <1>5, <2>1 DEF InManager
<1>6. ASSUME NEW secret, createSecret(secret) \/ updateSecret(secret) \/ deleteSecret
      PROVE  FALSE
  BY <1>5, <1>6 DEF createSecret, updateSecret, deleteSecret
<1>. QED
  BY <1>2, <1>3, <1>4, <1>6 DEF Next, Use

\* What it answers is what the vault was given.
LEMMA ContentGiven ==
  ASSUME RequestInv, NEW type, getSecretValue(type), answer'.stage = "operation",
         written[answer'.path.meant] # Nil, answer'.type = written[answer'.path.meant].type
  PROVE  IF Unreadable(written[answer'.path.meant]) THEN answer'.status = 500
         ELSE /\ answer'.status = 200
              /\ answer'.content = AsKept(written[answer'.path.meant])
<1>. DEFINE place  == answer.path.place
            secret == written[place]
            read   == FromPayload(vault[place], type)
<1>1. InManager("content") /\ Aimed(answer.path) /\ DOMAIN answer = AnswerFields /\ AnswerInv
  BY PathInVault DEF getSecretValue, RequestInv, AnswerInv, AnswerFields
<1>2. ~Fails
  BY <1>1, FailsStep
<1>3. /\ answer'.path = answer.path /\ answer'.path.meant = place /\ place \in Places
      /\ answer'.type = type
  BY <1>1, <1>2 DEF getSecretValue, AnswerFields, Aimed
<1>4. /\ secret \in Secrets /\ ToPayload(secret) # Refused
      /\ vault[place] = ToPayload(secret) /\ vault[place] # Nil
  BY <1>1, <1>3, SecretsAssumption DEF RequestInv, WrittenInv
<1>5. Carried(secret) /\ AsKept(secret) # Refused
  BY <1>4, SecretsAssumption
<1>6. read = IF Unreadable(secret) THEN Refused ELSE AsKept(secret)
  BY <1>3, <1>4, <1>5, ContentReadsBack
<1>7. /\ read = Refused => answer'.status = 500
      /\ read # Refused => answer'.status = 200 /\ answer'.content = read
  BY <1>1, <1>2, <1>4 DEF getSecretValue, AnswerFields, OpStatus
<1>. QED
  BY <1>3, <1>5, <1>6, <1>7

(* A secret is read back as it was last written to the place the reader    *)
(* means, by any request for its type that reaches the vault after any     *)
(* number of writes, deletions, refusals and restarts, however the paths   *)
(* were split or spelled and wherever the vault keeps them, unless someone *)
(* else wrote to that place.                                               *)
THEOREM SecretsReadBack == Spec => ReadsBack
<1>1. ASSUME RequestInv, [Next]_vars
      PROVE  [(/\ answer' # answer
               /\ answer'.op = "content" /\ answer'.stage = "operation"
               /\ written[answer'.path.meant] # Nil
               /\ answer'.type = written[answer'.path.meant].type) =>
                 IF Unreadable(written[answer'.path.meant]) THEN answer'.status = 500
                 ELSE /\ answer'.status = 200
                      /\ answer'.content = AsKept(written[answer'.path.meant])]_vars
  BY <1>1, ContentAnswered, ContentGiven
<1>. QED
  BY <1>1, RequestsInductive, PTL DEF Spec, ReadsBack
=============================================================================
