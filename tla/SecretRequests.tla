--------------------------- MODULE SecretRequests ---------------------------
(***************************************************************************)
(* The secret provider interface as the platform uses it (internal/secret):*)
(* it asks which attributes a vault takes, configures a vault and a        *)
(* profile of it, and sends requests that carry both.  Every handler goes  *)
(* the same way: the attributes are read, checked and used to log in, the  *)
(* manager acts, its error becomes a status.                               *)
(*                                                                         *)
(* The manager acts at once here; how its calls interleave is in           *)
(* SecretManager.  The service account token is read when a process        *)
(* starts; the file may have come or gone since it last did.               *)
(***************************************************************************)
EXTENDS SecretContent, Naturals, Sequences

CONSTANTS
  Empty, Blank,  \* the empty string, and one of spaces
  Mounts,        \* mounts of the key-value engines of the vault
  Names,         \* names of secrets, sequences of segments too
  Secrets,       \* secrets a request may carry
  RoleSecrets,   \* secrets the platform may send as a role id or secret
  Others,        \* payloads other users of the vault write
  Prefixes,      \* prefixes of profiles, <<>> for none
  SecretPaths,   \* relative paths of secrets, <<>> for none
  Resolved,      \* the place at which the vault keeps what is sent as a path
  Styles,        \* how a request may differ from what was asked for
  MaxRestarts,   \* bound: restarts of the connector
  MaxChanges     \* bound: changes of the vault

ASSUME BoundsAssumption == MaxRestarts \in Nat /\ MaxChanges \in Nat

VARIABLES
  k8sToken,   \* whether the process has read a service account token
  vault,      \* place -> payload, or Nil
  written,    \* history: place -> the secret of the last write meant for it,
              \*          Nil if not ours
  form,       \* what the platform has configured
  answer,     \* the last request and its answer
  restarts,
  changes

vars == <<k8sToken, vault, written, form, answer, restarts, changes>>

-----------------------------------------------------------------------------
(* The attributes (const.go), by a short form of their names.              *)

Attribute(contentType, required, list) ==
  [type |-> "data", contentType |-> contentType, required |-> required, list |-> list]

VaultAttributes ==
  [uri             |-> Attribute("string", TRUE, FALSE),
   credential_type |-> Attribute("string", TRUE, TRUE),
   namespace       |-> Attribute("string", FALSE, FALSE)]

CredentialAttributes ==
  [role_id     |-> Attribute("resource", TRUE, FALSE),
   role_secret |-> Attribute("resource", TRUE, FALSE),
   role        |-> Attribute("string", TRUE, FALSE)]

ProfileAttributes ==
  [profile_mount |-> Attribute("string", TRUE, TRUE),
   profile_path  |-> Attribute("string", FALSE, FALSE)]

SecretAttributes == [secret_path |-> Attribute("string", FALSE, FALSE)]

Catalogue ==
  [n \in UNION {DOMAIN VaultAttributes, DOMAIN CredentialAttributes,
                DOMAIN ProfileAttributes, DOMAIN SecretAttributes} |->
     CASE n \in DOMAIN VaultAttributes      -> VaultAttributes[n]
       [] n \in DOMAIN CredentialAttributes -> CredentialAttributes[n]
       [] n \in DOMAIN ProfileAttributes    -> ProfileAttributes[n]
       [] n \in DOMAIN SecretAttributes     -> SecretAttributes[n]]

K8sTypes == {"jwt", "kubernetes"}
CredentialTypes == {"approle"} \cup K8sTypes

-----------------------------------------------------------------------------
(* What is sent is no sentinel.                                            *)

Sendable(v) == v \notin {Refused, Empty, Blank} /\ <<<<"string", v>>>> # Nil

ASSUME SendableAssumption ==
  /\ \A v \in {"uri", "role"} \cup CredentialTypes \cup Mounts : Sendable(v)
  /\ \A path \in Prefixes \cup SecretPaths : Sendable(path)

\* The types the filter of the role attributes lets through; an empty secret
\* is no credential.
ASSUME RoleSecretsAssumption ==
  \A s \in RoleSecrets : /\ s.type \in {ApiKey, Generic}
                         /\ s.content \notin {Refused, Empty}
                         /\ <<<<"resource", s>>>> # Nil

ASSUME SecretsAssumption ==
  \A s \in Secrets : Carried(s) /\ ToPayload(s) # Nil /\ AsKept(s) # Refused

-----------------------------------------------------------------------------
(* Needs: what the attributes of a request come to.                        *)

\* The checks every known attribute passes first.  That its version is 3, as
\* a comment at the start of the loop has it, is not among them.
Single(pattern, sent) ==
  /\ sent.contentType = pattern.contentType
  /\ sent.content # Nil
  /\ Len(sent.content) = 1

strContentTypeDataAttrSingle(pattern, sent) ==
  IF Single(pattern, sent) /\ sent.content[1][1] = "string"
  THEN {sent.content[1][2]} ELSE {Refused}

\* The strings a secret may stand for; a map has no first value.
resourceSecretContentTypeDataAttrSingle(pattern, sent) ==
  IF Single(pattern, sent) /\ sent.content[1][1] = "resource"
  THEN LET secret == sent.content[1][2] IN
       CASE secret.type \in CommonTypes -> {secret.content}
         [] secret.type = BasicAuth     -> {secret.password}
         [] secret.type = KeyValue      ->
              LET values == {secret.pairs[k] : k \in DOMAIN secret.pairs} IN
              IF values = {} THEN {Refused}
              ELSE {IF IsString(v) THEN v ELSE Refused : v \in values}
         [] OTHER -> {Refused}
  ELSE {Refused}

\* The values a known attribute may be read as.
ReadAs(sent) ==
  LET pattern == Catalogue[sent.uuid] IN
  IF pattern.contentType = "resource"
  THEN resourceSecretContentTypeDataAttrSingle(pattern, sent)
  ELSE strContentTypeDataAttrSingle(pattern, sent)

Known(list) == {i \in DOMAIN list : list[i].uuid \in DOMAIN Catalogue}

\* Later attributes write over earlier ones, unknown ones are skipped.
Read(n, list) ==
  LET at == {i \in DOMAIN list : list[i].uuid = n} IN
  IF at = {} THEN {Empty} ELSE ReadAs(list[CHOOSE i \in at : \A j \in at : j <= i])

NeedsOf(list, id, secret) ==
  [n \in DOMAIN Catalogue |->
     CASE n = "role_id"     -> id
       [] n = "role_secret" -> secret
       [] OTHER             -> CHOOSE v \in Read(n, list) : TRUE]

\* One attribute that cannot be read refuses the request.
Refusable(list) == \E i \in Known(list) : Refused \in ReadAs(list[i])

Process(list) ==
  IF \E i \in Known(list) : ReadAs(list[i]) = {Refused} THEN {}
  ELSE {NeedsOf(list, read[1], read[2]) :
          read \in (Read("role_id", list) \ {Refused}) \X (Read("role_secret", list) \ {Refused})}

IsBlank(value) == value \in {Empty, Blank}

credTypeCheck(n) ==
  \/ n.credential_type = "approle" /\ Empty \notin {n.role_id, n.role_secret}
  \/ n.credential_type \in K8sTypes /\ k8sToken /\ n.role # Empty

ConnectionCheck(n) ==
  ~IsBlank(n.credential_type) /\ ~IsBlank(n.uri) /\ credTypeCheck(n)

CommonCheck(n) == ConnectionCheck(n) /\ ~IsBlank(n.profile_mount)

\* Prefixes and paths are sequences of segments, trimmed of the slashes around
\* them; Empty is the one that was not sent.  A segment is whatever stands
\* between two slashes, "." and ".." among them.
Segments(path) == IF path = Empty THEN <<>> ELSE path

\* Mutant: the prefix is left out when there is a path of the secret.
vaultPathWithoutPrefix(pathPrefix, secretPath, name) ==
  (IF secretPath = Empty THEN Segments(pathPrefix) ELSE Segments(secretPath)) \o name

\* The three are joined and nothing else: no segment is refused or cleaned.
vaultPath(pathPrefix, secretPath, name) ==
  Segments(pathPrefix) \o Segments(secretPath) \o name

-----------------------------------------------------------------------------
(* Requests and answers.  A request is with the handler until the login, then *)
(* with the manager; the stage of an answer is the step that gave it.         *)

\* Where a request goes in the vault, and where the platform meant it to go.
Nowhere == [place |-> <<>>, meant |-> <<>>]

NoAnswer == [op |-> "none", asked |-> TRUE, type |-> Nil, path |-> Nowhere,
             stage |-> "none", status |-> 0, content |-> Nil]

\* obtainVClient: the faults of a login.
LoginStatus == [unauthorized |-> 401, forbidden |-> 403, unreachable |-> 400]

\* handleOpError: the errors of the manager.
OpStatus == [forbidden |-> 403, notFound |-> 404, exists |-> 412, failed |-> 500]

Frame == UNCHANGED <<k8sToken, restarts>>
NoChange == UNCHANGED <<vault, written, changes>>

Ends(op, style, path, stage, status) ==
  /\ answer' = [NoAnswer EXCEPT !.op = op, !.asked = style \in {"defined", "foreign"},
                  !.path = path, !.stage = stage, !.status = status]
  /\ NoChange
  /\ UNCHANGED form
  /\ Frame

\* The needs passed their check; the manager is called after the login.
LogsIn(op, style, path) ==
  \/ \E fault \in DOMAIN LoginStatus : Ends(op, style, Nowhere, "login", LoginStatus[fault])
  \/ Ends(op, style, path, "manager", 0)

InManager(op) == answer.op = op /\ answer.stage = "manager"

Done(stage, status) == answer' = [answer EXCEPT !.stage = stage, !.status = status]

\* The vault forbids what the manager asks for, or fails.
Fails == \E error \in {"forbidden", "failed"} : Done("vault", OpStatus[error])

-----------------------------------------------------------------------------
(* Configuring a vault and a profile.                                      *)

NoForm == [types |-> {}, vault |-> <<>>, mounts |-> {}, profile |-> <<>>]

Sent(uuid, items) ==
  [uuid |-> uuid, contentType |-> Catalogue[uuid].contentType, content |-> items]

\* Mutant: the types that need a token are offered without one.
OfferedTypesAll == CredentialTypes

OfferedTypes == {"approle"} \cup (IF k8sToken THEN K8sTypes ELSE {})

listVaultAttributes ==
  /\ answer = NoAnswer
  /\ form' = [NoForm EXCEPT !.types = OfferedTypes]
  /\ NoChange
  /\ UNCHANGED answer
  /\ Frame

\* The callback, with the platform's answer to what it asks.
CredentialList(type, id, secret) ==
  IF type = "approle"
  THEN <<Sent("role_id", <<<<"resource", id>>>>),
         Sent("role_secret", <<<<"resource", secret>>>>)>>
  ELSE <<Sent("role", <<<<"string", "role">>>>)>>

VaultList(type, id, secret) ==
  <<Sent("uri", <<<<"string", "uri">>>>), Sent("credential_type", <<<<"string", type>>>>)>>
    \o CredentialList(type, id, secret)

credentialsType ==
  \E type \in form.types :
    /\ answer = NoAnswer
    /\ IF type = "approle" \/ k8sToken
       THEN /\ \E id \in RoleSecrets : \E secret \in RoleSecrets \ {id} :
                 form' = [form EXCEPT !.types = {}, !.vault = VaultList(type, id, secret)]
            /\ UNCHANGED answer
       ELSE /\ answer' = [NoAnswer EXCEPT !.op = "callback", !.stage = "check", !.status = 400]
            /\ UNCHANGED form
    /\ NoChange
    /\ Frame

Configured == form.vault # <<>>

\* How the attributes of a vault may be sent.
Styled(style, list) ==
  CASE style = "foreign"  -> list \o <<[list[1] EXCEPT !.uuid = "foreign"]>>
    [] style = "declared" -> [list EXCEPT ![1].contentType = "text"]
    [] style = "none"     -> [list EXCEPT ![1].content = Nil]
    [] style = "two"      -> [list EXCEPT ![1].content = @ \o @]
    [] style = "number"   -> [list EXCEPT ![1].content = <<<<"number">>>>]
    [] style = "blank"    -> [list EXCEPT ![1].content = <<<<"string", Blank>>>>]
    [] style = "missing"  -> Tail(list)
    [] OTHER              -> list

\* checkVaultConnection and listVaultProfileAttributes carry a vault.
VaultRequest(op, style) ==
  LET list == Styled(style, form.vault) IN
  /\ answer = NoAnswer
  /\ Configured
  /\ \/ Refusable(list) /\ Ends(op, style, Nowhere, "process", 400)
     \/ \E needs \in Process(list) :
          IF ConnectionCheck(needs) THEN LogsIn(op, style, Nowhere)
                                    ELSE Ends(op, style, Nowhere, "check", 400)

\* Both list the key-value mounts the login may see; none is an error.
ListVisibleMounts(status, offers) ==
  /\ \/ Fails /\ UNCHANGED form
     \/ \E visible \in SUBSET Mounts :
          IF visible = {} THEN Done("operation", OpStatus.notFound) /\ UNCHANGED form
          ELSE /\ Done("operation", status)
               /\ form' = IF offers THEN [form EXCEPT !.mounts = visible] ELSE form
  /\ NoChange
  /\ Frame

checkVaultConnection == InManager("check") /\ ListVisibleMounts(204, FALSE)

listVaultProfileAttributes == InManager("profile") /\ ListVisibleMounts(200, TRUE)

\* A path that is left empty is not sent.
PathList(uuid, path) == IF path = <<>> THEN <<>> ELSE <<Sent(uuid, <<<<"string", path>>>>)>>

ProfileList(mount, prefix) ==
  <<Sent("profile_mount", <<<<"string", mount>>>>)>> \o PathList("profile_path", prefix)

ChooseProfile ==
  /\ answer = NoAnswer
  /\ \E mount \in form.mounts, prefix \in Prefixes :
       form' = [form EXCEPT !.mounts = {}, !.profile = ProfileList(mount, prefix)]
  /\ NoChange
  /\ UNCHANGED answer
  /\ Frame

-----------------------------------------------------------------------------
(* The secrets.                                                            *)

Ready == Configured /\ form.profile # <<>>

\* The path of a request, of the mount, the prefix and what it names itself.
PathOf(needs, name) ==
  Resolved[<<needs.profile_mount>>
             \o vaultPath(needs.profile_path, needs.secret_path, name)]

SentFor(uuid, lists) ==
  LET i == CHOOSE j \in DOMAIN lists : lists[j].uuid = uuid IN lists[i].content[1][2]

PrefixSent ==
  IF \E j \in DOMAIN form.profile : form.profile[j].uuid = "profile_path"
  THEN SentFor("profile_path", form.profile) ELSE <<>>

\* History: the place the platform means by its profile, a path and a name.
Meant(path, name) ==
  Resolved[<<SentFor("profile_mount", form.profile)>> \o (PrefixSent \o path \o name)]

SecretRequest(op, style, name) ==
  /\ answer = NoAnswer
  /\ Ready
  /\ \E path \in SecretPaths :
       LET list == Styled(style, form.vault) \o form.profile \o PathList("secret_path", path) IN
       \/ Refusable(list) /\ Ends(op, style, Nowhere, "process", 400)
       \/ \E needs \in Process(list) :
            IF CommonCheck(needs)
            THEN LogsIn(op, style, [place |-> PathOf(needs, name), meant |-> Meant(path, name)])
            ELSE Ends(op, style, Nowhere, "check", 400)

Write(path, payload, secret) ==
  /\ changes < MaxChanges
  /\ changes' = changes + 1
  /\ vault' = [vault EXCEPT ![path.place] = payload]
  /\ written' = [written EXCEPT ![path.meant] = secret]

Keep == UNCHANGED form /\ Frame

\* commonCreateUpdate makes the payload before the vault is asked for the path.
createSecret(secret) ==
  LET place == answer.path.place
      payload == ToPayload(secret)
  IN  /\ InManager("create")
      /\ \/ Fails /\ NoChange
         \/ payload = Refused /\ Done("operation", OpStatus.failed) /\ NoChange
         \/ /\ payload # Refused
            /\ vault[place] = Nil
            /\ Write(answer.path, payload, secret)
            /\ Done("operation", 201)
         \/ /\ payload # Refused
            /\ vault[place] # Nil
            /\ Done("operation", OpStatus.exists)
            /\ NoChange
      /\ Keep

updateSecret(secret) ==
  LET place == answer.path.place
      payload == ToPayload(secret)
  IN  /\ InManager("update")
      /\ \/ Fails /\ NoChange
         \/ payload = Refused /\ Done("operation", OpStatus.failed) /\ NoChange
         \/ /\ payload # Refused
            /\ vault[place] # Nil
            /\ Write(answer.path, payload, secret)
            /\ Done("operation", 200)
         \/ /\ payload # Refused
            /\ vault[place] = Nil
            /\ Done("operation", OpStatus.notFound)
            /\ NoChange
      /\ Keep

getSecretValue(type) ==
  LET payload == vault[answer.path.place]
      read == FromPayload(payload, type)
      Returns(status, content) ==
        answer' = [answer EXCEPT !.type = type, !.stage = "operation", !.status = status,
                                 !.content = content]
  IN  /\ InManager("content")
      /\ \/ Fails /\ NoChange
         \/ payload = Nil /\ Returns(OpStatus.notFound, Nil) /\ NoChange
         \/ /\ payload # Nil
            /\ IF read = Refused THEN Returns(OpStatus.failed, Nil) ELSE Returns(200, read)
            /\ NoChange
      /\ Keep

\* There need not be a secret.
deleteSecret ==
  /\ InManager("delete")
  /\ \/ Fails /\ NoChange
     \/ Write(answer.path, Nil, Nil) /\ Done("operation", 204)
  /\ Keep

-----------------------------------------------------------------------------
(* Meanwhile.                                                              *)

\* New reads the token once.
New ==
  /\ restarts < MaxRestarts
  /\ restarts' = restarts + 1
  /\ k8sToken' \in BOOLEAN
  /\ answer' = NoAnswer
  /\ NoChange
  /\ UNCHANGED form

\* Of a mount, a prefix, a path of a secret and a name.
Paths == {<<at[1]>> \o (at[2] \o at[3] \o at[4]) :
            at \in Mounts \X Prefixes \X SecretPaths \X Names}

Places == {Resolved[path] : path \in Paths}

Outside ==
  /\ \E place \in Places, payload \in Others :
       Write([place |-> place, meant |-> place], payload, Nil)
  /\ UNCHANGED <<form, answer>>
  /\ Frame

\* The platform takes the answer.
Receive ==
  /\ answer.status # 0
  /\ answer' = NoAnswer
  /\ NoChange
  /\ UNCHANGED form
  /\ Frame

Init ==
  /\ k8sToken \in BOOLEAN
  /\ vault = [p \in Places |-> Nil]
  /\ written = vault
  /\ form = NoForm
  /\ answer = NoAnswer
  /\ restarts = 0
  /\ changes = 0

Configure ==
  \/ listVaultAttributes \/ credentialsType \/ ChooseProfile
  \/ checkVaultConnection \/ listVaultProfileAttributes
  \/ \E op \in {"check", "profile"}, style \in Styles : VaultRequest(op, style)

Use ==
  \/ \E op \in {"create", "update", "content", "delete"}, style \in Styles, name \in Names :
       SecretRequest(op, style, name)
  \/ \E secret \in Secrets : createSecret(secret) \/ updateSecret(secret)
  \/ \E type \in SecretTypes : getSecretValue(type)
  \/ deleteSecret

Next == Configure \/ Use \/ Receive \/ New \/ Outside

Spec == Init /\ [][Next]_vars

-----------------------------------------------------------------------------
(* Properties.                                                             *)

Statuses == {0, 200, 201, 204, 400, 401, 403, 404, 412, 500}

\* Every variable keeps its type; nothing empty was stored by a request.
TypeOK ==
  /\ k8sToken \in BOOLEAN
  /\ restarts \in 0 .. MaxRestarts /\ changes \in 0 .. MaxChanges
  /\ answer.status \in Statuses
  /\ DOMAIN vault = Places
  /\ \A p \in Places : written[p] # Nil /\ vault[p] # Nil => DOMAIN vault[p] # {}

\* A vault configured as the connector asked, with secrets that pass the filter
\* of its attributes, is refused for its attributes only if the connector was
\* restarted since, without the token it had offered a login with.
OfferedIsAccepted ==
  (/\ answer.asked
   /\ answer.stage \in {"process", "check"}) => restarts > 0 /\ ~k8sToken

\* A secret is read back as it was last written to the place that the profile,
\* the path and the name of the reader mean, by a request for its type that gets
\* its payload from the vault, whatever was written elsewhere or before, and
\* however the writer had split or spelled the path.  The one secret that is
\* taken and never given back is a key store of an unknown type.
ReadsBack ==
  [][(/\ answer' # answer
      /\ answer'.op = "content" /\ answer'.stage = "operation"
      /\ written[answer'.path.meant] # Nil
      /\ answer'.type = written[answer'.path.meant].type) =>
        IF Unreadable(written[answer'.path.meant]) THEN answer'.status = 500
        ELSE /\ answer'.status = 200
             /\ answer'.content = AsKept(written[answer'.path.meant])]_vars
=============================================================================
