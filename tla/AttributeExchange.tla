-------------------------- MODULE AttributeExchange --------------------------
(***************************************************************************)
(* How the platform fills in a form of the connector and hands it back:    *)
(* the attribute endpoints of internal/authority and internal/discovery    *)
(* list attributes and what may be chosen, a callback lists what depends   *)
(* on a choice, and CreateAuthorityInstance, the certificate requests and  *)
(* DiscoverCertificate read the form.  Engines are mounted and removed,    *)
(* authorities too, while a form is open.                                  *)
(*                                                                         *)
(* The vault answers, and accepts every credential that is not empty; its  *)
(* faults are in the modules of the single components.  What is typed into *)
(* a free field is the name of the attribute, so that no two are alike.    *)
(***************************************************************************)
EXTENDS AttributeModel, FiniteSets

CONSTANTS
  Panic,          \* a handler that ended in a panic: the request has no answer
  Missing,        \* no row
  Names,          \* names, and uuids, of authority instances
  Engines,        \* mount paths of PKI engines, nested ones among them
  RefusedEngines, \* those isValidVaultMountPath refuses
  Roles,          \* roles of an engine
  RefusedRoles    \* those isValidVaultPathSegment refuses

ASSUME EnginesAssumption == RefusedEngines \subseteq Engines
ASSUME RolesAssumption   == RefusedRoles \subseteq Roles

Invalid == "invalid"   \* the error of a profile

\* A panic and an error are no values of the program.
ASSUME PanicAssumption ==
  Panic \notin {Empty, Invalid} \cup CredentialTypes \cup DOMAIN AttributeList
               \cup Names \cup Engines \cup Roles
ASSUME InvalidAssumption == Invalid \notin Engines \cup Roles

VARIABLES
  engines,    \* the engines mounted on the vault
  tokenFile,  \* whether the service account token is there
  table,      \* name -> row of authority_instances
  form,       \* the form the platform has open
  answer      \* the last form handed in, and its answer

vars == <<engines, tokenFile, table, form, answer>>

-----------------------------------------------------------------------------
(* What the connector offers.                                              *)

EngineObject(e) == <<"object", "engineName", e>>
UuidObject(n)   == <<"object", "uuid", n>>

\* The PKI mounts only: other mounts are never in engines.
ListPkiEngines == {EngineObject(e) : e \in engines}

\* GetClient: an empty credential or a missing token file is refused.
GetClient(row) == CASE row.type = APPROLE_CRED -> Empty \notin {row.roleId, row.roleSecret}
                    [] row.type \in {JWTOIDC_CRED, KUBERNETES_CRED} -> tokenFile

\* A definition without a list of content leaves the field free.
Free(names) == [n \in names |-> {}]

Form(goal, subject, offered) ==
  [goal |-> goal, subject |-> subject, offered |-> offered, chosen |-> <<>>]

NoForm == Form("none", Nil, Free({}))

NoAnswer == [form |-> NoForm, style |-> "defined", sent |-> <<>>,
             status |-> "none", result |-> Nil]

Open(goal, subject, offered) ==
  /\ form.goal = "none"
  /\ form' = Form(goal, subject, offered)
  /\ answer' = NoAnswer
  /\ UNCHANGED <<engines, tokenFile, table>>

OfferedTypes == {APPROLE_CRED, JWTOIDC_CRED}
                  \cup IF tokenFile THEN {KUBERNETES_CRED} ELSE {}

ListAttributeDefinitions ==
  Open("authority", Nil,
       [authority_url |-> {}, credentials_type |-> {<<"string", t>> : t \in OfferedTypes}])

CredentialAttributesCallback(credentialType) ==
  (IF credentialType = APPROLE_CRED THEN {"role_id", "role_secret"}
   ELSE IF credentialType \in {KUBERNETES_CRED, JWTOIDC_CRED} THEN {"vault_role"} ELSE {})
    \cup {"mount_path"}

ListRAProfileAttributes(n) ==
  /\ table[n] # Missing           \* else 404
  /\ GetClient(table[n])          \* else 500
  /\ Open("certificate", n,
          [ra_profile_engine |-> ListPkiEngines,
           ra_profile_authority |-> {<<"string", n>>}])

\* A failing database is an empty list here too.
ListDiscoveryAttributes ==
  \E listed \in {{}, {n \in Names : table[n] # Missing}} :
    Open("discovery", Nil, [authority_to_discover |-> {UuidObject(n) : n \in listed}])

-----------------------------------------------------------------------------
(* The callbacks: what is chosen first decides what is asked next.         *)

isValidVaultMountPath(e)   == e \notin RefusedEngines
isValidVaultPathSegment(r) == r \notin RefusedRoles

MayChoose(goal) == form.goal = goal /\ form.chosen = <<>>

\* Chosen, with what the callback for it asks; a refusal leaves the form.
Choose(name, data, asked) ==
  /\ form' = [form EXCEPT !.chosen = data,
                           !.offered = Over(asked, Over([n \in {name} |-> {data}], @))]
  /\ UNCHANGED <<engines, tokenFile, table, answer>>

ChooseCredentialType ==
  /\ MayChoose("authority")
  /\ \E data \in form.offered.credentials_type :
       Choose("credentials_type", data, Free(CredentialAttributesCallback(data[2])))

\* The uuid of the path may be the name.  The route takes an engine with slashes
\* too; one that is gone has no roles to list (400).
RAProfileCallback ==
  /\ MayChoose("certificate")
  /\ \E data \in form.offered.ra_profile_engine :
       Choose("ra_profile_engine", data,
              [ra_profile_role |->
                 IF /\ isValidVaultMountPath(data[3])
                    /\ table[form.subject] # Missing
                    /\ GetClient(table[form.subject])
                    /\ data[3] \in engines
                 THEN {<<"string", r>> : r \in Roles} ELSE {}])

PkiEnginesCallback ==
  /\ MayChoose("discovery")
  /\ \E data \in form.offered.authority_to_discover :
       Choose("authority_to_discover", data,
              [pki_engines_to_discover |->
                 IF table[data[3]] # Missing /\ GetClient(table[data[3]])
                 THEN ListPkiEngines ELSE {}])

-----------------------------------------------------------------------------
(* The platform fills the form in.                                         *)

Typed(name) == CASE GetAttributeByName(name).contentType = "secret" ->
                      <<"object", "secret", name>>
                 [] OTHER -> <<"string", name>>

\* Some of a set, each once, in any order.
Selections(set) ==
  UNION {{s \in [1 .. k -> set] : \A i, j \in 1 .. k : s[i] = s[j] => i = j} :
           k \in 0 .. Cardinality(set)}

\* The optional list, of engines, is the one where several may be selected.
ItemsOf(name) ==
  LET def == GetAttributeByName(name) IN
  IF ~def.list THEN {<<Typed(name)>>}
  ELSE IF def.required THEN {<<data>> : data \in form.offered[name]}
  ELSE Selections(form.offered[name])

\* The interface's workaround: an object sent as a string.
AsString(items) == [i \in DOMAIN items |-> IF items[i][1] = "object"
                                           THEN <<"string", items[i][3]>> ELSE items[i]]

Fields ==
  [authority   |-> {"authority_url", "credentials_type", "role_id", "role_secret",
                    "vault_role", "mount_path"},
   certificate |-> {"ra_profile_engine", "ra_profile_authority", "ra_profile_role"},
   discovery   |-> {"authority_to_discover", "pki_engines_to_discover"}]

Place ==
  [authority_url |-> 1, credentials_type |-> 2, role_id |-> 3, role_secret |-> 4,
   vault_role |-> 5, mount_path |-> 6,
   ra_profile_engine |-> 1, ra_profile_authority |-> 2, ra_profile_role |-> 3,
   authority_to_discover |-> 1, pki_engines_to_discover |-> 2]

\* Some of the fields of a form, in the order of their definitions.
InOrder(fields) ==
  UNION {{names \in [1 .. k -> fields] :
            \A i, j \in 1 .. k : i < j => Place[names[i]] < Place[names[j]]} :
           k \in 0 .. Cardinality(fields)}

Orders == UNION {InOrder(Fields[goal]) : goal \in DOMAIN Fields}

\* Those sent: required fields are, fields that were not asked for are not.
Present(names) ==
  LET asked == DOMAIN form.offered
      sent  == {names[i] : i \in DOMAIN names}
  IN  /\ sent \subseteq asked
      /\ \A n \in asked : GetAttributeByName(n).required => n \in sent

Picks(names) ==
  {items \in [DOMAIN names -> UNION {ItemsOf(names[i]) : i \in DOMAIN names}] :
     \A i \in DOMAIN names : items[i] \in ItemsOf(names[i])}

Sent(names, items, style) ==
  [i \in DOMAIN names |->
     [name  |-> names[i],
      items |-> IF style = "strings" THEN AsString(items[i]) ELSE items[i]]]

Custom == <<[name |-> "custom", items |-> <<>>]>>

\* The attributes are as defined, as strings, or with another of the platform.
Filled(style) ==
  LET sent == UNION {{Sent(names, items, style) : items \in Picks(names)} :
                       names \in {order \in Orders : Present(order)}}
  IN  IF style # "foreign" THEN sent
      ELSE {Custom \o list : list \in sent} \cup {list \o Custom : list \in sent}

Styles == {"defined", "strings", "foreign"}

-----------------------------------------------------------------------------
(* The services read it.  What a nil attribute or a failed type assertion  *)
(* does to them is Panic.                                                  *)

NoContent == <<"panic">>

FirstContent(name, attributes) ==
  LET a == GetAttributeFromArrayByUUID(name, attributes)
  IN  IF a \in {Nil, Fault} THEN NoContent
      ELSE IF a.content = <<>> THEN NoContent ELSE a.content[1]

RequiredString(name, attributes) ==
  LET c == FirstContent(name, attributes)
  IN  IF c[1] = "string" THEN c[2] ELSE Panic

OptionalContent(name, attributes, type) ==
  LET a == GetAttributeFromArrayByUUID(name, attributes)
  IN  IF a = Fault THEN Panic
      ELSE IF a = Nil THEN Empty
      ELSE IF a.content = <<>> THEN Empty
      ELSE IF a.content[1][1] = type THEN a.content[1][2] ELSE Empty

optionalStringAttribute(name, attributes) == OptionalContent(name, attributes, "string")
secretAttributeValue(name, attributes)    == OptionalContent(name, attributes, "secret")

ObjectKey(c, key) == IF Len(c) = 3 /\ c[2] = key THEN c[3] ELSE Panic

\* Mutant: the secret id is read from the attribute of the role id.
AuthorityColumnsMixed(attributes) ==
  LET type == RequiredString("credentials_type", attributes) IN
  [url |-> RequiredString("authority_url", attributes), type |-> type,
   mountPath |-> optionalStringAttribute("mount_path", attributes),
   roleId |-> IF type = APPROLE_CRED THEN secretAttributeValue("role_id", attributes) ELSE Empty,
   roleSecret |-> IF type = APPROLE_CRED THEN secretAttributeValue("role_id", attributes)
                                         ELSE Empty,
   vaultRole |-> IF type \in {JWTOIDC_CRED, KUBERNETES_CRED}
                 THEN optionalStringAttribute("vault_role", attributes) ELSE Empty,
   attributes |-> MarshalAttributes(attributes)]

AuthorityColumns(attributes) ==
  LET type == RequiredString("credentials_type", attributes) IN
  [url |-> RequiredString("authority_url", attributes), type |-> type,
   mountPath |-> optionalStringAttribute("mount_path", attributes),
   roleId |-> IF type = APPROLE_CRED THEN secretAttributeValue("role_id", attributes) ELSE Empty,
   roleSecret |-> IF type = APPROLE_CRED THEN secretAttributeValue("role_secret", attributes)
                                         ELSE Empty,
   vaultRole |-> IF type \in {JWTOIDC_CRED, KUBERNETES_CRED}
                 THEN optionalStringAttribute("vault_role", attributes) ELSE Empty,
   attributes |-> MarshalAttributes(attributes)]

\* The engine attribute has one item, an object with the name of an engine.
getRAProfileEngineName(attributes) ==
  LET a == GetAttributeFromArrayByUUID("ra_profile_engine", attributes) IN
  IF a = Fault THEN Panic
  ELSE IF a = Nil THEN Invalid
  ELSE IF Len(a.content) # 1 THEN Invalid
  ELSE LET e == ObjectKey(a.content[1], "engineName")
       IN  IF e # Panic /\ isValidVaultMountPath(e) THEN e ELSE Invalid

getRAProfileRoleName(attributes) ==
  LET a == GetAttributeFromArrayByUUID("ra_profile_role", attributes) IN
  IF a = Fault THEN Panic
  ELSE IF a = Nil THEN Invalid
  ELSE IF Len(a.content) # 1 THEN Invalid
  ELSE IF a.content[1][1] = "string" /\ isValidVaultPathSegment(a.content[1][2])
       THEN a.content[1][2] ELSE Invalid

\* Mutant: an attribute without content is taken as one not sent.
DiscoveredEnginesOrAll(attributes) ==
  LET a == GetAttributeFromArrayByUUID("pki_engines_to_discover", attributes) IN
  IF a = Fault THEN {Panic}
  ELSE IF a = Nil THEN engines
  ELSE IF a.content = <<>> THEN engines
  ELSE {ObjectKey(a.content[i], "engineName") : i \in DOMAIN a.content}

\* All engines of the vault, or those of the attribute if it was sent.
DiscoveredEngines(attributes) ==
  LET a == GetAttributeFromArrayByUUID("pki_engines_to_discover", attributes) IN
  IF a = Fault THEN {Panic}
  ELSE IF a = Nil THEN engines
  ELSE {ObjectKey(a.content[i], "engineName") : i \in DOMAIN a.content}

-----------------------------------------------------------------------------
\* Mutant: the lookups of optional attributes are taken to be safe.
PanicsIfRequired(row) == Panic \in {row.url, row.type}

Panics(row) ==
  Panic \in {row.url, row.type, row.mountPath, row.roleId, row.roleSecret, row.vaultRole}

Answered(style, list, status, result) ==
  /\ answer' = [form |-> form, style |-> style, sent |-> list,
                status |-> status, result |-> result]
  /\ form' = NoForm
  /\ UNCHANGED <<engines, tokenFile>>

CreateAuthorityInstance(style) ==
  /\ form.goal = "authority" /\ form.chosen # <<>>
  /\ \E list \in Filled(style), n \in Names :
       LET row == AuthorityColumns(UnmarshalAttributesValues(list)) IN
       IF Panics(row) THEN Answered(style, list, "panic", Nil) /\ UNCHANGED table
       ELSE IF ~GetClient(row)
       THEN Answered(style, list, "400", Nil) /\ UNCHANGED table
       ELSE IF table[n] # Missing
       THEN Answered(style, list, "500", Nil) /\ UNCHANGED table
       ELSE Answered(style, list, "200", n) /\ table' = [table EXCEPT ![n] = row]

\* IssueCertificate, as far as its profile goes.
IssueCertificate(style) ==
  /\ form.goal = "certificate" /\ form.chosen # <<>>
  /\ \E list \in Filled(style) :
       LET attributes == UnmarshalAttributesValues(list)
           engine     == getRAProfileEngineName(attributes)
           role       == getRAProfileRoleName(attributes)
       IN  IF engine = Panic \/ (engine # Invalid /\ role = Panic)
           THEN Answered(style, list, "panic", Nil)
           ELSE IF Invalid \in {engine, role} THEN Answered(style, list, "invalid", Nil)
           ELSE IF table[form.subject] = Missing THEN Answered(style, list, "404", Nil)
           ELSE IF ~GetClient(table[form.subject]) THEN Answered(style, list, "500", Nil)
           ELSE Answered(style, list, "200", <<engine, role>>)
  /\ UNCHANGED table

DiscoverCertificate(style) ==
  /\ form.goal = "discovery" /\ form.chosen # <<>>
  /\ \E list \in Filled(style) :
       LET attributes == UnmarshalAttributesValues(list)
           uuid       == ObjectKey(FirstContent("authority_to_discover", attributes), "uuid")
           searched   == DiscoveredEngines(attributes)
       IN  IF uuid = Panic THEN Answered(style, list, "panic", Nil)
           ELSE IF table[uuid] = Missing THEN Answered(style, list, "404", Nil)
           ELSE IF Panic \in searched THEN Answered(style, list, "panic", Nil)
           ELSE IF /\ GetAttributeFromArrayByUUID("pki_engines_to_discover", attributes) = Nil
                   /\ ~GetClient(table[uuid])
           THEN Answered(style, list, "400", Nil)
           ELSE Answered(style, list, "200", searched)
  /\ UNCHANGED table

-----------------------------------------------------------------------------
(* Meanwhile: mounts, the token file, removals, a form that is given up.   *)

Remount == \E e \in Engines :
  /\ engines' = IF e \in engines THEN engines \ {e} ELSE engines \cup {e}
  /\ UNCHANGED <<tokenFile, table, form, answer>>

TokenFileChanges ==
  /\ tokenFile' = ~tokenFile
  /\ UNCHANGED <<engines, table, form, answer>>

RemoveAuthorityInstance == \E n \in Names :
  /\ table[n] # Missing
  /\ table' = [table EXCEPT ![n] = Missing]
  /\ UNCHANGED <<engines, tokenFile, form, answer>>

GiveUp ==
  /\ form.goal # "none"
  /\ form' = NoForm
  /\ UNCHANGED <<engines, tokenFile, table, answer>>

Init ==
  /\ engines \in {{}, Engines}
  /\ tokenFile \in BOOLEAN
  /\ table = [n \in Names |-> Missing]
  /\ form = NoForm
  /\ answer = NoAnswer

Lists == ListAttributeDefinitions \/ ListDiscoveryAttributes
           \/ \E n \in Names : ListRAProfileAttributes(n)
Callbacks == ChooseCredentialType \/ RAProfileCallback \/ PkiEnginesCallback
Submits == \E style \in Styles :
  CreateAuthorityInstance(style) \/ IssueCertificate(style) \/ DiscoverCertificate(style)
Environment == Remount \/ TokenFileChanges \/ RemoveAuthorityInstance \/ GiveUp

Next == Lists \/ Callbacks \/ Submits \/ Environment

Spec == Init /\ [][Next]_vars

-----------------------------------------------------------------------------
(* Properties.                                                             *)

\* Every variable keeps its type: a row holds no Panic, an answer is one of
\* those the handlers give, and there is none while a form is open.
TypeOK ==
  /\ engines \subseteq Engines
  /\ tokenFile \in BOOLEAN
  /\ \A n \in Names : table[n] # Missing =>
       /\ table[n].type \in CredentialTypes
       /\ \A c \in DOMAIN table[n] \ {"attributes"} : table[n][c] # Panic
  /\ form.goal \in DOMAIN Fields \cup {"none"}
  /\ form.goal # "none" => answer.status = "none"
  /\ answer.status \in {"none", "200", "400", "404", "500", "invalid", "panic"}

\* What the connector offers it takes: a form filled in as its definitions say
\* ends no handler in a panic, is refused as a profile only for a role that is
\* no path segment, and holds every credential an approle login needs.
OfferedIsAccepted ==
  answer.style = "defined" =>
    /\ answer.status # "panic"
    /\ answer.status = "invalid" =>
         \E i \in DOMAIN answer.sent :
           /\ answer.sent[i].name = "ra_profile_role"
           /\ answer.sent[i].items[1][2] \in RefusedRoles
    /\ (answer.status = "400" /\ answer.form.goal = "authority") =>
         answer.form.chosen # <<"string", APPROLE_CRED>>

Value(data) == data[Len(data)]
SentAs(name) == {answer.sent[i].items[1] : i \in
                   {j \in DOMAIN answer.sent : answer.sent[j].name = name}}
Kept(column, name) ==
  IF SentAs(name) = {} THEN column = Empty ELSE SentAs(name) = {<<"string", column>>}
KeptSecret(column, name) ==
  IF SentAs(name) = {} THEN column = Empty ELSE \A data \in SentAs(name) : Value(data) = column

\* What was typed into the form of an authority is what it is stored with, in
\* the columns a login uses and in the attributes GetAuthorityInstance shows,
\* whichever way the interface sent the secrets.
StoredIsAnswered ==
  (/\ answer.status = "200"
   /\ answer.form.goal = "authority"
   /\ table[answer.result] # Missing) =>
     LET row  == table[answer.result]
         back == UnmarshalAttributes(row.attributes)
     IN  /\ Kept(row.url, "authority_url") /\ Kept(row.type, "credentials_type")
         /\ Kept(row.mountPath, "mount_path") /\ Kept(row.vaultRole, "vault_role")
         /\ KeptSecret(row.roleId, "role_id") /\ KeptSecret(row.roleSecret, "role_secret")
         /\ \A i \in DOMAIN answer.sent : answer.sent[i].name \in DOMAIN AttributeList =>
              /\ back[i].name = answer.sent[i].name
              /\ Value(back[i].content[1]) = Value(answer.sent[i].items[1])

Selected(list, name) ==
  UNION {{Value(list[i].items[j]) : j \in DOMAIN list[i].items} :
           i \in {k \in DOMAIN list : list[k].name = name}}

\* An accepted form is used as it was filled in, also when the mounts changed
\* since: a certificate is asked of the engine and role selected, a discovery
\* searches the engines selected, or if the attribute was left out all that are
\* mounted by then.
SelectionIsUsed ==
  [][(answer.status # "200" /\ answer'.status = "200") =>
       LET list == answer'.sent  Has(name) == \E i \in DOMAIN list : list[i].name = name IN
       CASE form.goal = "certificate" ->
              /\ Selected(list, "ra_profile_engine") = {answer'.result[1]}
              /\ Selected(list, "ra_profile_role") = {answer'.result[2]}
         [] form.goal = "discovery" ->
              answer'.result = IF Has("pki_engines_to_discover")
                               THEN Selected(list, "pki_engines_to_discover") ELSE engines
         [] OTHER -> TRUE]_vars
=============================================================================
