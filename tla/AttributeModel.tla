--------------------------- MODULE AttributeModel ---------------------------
(***************************************************************************)
(* The attributes the authority and discovery interfaces exchange with the *)
(* platform (internal/model/attributes.go): their catalogue, and what the  *)
(* conversions from and to JSON make of their content.                     *)
(*                                                                         *)
(* An attribute is known by its name, which stands for its uuid too.  The  *)
(* data of a content item is a tuple: <<"string", v>>, <<"secret", v>>,    *)
(* <<"object", key, v>> for the one key a handler looks at, <<"object">>   *)
(* without it, <<"null">>, <<"number">>, and <<"nil">> for the nil content *)
(* of an unknown type.                                                     *)
(***************************************************************************)
EXTENDS Naturals, Sequences

Nil   == [type |-> "nil"]    \* the nil interface
Fault == [type |-> "panic"]  \* a lookup that met a nil: its handler panics

Empty == "empty"   \* the empty string; nothing that is typed is

KUBERNETES_CRED == "kubernetes"
APPROLE_CRED == "approle"
JWTOIDC_CRED == "jwt"
CredentialTypes == {KUBERNETES_CRED, APPROLE_CRED, JWTOIDC_CRED}

-----------------------------------------------------------------------------
(* The catalogue: name -> definition.                                      *)

Definition(type, contentType, required, list) ==
  [type |-> type, contentType |-> contentType, required |-> required,
   list |-> list, constrained |-> FALSE, callback |-> <<>>]

DataAttribute(contentType, required, list) ==
  Definition("data", contentType, required, list)

WithCallback(definition, path) == [definition EXCEPT !.callback = path]

RolesPath == <<"v1", "authorityProvider", "authorities", "_uuid",
               "raProfileRole", "_engineName", "callback">>
PkiEnginesPath == <<"v1", "discoveryProvider", "_uuid", "pkiengines", "callback">>
CredentialPath ==
  <<"v1", "authorityProvider", "credentialType", "_credentialsType", "callback">>

RAProfilesAttributes ==
  [ra_profile_engine    |-> DataAttribute("object", TRUE, TRUE),
   ra_profile_authority |-> DataAttribute("string", TRUE, FALSE),
   ra_profile_role |-> WithCallback(DataAttribute("string", TRUE, TRUE), RolesPath)]

DiscoveryAttributes ==
  [authority_to_discover |-> DataAttribute("object", TRUE, TRUE),
   pki_engines_to_discover |->
     WithCallback(DataAttribute("object", FALSE, TRUE), PkiEnginesPath)]

AuthorityManagementAttributes ==
  [authority_info   |-> Definition("info", "text", FALSE, FALSE),
   authority_url    |-> [DataAttribute("string", TRUE, FALSE)
                           EXCEPT !.constrained = TRUE],
   credentials_type |-> DataAttribute("string", TRUE, TRUE),
   credential_group |->
     WithCallback(Definition("group", Empty, FALSE, FALSE), CredentialPath),
   role_id     |-> DataAttribute("secret", TRUE, FALSE),
   role_secret |-> DataAttribute("secret", TRUE, FALSE),
   vault_role  |-> DataAttribute("string", FALSE, FALSE),
   mount_path  |-> DataAttribute("string", FALSE, FALSE)]

\* f, and g where f says nothing.
Over(f, g) == [x \in DOMAIN f \cup DOMAIN g |-> IF x \in DOMAIN f THEN f[x] ELSE g[x]]

AttributeList ==
  Over(AuthorityManagementAttributes, Over(DiscoveryAttributes, RAProfilesAttributes))

(* A name the catalogue does not have gets the zero definition.            *)
GetAttributeByName(name) ==
  IF name \in DOMAIN AttributeList THEN AttributeList[name]
                                   ELSE Definition(Empty, Empty, FALSE, FALSE)

-----------------------------------------------------------------------------
(* Content.  The interface sends object and secret content as a string     *)
(* where its form could not show it; both are tried.                       *)

StringOf(data) == IF data[1] = "string" THEN data[2] ELSE Empty

IsStringOrNull(data) == data[1] \in {"string", "null"}

\* Mutant: a secret is only ever read from a string.
unmarshalSecretAsString(data, contentType) ==
  IF contentType = "secret" THEN <<"secret", StringOf(data)>>
  ELSE IF contentType = "object" /\ data[1] = "object" THEN data
  ELSE <<"string", StringOf(data)>>

unmarshalAttributeContent(data, contentType) ==
  CASE contentType = "string" -> <<"string", StringOf(data)>>
    [] contentType = "object" ->
         IF IsStringOrNull(data) THEN <<"object", "objectData", StringOf(data)>>
         ELSE IF data[1] = "object" THEN data ELSE <<"object">>
    [] contentType = "secret" ->
         IF IsStringOrNull(data) THEN <<"secret", StringOf(data)>>
         ELSE IF Len(data) = 3 /\ data[2] = "secret" THEN <<"secret", data[3]>>
         ELSE <<"secret", Empty>>
    [] OTHER -> <<"nil">>

\* What json.Marshal writes for the content of a data attribute.
MarshalContent(content) ==
  IF content[1] # "secret" THEN content
  ELSE IF content[2] = Empty THEN <<"object">> ELSE <<"object", "secret", content[2]>>

EachContent(items, contentType) ==
  [i \in DOMAIN items |-> unmarshalAttributeContent(items[i], contentType)]

(* An attribute of a request, [name, items], becomes the definition of     *)
(* that name with the content sent; only data attributes are, the others   *)
(* are Nil in the list.                                                    *)

Attribute(name, definition, content, constrained) ==
  [name |-> name, type |-> definition.type, contentType |-> definition.contentType,
   content |-> content, constrained |-> constrained]

unmarshalAttributeValue(sent) ==
  LET def == GetAttributeByName(sent.name) IN
  IF def.type = "data"
  THEN Attribute(sent.name, def, EachContent(sent.items, def.contentType),
                 def.constrained)
  ELSE Nil

UnmarshalAttributesValues(list) ==
  [i \in DOMAIN list |-> unmarshalAttributeValue(list[i])]

(* What the database keeps, and what is read back from it: the constraints *)
(* are written under "constraints" and looked for under "constrains".      *)

MarshalAttributes(attributes) ==
  [i \in DOMAIN attributes |->
     LET a == attributes[i] IN
     IF a = Nil THEN Nil
     ELSE Attribute(a.name, a, [j \in DOMAIN a.content |-> MarshalContent(a.content[j])],
                    a.constrained)]

unmarshalAttribute(stored) ==
  IF stored.type = "data"
  THEN Attribute(stored.name, stored, EachContent(stored.content, stored.contentType),
                 FALSE)
  ELSE Nil

UnmarshalAttributes(stored) ==
  [i \in DOMAIN stored |-> unmarshalAttribute(stored[i])]

(* Every attribute up to the one looked for is asked for its uuid, which a *)
(* Nil does not survive.                                                   *)

GetAttributeFromArrayByUUID(name, attributes) ==
  LET found == {i \in DOMAIN attributes :
                  attributes[i] = Nil \/ attributes[i].name = name}
      first == attributes[CHOOSE i \in found : \A j \in found : i <= j]
  IN  IF found = {} THEN Nil ELSE IF first = Nil THEN Fault ELSE first
=============================================================================
