--------------------------- MODULE AuthorityRegistry ---------------------------
(****************************************************************************)
(* The authority instances: the table authority_instances, and the handlers *)
(* of internal/authority that create, change, remove and use its rows.      *)
(*                                                                          *)
(* A handler reads a row in one statement, may log in to the vault, and     *)
(* writes the row it read in another statement: no transaction spans them.  *)
(* A process that dies is a set of requests that take no further step.      *)
(****************************************************************************)
EXTENDS Integers

CONSTANTS
    Requests,      \* the goroutines that serve one request after another
    Names,         \* names of authorities
    Attributes,    \* attribute lists of a request: what AttributeList describes
    Bodies,        \* the bodies clients send: a name with an attribute list
    Addresses, Secrets, VaultRoles, CredentialTypes, Unset,
    Malformed,     \* the addresses vault.New makes no client for
    None,          \* no row, no body, no login
    MaxIds,        \* values the serial id takes
    MaxErrors      \* bound: database errors

LoginTypes == {"approle", "jwt", "kubernetes"}

\* AUTHORITY_URL_ATTR (with the mount path), _CREDENTIAL_TYPE_, _ROLE_ID_ and
\* _ROLE_SECRET_ (one secret), _VAULT_ROLE_: a client may send any of them.
AttributeList == [address : Addresses, type : CredentialTypes,
                  secret : Secrets \cup {Unset}, vaultRole : VaultRoles \cup {Unset}]

\* uuid of a name: 64 bits of an MD5, taken to be different for different names.
DeterministicGUID(name) == <<"uuid", name>>
UUIDs == {DeterministicGUID(n) : n \in Names}
Keys  == UUIDs \cup Names

Ids  == 1..MaxIds
Rows == [uuid : UUIDs, name : Names, address : Addresses, type : CredentialTypes,
         secret : Secrets \cup {Unset}, vaultRole : VaultRoles \cup {Unset},
         attributes : Attributes]

ASSUME AttributesAssumption == Attributes \subseteq AttributeList
ASSUME BodiesAssumption     == Bodies \subseteq [name : Names, attributes : Attributes]
ASSUME MalformedAssumption  == Malformed \subseteq Addresses
ASSUME BoundsAssumption     == MaxIds \in Nat /\ MaxErrors \in Nat
ASSUME SentinelAssumption   == None \notin Rows \cup Bodies

VARIABLES
    authorities,   \* authorities[id]: the row with that primary key, or None
    lastId,        \* the last value of the serial
    requests,      \* requests[r]: where a goroutine is and what it holds
    errors         \* database errors so far

vars == <<authorities, lastId, requests, errors>>

Has(id)      == authorities[id] # None
WithUUID(u)  == {id \in Ids : Has(id) /\ authorities[id].uuid = u}
WithName(n)  == {id \in Ids : Has(id) /\ authorities[id].name = n}

-----------------------------------------------------------------------------
(* From attributes to columns, and from columns to a login. *)

\* CreateAuthorityInstance keeps only what the credential type needs.
CreatedRow(b) ==
    [uuid |-> DeterministicGUID(b.name), name |-> b.name,
     address |-> b.attributes.address, type |-> b.attributes.type,
     secret |-> IF b.attributes.type = "approle" THEN b.attributes.secret ELSE Unset,
     vaultRole |-> IF b.attributes.type \in {"jwt", "kubernetes"}
                   THEN b.attributes.vaultRole ELSE Unset,
     attributes |-> b.attributes]

\* Mutant of UpdatedRow: the vault role of the old row stays.
UpdatedRowKeepsRole(row, b) ==
    [uuid |-> row.uuid, name |-> b.name,
     address |-> b.attributes.address, type |-> b.attributes.type,
     secret |-> IF b.attributes.type = "approle" THEN b.attributes.secret ELSE Unset,
     vaultRole |-> row.vaultRole, attributes |-> b.attributes]

\* UpdateAuthorityInstance writes over every column but id and uuid.
UpdatedRow(row, b) ==
    [uuid |-> row.uuid, name |-> b.name,
     address |-> b.attributes.address, type |-> b.attributes.type,
     secret |-> IF b.attributes.type = "approle" THEN b.attributes.secret ELSE Unset,
     vaultRole |-> b.attributes.vaultRole,
     attributes |-> b.attributes]

\* The login a row, or an attribute list, stands for; none for another type.
getLoginMethod(row) ==
    CASE row.type = "approle"              -> <<row.address, row.type, row.secret>>
      [] row.type \in {"jwt", "kubernetes"} -> <<row.address, row.type, row.vaultRole>>
      [] OTHER                             -> None

-----------------------------------------------------------------------------
(* Requests *)

Operations == {"create", "update", "remove", "connect", "callback"}

Idle(answer) == [pc |-> "idle", op |-> "none", key |-> None, body |-> None,
                 id |-> 0, row |-> None, client |-> None, answer |-> answer]

Init == /\ authorities = [id \in Ids |-> None]
        /\ lastId = 0
        /\ requests = [r \in Requests |-> Idle("none")]
        /\ errors = 0

At(r, pc)      == requests[r].pc = pc
Goto(r, pc)    == requests' = [requests EXCEPT ![r].pc = pc]
Answer(r, code) == requests' = [requests EXCEPT ![r] = Idle(code)]

\* Any error of the database: the handlers do not ask which.
DatabaseError == errors < MaxErrors /\ errors' = errors + 1

Begin(r, op, pc, k, b) ==
    /\ At(r, "idle")
    /\ requests' = [requests EXCEPT ![r] =
                      [Idle("none") EXCEPT !.pc = pc, !.op = op, !.key = k, !.body = b]]
    /\ UNCHANGED <<authorities, lastId, errors>>

CreateAuthorityInstance(r) == \E b \in Bodies : Begin(r, "create", "login", None, b)
UpdateAuthorityInstance(r) == \E u \in UUIDs, b \in Bodies : Begin(r, "update", "find", u, b)
RemoveAuthorityInstance(r) == \E u \in UUIDs : Begin(r, "remove", "find", u, None)
\* GetConnection, and as far as the table goes every handler that looks an
\* authority up and logs in with it.
GetConnection(r)           == \E u \in UUIDs : Begin(r, "connect", "find", u, None)
RAProfileCallback(r)       == \E k \in Keys : Begin(r, "callback", "find", k, None)

(* FindAuthorityInstanceByUUID, and ByName for the callback. *)

AfterFind(op) == CASE op = "update" -> "save" [] op = "remove" -> "delete" [] OTHER -> "login"

\* Mutant of LookupFailed: a removal goes on without a row.
LookupFailedUnchecked(r) ==
    CASE requests[r].op = "remove"                        -> Goto(r, "delete")
      [] requests[r].op = "callback" /\ At(r, "find")     -> Goto(r, "findByName")
      [] OTHER                                            -> Answer(r, "404")

\* What a handler answers, or where it goes, when its lookup returns an error:
\* that the row is not there and that the database failed are the same to it.
LookupFailed(r) ==
    CASE requests[r].op = "remove"                        -> Answer(r, "204")
      [] requests[r].op = "callback" /\ At(r, "find")     -> Goto(r, "findByName")
      [] OTHER                                            -> Answer(r, "404")

Matches(r) == IF At(r, "find") THEN WithUUID(requests[r].key) ELSE WithName(requests[r].key)

Find(r) ==
    /\ requests[r].pc \in {"find", "findByName"}
    /\ IF Matches(r) = {}
       THEN LookupFailed(r)
       ELSE \E id \in Matches(r) :
               requests' = [requests EXCEPT ![r].pc = AfterFind(requests[r].op),
                                            ![r].id = id, ![r].row = authorities[id]]
    /\ UNCHANGED <<authorities, lastId, errors>>

FindFails(r) ==
    /\ requests[r].pc \in {"find", "findByName"}
    /\ DatabaseError
    /\ LookupFailed(r)
    /\ UNCHANGED <<authorities, lastId>>

(* vault.GetClient: of the row to be created, or of the copy that was read. *)

LoginOf(r) == getLoginMethod(IF requests[r].op = "create"
                             THEN CreatedRow(requests[r].body) ELSE requests[r].row)

\* GetClient only logs an error of vault.New, and logs in with a nil client.
HasClient(r) == LoginOf(r) # None /\ LoginOf(r)[1] \notin Malformed

\* Mutant of Login: the vault's refusal of a new authority is only logged.
LoginNotAwaited(r) ==
    /\ At(r, "login")
    /\ HasClient(r)
    /\ IF requests[r].op = "create" THEN Goto(r, "insert") ELSE Answer(r, "200")
    /\ UNCHANGED <<authorities, lastId, errors>>

\* The callback goes on to list the roles of an engine, which may fail.
Login(r) ==
    /\ At(r, "login")
    /\ HasClient(r)
    /\ CASE requests[r].op = "create" ->
              requests' = [requests EXCEPT ![r].pc = "insert", ![r].client = LoginOf(r)]
         [] requests[r].op = "connect"  -> Answer(r, "200")
         [] requests[r].op = "callback" -> \E code \in {"200", "400"} : Answer(r, code)
    /\ UNCHANGED <<authorities, lastId, errors>>

\* The vault refuses, or there is no token file to read, for which no client
\* is needed.
LoginRefused(r) ==
    /\ At(r, "login")
    /\ LoginOf(r) # None
    /\ HasClient(r) \/ LoginOf(r)[2] # "approle"
    /\ Answer(r, IF requests[r].op = "callback" THEN "500" ELSE "400")
    /\ UNCHANGED <<authorities, lastId, errors>>

\* A nil login method, or a nil client, is called: net/http recovers the panic
\* and closes the connection.
LoginPanics(r) ==
    /\ At(r, "login")
    /\ ~HasClient(r)
    /\ Answer(r, "panic")
    /\ UNCHANGED <<authorities, lastId, errors>>

(* The repository's writes.  An error may come before or after the commit. *)

\* The unique keys of the table, for a row to be stored under id.
KeysAllow(id, row) ==
    \A other \in Ids \ {id} :
        Has(other) => authorities[other].uuid # row.uuid /\ authorities[other].name # row.name

Insert(r) ==
    LET id == lastId + 1  row == CreatedRow(requests[r].body) IN
    /\ At(r, "insert")
    /\ lastId < MaxIds
    /\ lastId' = id                        \* a refused INSERT uses its value up
    /\ \/ /\ KeysAllow(id, row)
          /\ authorities' = [authorities EXCEPT ![id] = row]
          /\ \/ Answer(r, "200") /\ UNCHANGED errors
             \/ Answer(r, "500") /\ DatabaseError
       \/ /\ ~KeysAllow(id, row)
          /\ Answer(r, "500")
          /\ UNCHANGED <<authorities, errors>>

\* The serial has no next value.
InsertExhausted(r) ==
    /\ At(r, "insert")
    /\ lastId = MaxIds
    /\ Answer(r, "500")
    /\ UNCHANGED <<authorities, lastId, errors>>

\* Save: UPDATE the row with this id; when there is none INSERT it again.
SaveAccepted(id, row) == KeysAllow(id, row)

Save(r) ==
    LET id == requests[r].id  row == UpdatedRow(requests[r].row, requests[r].body) IN
    /\ At(r, "save")
    /\ \/ /\ SaveAccepted(id, row)
          /\ authorities' = [authorities EXCEPT ![id] = row]
          /\ \/ Answer(r, "200") /\ UNCHANGED errors
             \/ Answer(r, "500") /\ DatabaseError
       \/ /\ ~SaveAccepted(id, row)
          /\ Answer(r, "500")
          /\ UNCHANGED <<authorities, errors>>
    /\ UNCHANGED lastId

\* Mutant of Deleted: DeleteAuthorityInstanceByUUID, which looks the row up again.
DeletedByUUID(r) == WithUUID(requests[r].row.uuid)

\* Delete: the statement names the primary key and nothing else.
Deleted(r) == {requests[r].id}

Delete(r) ==
    /\ At(r, "delete")
    /\ authorities' = [id \in Ids |-> IF id \in Deleted(r) THEN None ELSE authorities[id]]
    /\ \/ Answer(r, "200") /\ UNCHANGED errors
       \/ Answer(r, "500") /\ DatabaseError
    /\ UNCHANGED lastId

WriteFails(r) ==
    /\ requests[r].pc \in {"insert", "save", "delete"}
    /\ DatabaseError
    /\ Answer(r, "500")
    /\ UNCHANGED <<authorities, lastId>>

-----------------------------------------------------------------------------
Start(r) == \/ CreateAuthorityInstance(r) \/ UpdateAuthorityInstance(r)
            \/ RemoveAuthorityInstance(r) \/ GetConnection(r) \/ RAProfileCallback(r)
Reads(r)  == Find(r) \/ FindFails(r)
Logins(r) == Login(r) \/ LoginRefused(r) \/ LoginPanics(r)
Writes(r) == Insert(r) \/ InsertExhausted(r) \/ Save(r) \/ Delete(r) \/ WriteFails(r)

Next == \E r \in Requests : Start(r) \/ Reads(r) \/ Logins(r) \/ Writes(r)

Spec == Init /\ [][Next]_vars

-----------------------------------------------------------------------------
(* Properties *)

Answers == {"none", "200", "204", "400", "404", "500", "panic"}
Request == [pc : {"idle", "find", "findByName", "login", "insert", "save", "delete"},
            op : Operations \cup {"none"}, key : Keys \cup {None}, body : Bodies \cup {None},
            id : Ids \cup {0}, row : Rows \cup {None},
            client : (Addresses \X LoginTypes \X (Secrets \cup VaultRoles \cup {Unset})) \cup {None},
            answer : Answers]

\* Every variable keeps its type, and a handler at a write has what it writes.
TypeOK == /\ authorities \in [Ids -> Rows \cup {None}]
          /\ lastId \in 0..MaxIds
          /\ requests \in [Requests -> Request]
          /\ errors \in 0..MaxErrors
          /\ \A r \in Requests :
                /\ requests[r].pc \in {"save", "delete"} =>
                      requests[r].row \in Rows /\ requests[r].id \in 1..lastId
                /\ requests[r].pc \in {"insert", "save"} => requests[r].body \in Bodies

\* Every stored authority is one request's work and no mixture of two, also
\* after an update of another credential type: its name and attributes came in
\* one body, and it logs in as the attributes say that a reader is shown.
Whole(row) == /\ [name |-> row.name, attributes |-> row.attributes] \in Bodies
              /\ getLoginMethod(row) = getLoginMethod(row.attributes)
RowsAreWhole == \A id \in Ids : Has(id) => Whole(authorities[id])

\* "Do not store the authority in the database before the connection is
\* validated": a new row is stored by a request that has logged in with it.
Fresh(id) == id > lastId /\ ~Has(id) /\ Has(id)'
CreateStoresConnected ==
    [][\A id \in Ids : Fresh(id) =>
          \E r \in Requests : /\ requests[r].client # None
                             /\ requests[r].client = getLoginMethod(authorities'[id])]_vars

\* An update and a delete change the row they read and no other, so a stale one
\* never touches an authority created since under the same name, and so the
\* same uuid; and a row keeps its uuid whatever it is renamed to.
OnlyReadRowsChange ==
    [][\A id \in Ids : (id <= lastId /\ authorities'[id] # authorities[id]) =>
          /\ \E r \in Requests : /\ requests[r].id = id
                                /\ requests[r].pc \in {"save", "delete"}
          /\ (Has(id) /\ Has(id)') => authorities'[id].uuid = authorities[id].uuid]_vars
=============================================================================
