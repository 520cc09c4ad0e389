---------------------------- MODULE AuthorityProofs ----------------------------
(***************************************************************************)
(* Proofs about the authority registry, for any requests, bodies and       *)
(* bounds.                                                                 *)
(***************************************************************************)
EXTENDS AuthorityRegistry, TLAPS

-----------------------------------------------------------------------------
(* The inductive invariant. *)

\* What a request holds at each place, when n values of the serial are used.
Good(q, n) ==
    /\ q \in Request
    /\ q.pc = "find"       => /\ q.op \in {"update", "remove", "connect", "callback"}
                              /\ q.op = "update" => q.body \in Bodies
    /\ q.pc = "findByName" => q.op = "callback"
    /\ q.pc = "login"      => \/ q.op = "create" /\ q.body \in Bodies
                              \/ q.op \in {"connect", "callback"} /\ q.row \in Rows
    /\ q.pc = "insert"     => /\ q.body \in Bodies
                              /\ q.client # None
                              /\ q.client = getLoginMethod(CreatedRow(q.body))
    /\ q.pc = "save"       => q.body \in Bodies
    /\ q.pc \in {"save", "delete"} => q.row \in Rows /\ q.id \in 1..n

AllGood == \A r \in Requests : Good(requests[r], lastId)

\* No row is stored under a value the serial has not had.
NoneAbove == \A id \in Ids : id > lastId => authorities[id] = None

\* A request about to write, or to delete, the row of an id.
Writing(q) == q.pc \in {"save", "delete"}

\* Whoever has a row of an id, the table or a request, has the same uuid in it.
OneUUID ==
    /\ \A r \in Requests : Writing(requests[r]) /\ Has(requests[r].id) =>
          authorities[requests[r].id].uuid = requests[r].row.uuid
    /\ \A r, s \in Requests :
          Writing(requests[r]) /\ Writing(requests[s]) /\ requests[r].id = requests[s].id =>
             requests[r].row.uuid = requests[s].row.uuid

Tables == /\ authorities \in [Ids -> Rows \cup {None}]
          /\ lastId \in 0..MaxIds
          /\ errors \in 0..MaxErrors
          /\ DOMAIN requests = Requests
          /\ requests = [r \in Requests |-> requests[r]]

IInv == Tables /\ AllGood /\ NoneAbove /\ OneUUID /\ RowsAreWhole

-----------------------------------------------------------------------------
(* Rows and logins *)

LEMMA BodyFields ==
  ASSUME NEW b \in Bodies
  PROVE  /\ b.name \in Names /\ b.attributes \in Attributes
         /\ b.attributes.address \in Addresses /\ b.attributes.type \in CredentialTypes
         /\ b.attributes.secret \in Secrets \cup {Unset}
         /\ b.attributes.vaultRole \in VaultRoles \cup {Unset}
         /\ b = [name |-> b.name, attributes |-> b.attributes]
<1>1. b \in [name : Names, attributes : Attributes]
  BY BodiesAssumption
<1>2. b.attributes \in AttributeList
  BY <1>1, AttributesAssumption
<1> QED  BY <1>1, <1>2 DEF AttributeList

\* The row a create stores is a row, and whole.
LEMMA CreatedRowWhole ==
  ASSUME NEW b \in Bodies
  PROVE  CreatedRow(b) \in Rows /\ Whole(CreatedRow(b))
<1>1. CreatedRow(b) \in Rows
  BY BodyFields DEF CreatedRow, Rows, UUIDs
<1>2. [name |-> CreatedRow(b).name, attributes |-> CreatedRow(b).attributes] \in Bodies
  BY BodyFields DEF CreatedRow
<1>3. getLoginMethod(CreatedRow(b)) = getLoginMethod(b.attributes)
  BY DEF CreatedRow, getLoginMethod
<1> QED  BY <1>1, <1>2, <1>3 DEF Whole, CreatedRow

\* So is the row an update stores, and it has the uuid of the row it replaces.
LEMMA UpdatedRowWhole ==
  ASSUME NEW row \in Rows, NEW b \in Bodies
  PROVE  /\ UpdatedRow(row, b) \in Rows /\ Whole(UpdatedRow(row, b))
         /\ UpdatedRow(row, b).uuid = row.uuid
<1>1. UpdatedRow(row, b) \in Rows /\ UpdatedRow(row, b).uuid = row.uuid
  BY BodyFields DEF UpdatedRow, Rows
<1>2. [name |-> UpdatedRow(row, b).name, attributes |-> UpdatedRow(row, b).attributes] \in Bodies
  BY BodyFields DEF UpdatedRow
<1>3. getLoginMethod(UpdatedRow(row, b)) = getLoginMethod(b.attributes)
  BY DEF UpdatedRow, getLoginMethod
<1> QED  BY <1>1, <1>2, <1>3 DEF Whole, UpdatedRow

Clients == (Addresses \X LoginTypes \X (Secrets \cup VaultRoles \cup {Unset})) \cup {None}

LEMMA LoginType ==
  ASSUME NEW row \in Rows
  PROVE  getLoginMethod(row) \in Clients
<1>1. /\ row.address \in Addresses /\ row.secret \in Secrets \cup {Unset}
      /\ row.vaultRole \in VaultRoles \cup {Unset}
  BY DEF Rows
<1>2. CASE row.type = "approle"
  BY <1>1, <1>2 DEF getLoginMethod, Clients, LoginTypes
<1>3. CASE row.type \in {"jwt", "kubernetes"}
  BY <1>1, <1>3 DEF getLoginMethod, Clients, LoginTypes
<1>4. CASE row.type \notin {"approle", "jwt", "kubernetes"}
  BY <1>4 DEF getLoginMethod, Clients
<1> QED  BY <1>2, <1>3, <1>4

-----------------------------------------------------------------------------
(* Requests *)

LEMMA IdleGood ==
  ASSUME NEW code \in Answers, NEW n \in Nat
  PROVE  Good(Idle(code), n) /\ ~Writing(Idle(code)) /\ Idle(code).pc = "idle"
  BY DEF Good, Idle, Request, Operations, Writing

LEMMA GoodLater ==
  ASSUME NEW q, NEW m \in Nat, NEW n \in Nat, m <= n, Good(q, m)
  PROVE  Good(q, n)
  BY DEF Good

LEMMA BeginGood ==
  ASSUME NEW n \in Nat, NEW op \in Operations, NEW pc \in {"find", "login"},
         NEW k \in Keys \cup {None}, NEW b \in Bodies \cup {None},
         IF pc = "login" THEN op = "create" /\ b \in Bodies
         ELSE op # "create" /\ (op = "update" => b \in Bodies)
  PROVE  LET q == [Idle("none") EXCEPT !.pc = pc, !.op = op, !.key = k, !.body = b]
         IN  Good(q, n) /\ ~Writing(q)
  BY DEF Good, Idle, Request, Operations, Answers, Writing

Taken(q, id, row) == [q EXCEPT !.pc = AfterFind(q.op), !.id = id, !.row = row]

LEMMA FoundGood ==
  ASSUME NEW n \in 0..MaxIds, NEW q, Good(q, n), q.pc \in {"find", "findByName"},
         NEW id \in 1..n, NEW row \in Rows
  PROVE  /\ Good(Taken(q, id, row), n)
         /\ Taken(q, id, row).id = id /\ Taken(q, id, row).row = row
<1> DEFINE p == [q EXCEPT !.pc = AfterFind(q.op), !.id = id, !.row = row]
<1>1. q \in Request /\ id \in Ids
  BY BoundsAssumption DEF Good, Ids
<1>2. AfterFind(q.op) \in {"save", "delete", "login"}
  BY DEF AfterFind
<1>3. p \in Request
  BY <1>1, <1>2 DEF Request
<1>4. /\ p.pc = AfterFind(q.op) /\ p.op = q.op /\ p.body = q.body /\ p.id = id
      /\ p.row = row
  BY <1>1 DEF Request
<1>5. p.pc = "login" => p.op \in {"connect", "callback"}
  BY <1>4 DEF Good, AfterFind
<1>6. p.pc = "save" => p.body \in Bodies
  BY <1>4 DEF Good, AfterFind
<1> HIDE DEF p
<1>7. Good(p, n)
  BY <1>2, <1>3, <1>4, <1>5, <1>6 DEF Good
<1> QED  BY <1>4, <1>7 DEF p, Taken

LEMMA ByNameGood ==
  ASSUME NEW n \in Nat, NEW q, Good(q, n), q.op = "callback"
  PROVE  LET p == [q EXCEPT !.pc = "findByName"] IN Good(p, n) /\ ~Writing(p)
  BY DEF Good, Request, Writing

LEMMA LoggedInGood ==
  ASSUME NEW n \in Nat, NEW q, Good(q, n), q.pc = "login", q.op = "create",
         getLoginMethod(CreatedRow(q.body)) # None
  PROVE  LET p == [q EXCEPT !.pc = "insert", !.client = getLoginMethod(CreatedRow(q.body))]
         IN  Good(p, n) /\ ~Writing(p)
<1> DEFINE client == getLoginMethod(CreatedRow(q.body))
           p == [q EXCEPT !.pc = "insert", !.client = client]
<1>1. q \in Request /\ q.body \in Bodies
  BY DEF Good
<1>2. client \in Clients
  BY <1>1, CreatedRowWhole, LoginType
<1> HIDE DEF client
<1>3. p \in Request
  BY <1>1, <1>2 DEF Request, Clients
<1>4. p.pc = "insert" /\ p.body = q.body /\ p.client = client
  BY <1>1 DEF Request
<1> HIDE DEF p
<1>5. Good(p, n) /\ ~Writing(p)
  BY <1>1, <1>3, <1>4 DEF Good, Writing, client
<1> QED  BY <1>5 DEF p, client

-----------------------------------------------------------------------------
(* One lemma per kind of step *)

LEMMA Types ==
  ASSUME IInv
  PROVE  /\ lastId \in Nat /\ errors \in Nat
         /\ \A id \in Ids : Has(id) => id \in 1..lastId /\ authorities[id] \in Rows
         /\ \A r \in Requests : requests[r] \in Request /\ Good(requests[r], lastId)
  BY BoundsAssumption DEF IInv, Tables, AllGood, Good, NoneAbove, Has, Ids

LEMMA ErrorCounted ==
  ASSUME IInv, DatabaseError \/ UNCHANGED errors
  PROVE  errors' \in 0..MaxErrors
  BY BoundsAssumption DEF IInv, Tables, DatabaseError

\* A step of r that leaves the table alone and is not about to write.
LEMMA ReaderKeeps ==
  ASSUME IInv, NEW r \in Requests, NEW q, requests' = [requests EXCEPT ![r] = q],
         Good(q, lastId), ~Writing(q), UNCHANGED <<authorities, lastId>>,
         errors' \in 0..MaxErrors
  PROVE  IInv'
<1>1. \A s \in Requests : requests'[s] = IF s = r THEN q ELSE requests[s]
  BY DEF IInv, Tables
<1>2. Tables'
  BY DEF IInv, Tables
<1>3. AllGood'
  BY <1>1 DEF IInv, AllGood
<1>4. OneUUID'
  BY <1>1 DEF IInv, OneUUID, Has
<1>5. NoneAbove' /\ RowsAreWhole'
  BY DEF IInv, NoneAbove, RowsAreWhole, Has
<1> QED  BY <1>2, <1>3, <1>4, <1>5 DEF IInv

\* A step of r that answers, having stored a row under an id or removed it;
\* nobody else holds the id with another uuid.
LEMMA WriterKeeps ==
  ASSUME IInv, NEW r \in Requests, NEW code \in Answers, Answer(r, code),
         lastId' \in lastId..MaxIds, errors' \in 0..MaxErrors,
         NEW id \in 1..lastId', NEW row \in Rows \cup {None},
         authorities' = [authorities EXCEPT ![id] = row],
         row # None => /\ Whole(row)
                       /\ \A s \in Requests : Writing(requests[s]) /\ requests[s].id = id =>
                             requests[s].row.uuid = row.uuid
  PROVE  IInv'
<1> DEFINE q == Idle(code)
<1>a. /\ lastId \in Nat /\ lastId' \in Nat /\ lastId <= lastId' /\ id \in Ids
      /\ lastId' \in 0..MaxIds
  BY Types, BoundsAssumption DEF Ids
<1>b. Good(q, lastId') /\ ~Writing(q)
  BY <1>a, IdleGood
<1>1. \A s \in Requests : requests'[s] = IF s = r THEN q ELSE requests[s]
  BY DEF IInv, Tables, Answer
<1>2. \A i \in Ids : authorities'[i] = IF i = id THEN row ELSE authorities[i]
  BY DEF IInv, Tables
<1> HIDE DEF q
<1>3. Tables'
  <2>1. authorities' \in [Ids -> Rows \cup {None}]
    BY DEF IInv, Tables
  <2>2. DOMAIN requests' = Requests /\ requests' = [s \in Requests |-> requests'[s]]
    BY DEF IInv, Tables, Answer
  <2> QED  BY <1>a, <2>1, <2>2 DEF Tables
<1>4. AllGood'
  <2>1. \A s \in Requests : Good(requests[s], lastId')
    BY <1>a, GoodLater, Types
  <2> QED  BY <1>1, <1>b, <2>1 DEF AllGood
<1>5. NoneAbove'
  BY <1>2, <1>a DEF IInv, NoneAbove
<1>6. RowsAreWhole'
  BY <1>2 DEF IInv, RowsAreWhole, Has
<1>7. OneUUID'
  <2>1. ASSUME NEW s \in Requests, Writing(requests'[s])
        PROVE  /\ s # r /\ requests'[s] = requests[s] /\ requests[s].id \in Ids
               /\ requests[s].row \in Rows
    <3>1. s # r /\ requests'[s] = requests[s] /\ Writing(requests[s])
      BY <1>1, <1>b, <2>1
    <3> QED  BY <3>1, Types, BoundsAssumption DEF Writing, Good, IInv, Tables, Ids
  <2>2. ASSUME NEW s \in Requests, Writing(requests'[s]), authorities'[requests'[s].id] # None
        PROVE  authorities'[requests'[s].id].uuid = requests'[s].row.uuid
    BY <1>2, <2>1, <2>2 DEF IInv, OneUUID, Has
  <2>3. ASSUME NEW s \in Requests, NEW t \in Requests, Writing(requests'[s]),
               Writing(requests'[t]), requests'[s].id = requests'[t].id
        PROVE  requests'[s].row.uuid = requests'[t].row.uuid
    BY <2>1, <2>3 DEF IInv, OneUUID
  <2> QED  BY <2>2, <2>3 DEF OneUUID, Has
<1> QED  BY <1>3, <1>4, <1>5, <1>6, <1>7 DEF IInv

-----------------------------------------------------------------------------
(* The actions *)

LEMMA StartKeeps ==
  ASSUME IInv, NEW r \in Requests, Start(r)
  PROVE  IInv'
<1>1. ASSUME NEW op \in Operations, NEW pc \in {"find", "login"}, NEW k \in Keys \cup {None},
             NEW b \in Bodies \cup {None}, Begin(r, op, pc, k, b),
             IF pc = "login" THEN op = "create" /\ b \in Bodies
             ELSE op # "create" /\ (op = "update" => b \in Bodies)
      PROVE  IInv'
  <2> DEFINE q == [Idle("none") EXCEPT !.pc = pc, !.op = op, !.key = k, !.body = b]
  <2>1. Good(q, lastId) /\ ~Writing(q)
    BY <1>1, BeginGood, Types
  <2>2. requests' = [requests EXCEPT ![r] = q]
    BY <1>1 DEF Begin
  <2> HIDE DEF q
  <2> QED  BY <1>1, <2>1, <2>2, ReaderKeeps, ErrorCounted DEF Begin
<1>2. CASE CreateAuthorityInstance(r)
  BY <1>1, <1>2 DEF CreateAuthorityInstance, Operations
<1>3. CASE UpdateAuthorityInstance(r)
  BY <1>1, <1>3 DEF UpdateAuthorityInstance, Operations, Keys
<1>4. CASE RemoveAuthorityInstance(r)
  BY <1>1, <1>4 DEF RemoveAuthorityInstance, Operations, Keys
<1>5. CASE GetConnection(r)
  BY <1>1, <1>5 DEF GetConnection, Operations, Keys
<1>6. CASE RAProfileCallback(r)
  BY <1>1, <1>6 DEF RAProfileCallback, Operations
<1> QED  BY <1>2, <1>3, <1>4, <1>5, <1>6 DEF Start

LEMMA AnswerKeeps ==
  ASSUME IInv, NEW r \in Requests, NEW code \in Answers, Answer(r, code),
         UNCHANGED <<authorities, lastId>>, errors' \in 0..MaxErrors
  PROVE  IInv'
<1>1. Good(Idle(code), lastId) /\ ~Writing(Idle(code))
  BY IdleGood, Types
<1> QED  BY <1>1, ReaderKeeps DEF Answer

LEMMA LookupFailedKeeps ==
  ASSUME IInv, NEW r \in Requests, requests[r].pc \in {"find", "findByName"}, LookupFailed(r),
         UNCHANGED <<authorities, lastId>>, errors' \in 0..MaxErrors
  PROVE  IInv'
<1>1. CASE Answer(r, "204") \/ Answer(r, "404")
  BY <1>1, AnswerKeeps DEF Answers
<1>2. CASE requests[r].op = "callback" /\ Goto(r, "findByName")
  <2> DEFINE q == [requests[r] EXCEPT !.pc = "findByName"]
  <2>1. Good(q, lastId) /\ ~Writing(q)
    BY <1>2, ByNameGood, Types
  <2>2. requests' = [requests EXCEPT ![r] = q]
    BY <1>2 DEF Goto
  <2> HIDE DEF q
  <2> QED  BY <2>1, <2>2, ReaderKeeps
<1> QED  BY <1>1, <1>2 DEF LookupFailed

\* Who finds a row takes it with the uuid that everyone else has it with.
LEMMA TakenKeeps ==
  ASSUME IInv, NEW r \in Requests, NEW id \in Ids, Has(id),
         NEW q, Good(q, lastId), q.id = id, q.row = authorities[id],
         requests' = [requests EXCEPT ![r] = q], UNCHANGED <<authorities, lastId, errors>>
  PROVE  IInv'
<1>1. \A s \in Requests : requests'[s] = IF s = r THEN q ELSE requests[s]
  BY DEF IInv, Tables
<1>2. Tables' /\ NoneAbove' /\ RowsAreWhole'
  BY DEF IInv, Tables, NoneAbove, RowsAreWhole, Has
<1>3. AllGood'
  BY <1>1 DEF IInv, AllGood
<1>4. ASSUME NEW s \in Requests, Writing(requests'[s]), authorities[requests'[s].id] # None
      PROVE  authorities[requests'[s].id].uuid = requests'[s].row.uuid
  BY <1>1, <1>4 DEF IInv, OneUUID, Has
<1>5. ASSUME NEW s \in Requests, NEW t \in Requests, Writing(requests'[s]),
             Writing(requests'[t]), requests'[s].id = requests'[t].id
      PROVE  requests'[s].row.uuid = requests'[t].row.uuid
  <2>1. authorities[requests'[s].id] # None \/ (s # r /\ t # r)
    BY <1>1, <1>5 DEF Has
  <2>2. CASE s # r /\ t # r
    BY <1>1, <1>5, <2>2 DEF IInv, OneUUID
  <2> QED  BY <1>4, <1>5, <2>1, <2>2
<1>6. OneUUID'
  BY <1>4, <1>5 DEF OneUUID, Has
<1> QED  BY <1>2, <1>3, <1>6 DEF IInv

LEMMA FoundKeeps ==
  ASSUME IInv, NEW r \in Requests, requests[r].pc \in {"find", "findByName"},
         NEW id \in Ids, Has(id), UNCHANGED <<authorities, lastId, errors>>,
         requests' = [requests EXCEPT ![r].pc = AfterFind(requests[r].op),
                                      ![r].id = id, ![r].row = authorities[id]]
  PROVE  IInv'
<1>1. /\ lastId \in 0..MaxIds /\ Good(requests[r], lastId)
      /\ id \in 1..lastId /\ authorities[id] \in Rows
  BY Types DEF IInv, Tables
<1>2. requests' = [requests EXCEPT ![r] = Taken(requests[r], id, authorities[id])]
  BY Types DEF Request, Taken
<1>3. /\ Good(Taken(requests[r], id, authorities[id]), lastId)
      /\ Taken(requests[r], id, authorities[id]).id = id
      /\ Taken(requests[r], id, authorities[id]).row = authorities[id]
  BY <1>1, FoundGood
<1> QED  BY <1>2, <1>3, TakenKeeps

LEMMA ReadsKeep ==
  ASSUME IInv, NEW r \in Requests, Reads(r)
  PROVE  IInv'
<1>1. CASE Find(r)
  <2>1. \A id \in Matches(r) : id \in Ids /\ Has(id)
    BY DEF Matches, WithUUID, WithName
  <2>2. CASE Matches(r) = {}
    BY <1>1, <2>2, LookupFailedKeeps, ErrorCounted DEF Find
  <2>3. CASE Matches(r) # {}
    BY <1>1, <2>1, <2>3, FoundKeeps DEF Find
  <2> QED  BY <2>2, <2>3
<1>2. CASE FindFails(r)
  BY <1>2, LookupFailedKeeps, ErrorCounted DEF FindFails
<1> QED  BY <1>1, <1>2 DEF Reads

LEMMA LoginsKeep ==
  ASSUME IInv, NEW r \in Requests, Logins(r)
  PROVE  IInv'
<1>1. CASE Login(r)
  <2>1. Good(requests[r], lastId) /\ requests[r].pc = "login"
    BY <1>1, Types DEF Login, At
  <2>2. CASE requests[r].op = "create"
    <3> DEFINE client == getLoginMethod(CreatedRow(requests[r].body))
               q == [requests[r] EXCEPT !.pc = "insert", !.client = client]
    <3>1. LoginOf(r) = client /\ client # None
      BY <1>1, <2>2 DEF Login, LoginOf, HasClient
    <3>2. Good(q, lastId) /\ ~Writing(q)
      BY <2>1, <2>2, <3>1, LoggedInGood, Types
    <3>3. requests' = [requests EXCEPT ![r].pc = "insert", ![r].client = client]
      BY <1>1, <2>2, <3>1 DEF Login
    <3> HIDE DEF client
    <3>4. requests' = [requests EXCEPT ![r] = q]
      BY <3>3, Types DEF Request
    <3>5. UNCHANGED <<authorities, lastId, errors>>
      BY <1>1 DEF Login
    <3> HIDE DEF q
    <3> QED  BY <3>2, <3>4, <3>5, ReaderKeeps, ErrorCounted
  <2>3. CASE requests[r].op \in {"connect", "callback"}
    <3>1. Answer(r, "200") \/ Answer(r, "400")
      BY <1>1, <2>3 DEF Login
    <3>2. UNCHANGED <<authorities, lastId, errors>>
      BY <1>1 DEF Login
    <3> QED  BY <3>1, <3>2, AnswerKeeps, ErrorCounted DEF Answers
  <2> QED  BY <2>1, <2>2, <2>3 DEF Good
<1>2. CASE LoginRefused(r) \/ LoginPanics(r)
  <2>1. Answer(r, "500") \/ Answer(r, "400") \/ Answer(r, "panic")
    BY <1>2 DEF LoginRefused, LoginPanics
  <2>2. UNCHANGED <<authorities, lastId, errors>>
    BY <1>2 DEF LoginRefused, LoginPanics
  <2> QED  BY <2>1, <2>2, AnswerKeeps, ErrorCounted DEF Answers
<1> QED  BY <1>1, <1>2 DEF Logins

LEMMA InsertKeeps ==
  ASSUME IInv, NEW r \in Requests, Insert(r)
  PROVE  IInv'
<1> DEFINE id == lastId + 1
           row == CreatedRow(requests[r].body)
<1>1. /\ requests[r].body \in Bodies /\ lastId < MaxIds /\ lastId' = id
      /\ lastId' \in lastId..MaxIds /\ id \in 1..lastId'
  BY Types, BoundsAssumption DEF Insert, At, Good
<1>2. row \in Rows /\ Whole(row)
  BY <1>1, CreatedRowWhole
<1>3. \A s \in Requests : Writing(requests[s]) => requests[s].id # id
  BY Types DEF Good, Writing
<1>4. authorities[id] = None
  BY <1>1, Types, BoundsAssumption DEF IInv, NoneAbove, Ids
<1>5. errors' \in 0..MaxErrors
  BY ErrorCounted DEF Insert
<1>6. CASE authorities' = [authorities EXCEPT ![id] = row] /\ (Answer(r, "200") \/ Answer(r, "500"))
  <2> HIDE DEF row, id
  <2> QED  BY <1>1, <1>2, <1>3, <1>5, <1>6, WriterKeeps DEF Answers
<1>7. CASE UNCHANGED authorities /\ Answer(r, "500")
  <2>1. authorities' = [authorities EXCEPT ![id] = None]
    BY <1>4, <1>7 DEF IInv, Tables
  <2> HIDE DEF row, id
  <2> QED  BY <1>1, <1>5, <1>7, <2>1, WriterKeeps DEF Answers
<1>8. \/ authorities' = [authorities EXCEPT ![id] = row] /\ (Answer(r, "200") \/ Answer(r, "500"))
      \/ UNCHANGED authorities /\ Answer(r, "500")
  BY DEF Insert
<1> QED  BY <1>6, <1>7, <1>8

LEMMA SaveKeeps ==
  ASSUME IInv, NEW r \in Requests, Save(r)
  PROVE  IInv'
<1> DEFINE id == requests[r].id
           row == UpdatedRow(requests[r].row, requests[r].body)
<1>1. /\ Writing(requests[r]) /\ requests[r].body \in Bodies /\ requests[r].row \in Rows
      /\ id \in 1..lastId
  BY Types DEF Save, At, Good, Writing
<1>2. row \in Rows /\ Whole(row) /\ row.uuid = requests[r].row.uuid
  BY <1>1, UpdatedRowWhole
<1>3. \A s \in Requests : Writing(requests[s]) /\ requests[s].id = id =>
         requests[s].row.uuid = row.uuid
  BY <1>1, <1>2 DEF IInv, OneUUID
<1>4. lastId' = lastId /\ lastId' \in lastId..MaxIds /\ errors' \in 0..MaxErrors
  BY Types, ErrorCounted, BoundsAssumption DEF Save, IInv, Tables
<1>5. CASE authorities' = [authorities EXCEPT ![id] = row] /\ (Answer(r, "200") \/ Answer(r, "500"))
  <2> HIDE DEF row, id
  <2> QED  BY <1>1, <1>2, <1>3, <1>4, <1>5, WriterKeeps DEF Answers
<1>6. CASE UNCHANGED authorities /\ Answer(r, "500")
  BY <1>4, <1>6, AnswerKeeps DEF Answers
<1>7. \/ authorities' = [authorities EXCEPT ![id] = row] /\ (Answer(r, "200") \/ Answer(r, "500"))
      \/ UNCHANGED authorities /\ Answer(r, "500")
  BY DEF Save
<1> QED  BY <1>5, <1>6, <1>7

LEMMA DeleteKeeps ==
  ASSUME IInv, NEW r \in Requests, Delete(r)
  PROVE  IInv'
<1> DEFINE id == requests[r].id
<1>1. id \in 1..lastId
  BY Types DEF Delete, At, Good
<1>2. lastId' = lastId /\ lastId' \in lastId..MaxIds /\ errors' \in 0..MaxErrors
  BY Types, ErrorCounted, BoundsAssumption DEF Delete, IInv, Tables
<1>3. authorities' = [authorities EXCEPT ![id] = None]
  BY DEF Delete, Deleted, IInv, Tables
<1>4. Answer(r, "200") \/ Answer(r, "500")
  BY DEF Delete
<1> HIDE DEF id
<1> QED  BY <1>1, <1>2, <1>3, <1>4, WriterKeeps DEF Answers

LEMMA WritesKeep ==
  ASSUME IInv, NEW r \in Requests, Writes(r)
  PROVE  IInv'
<1>1. CASE InsertExhausted(r) \/ WriteFails(r)
  <2>1. Answer(r, "500") /\ UNCHANGED <<authorities, lastId>> /\ errors' \in 0..MaxErrors
    BY <1>1, ErrorCounted DEF InsertExhausted, WriteFails
  <2> QED  BY <2>1, AnswerKeeps DEF Answers
<1> QED  BY <1>1, InsertKeeps, SaveKeeps, DeleteKeeps DEF Writes

-----------------------------------------------------------------------------
(* The theorems *)

LEMMA InitHolds ==
  ASSUME Init
  PROVE  IInv
<1>1. \A r \in Requests : requests[r] = Idle("none")
  BY DEF Init
<1>2. AllGood
  BY <1>1, IdleGood DEF AllGood, Init, Answers
<1>3. OneUUID
  BY <1>1, IdleGood DEF OneUUID, Answers, Init
<1>4. Tables /\ NoneAbove /\ RowsAreWhole
  BY BoundsAssumption DEF Init, Tables, NoneAbove, RowsAreWhole, Has
<1> QED  BY <1>2, <1>3, <1>4 DEF IInv

LEMMA StepHolds ==
  ASSUME IInv, [Next]_vars
  PROVE  IInv'
<1>1. CASE UNCHANGED vars
  BY <1>1 DEF vars, IInv, Tables, AllGood, NoneAbove, OneUUID, RowsAreWhole, Has
<1>2. CASE Next
  BY <1>2, StartKeeps, ReadsKeep, LoginsKeep, WritesKeep DEF Next
<1> QED  BY <1>1, <1>2

\* The inductive invariant: what the handlers hold agrees with the table.
THEOREM Inductive == Spec => []IInv
<1>1. Init => IInv
  BY InitHolds
<1>2. IInv /\ [Next]_vars => IInv'
  BY StepHolds
<1> QED  BY <1>1, <1>2, PTL DEF Spec

\* Every variable keeps its type, and a handler at a write has what it writes.
THEOREM TypeCorrect == Spec => []TypeOK
<1>1. IInv => TypeOK
  BY DEF IInv, Tables, AllGood, Good, TypeOK
<1> QED  BY <1>1, Inductive, PTL

\* Every stored authority is the work of one request, and logs in as its
\* attributes say.
THEOREM WholeCorrect == Spec => []RowsAreWhole
<1>1. IInv => RowsAreWhole
  BY DEF IInv
<1> QED  BY <1>1, Inductive, PTL

\* What a step may do to the table, by the kind of step.
LEMMA TableSteps ==
  ASSUME IInv, [Next]_vars
  PROVE  \/ UNCHANGED authorities
         \/ \E r \in Requests : /\ requests[r].pc = "insert"
                               /\ authorities' = [authorities EXCEPT ![lastId + 1] =
                                                    CreatedRow(requests[r].body)]
         \/ \E r \in Requests : /\ requests[r].pc = "save"
                               /\ authorities' = [authorities EXCEPT ![requests[r].id] =
                                                    UpdatedRow(requests[r].row, requests[r].body)]
         \/ \E r \in Requests : /\ requests[r].pc = "delete"
                               /\ authorities' = [authorities EXCEPT ![requests[r].id] = None]
<1>1. CASE UNCHANGED vars
  BY <1>1 DEF vars
<1>2. ASSUME NEW r \in Requests, Start(r) PROVE UNCHANGED authorities
  BY <1>2 DEF Start, CreateAuthorityInstance, UpdateAuthorityInstance, RemoveAuthorityInstance,
     GetConnection, RAProfileCallback, Begin
<1>3. ASSUME NEW r \in Requests, Reads(r) \/ Logins(r) PROVE UNCHANGED authorities
  BY <1>3 DEF Reads, Find, FindFails, Logins, Login, LoginRefused, LoginPanics
<1>4. ASSUME NEW r \in Requests, Insert(r)
      PROVE  \/ UNCHANGED authorities
             \/ /\ requests[r].pc = "insert"
                /\ authorities' = [authorities EXCEPT ![lastId + 1] = CreatedRow(requests[r].body)]
  BY <1>4 DEF Insert, At
<1>5. ASSUME NEW r \in Requests, Save(r)
      PROVE  \/ UNCHANGED authorities
             \/ /\ requests[r].pc = "save"
                /\ authorities' = [authorities EXCEPT ![requests[r].id] =
                                      UpdatedRow(requests[r].row, requests[r].body)]
  BY <1>5 DEF Save, At
<1>6. ASSUME NEW r \in Requests, Delete(r)
      PROVE  /\ requests[r].pc = "delete"
             /\ authorities' = [authorities EXCEPT ![requests[r].id] = None]
  BY <1>6 DEF Delete, At, Deleted, IInv, Tables
<1>7. ASSUME NEW r \in Requests, InsertExhausted(r) \/ WriteFails(r) PROVE UNCHANGED authorities
  BY <1>7 DEF InsertExhausted, WriteFails
<1> QED  BY <1>1, <1>2, <1>3, <1>4, <1>5, <1>6, <1>7 DEF Next, Writes

\* A new row is stored by a request that has logged in with it.
THEOREM ConnectedCorrect == Spec => CreateStoresConnected
<1>1. ASSUME IInv, [Next]_vars, NEW i \in Ids, Fresh(i)
      PROVE  \E r \in Requests : /\ requests[r].client # None
                                /\ requests[r].client = getLoginMethod(authorities'[i])
  <2>1. i > lastId /\ authorities[i] = None /\ authorities'[i] # None
    BY <1>1 DEF Fresh, Has
  <2>2. ASSUME NEW r \in Requests, requests[r].pc = "insert",
               authorities' = [authorities EXCEPT ![lastId + 1] = CreatedRow(requests[r].body)]
        PROVE  /\ requests[r].client # None
               /\ requests[r].client = getLoginMethod(authorities'[i])
    BY <1>1, <2>1, <2>2, Types DEF Good, IInv, Tables
  <2>3. ASSUME NEW r \in Requests, Writing(requests[r]), NEW row,
               authorities' = [authorities EXCEPT ![requests[r].id] = row]
        PROVE  FALSE
    <3>1. requests[r].id \in 1..lastId
      BY <1>1, <2>3, Types DEF Good, Writing
    <3> QED  BY <1>1, <2>1, <2>3, <3>1, Types DEF IInv, Tables
  <2> QED  BY <1>1, <2>1, <2>2, <2>3, TableSteps DEF Writing
<1>2. IInv /\ [Next]_vars =>
        [\A id \in Ids : Fresh(id) =>
          \E r \in Requests : /\ requests[r].client # None
                             /\ requests[r].client = getLoginMethod(authorities'[id])]_vars
  BY <1>1
<1> QED  BY <1>2, Inductive, PTL DEF Spec, CreateStoresConnected, Fresh

\* A step changes only a row that the writing request has read, and never its
\* uuid.
THEOREM ReadRowsCorrect == Spec => OnlyReadRowsChange
<1> DEFINE Kept(i) ==
      (i <= lastId /\ authorities'[i] # authorities[i]) =>
         /\ \E r \in Requests : requests[r].id = i /\ requests[r].pc \in {"save", "delete"}
         /\ (Has(i) /\ Has(i)') => authorities'[i].uuid = authorities[i].uuid
<1>1. ASSUME IInv, [Next]_vars, NEW i \in Ids PROVE Kept(i)
  <2>1. ASSUME NEW r \in Requests, requests[r].pc = "insert",
               authorities' = [authorities EXCEPT ![lastId + 1] = CreatedRow(requests[r].body)]
        PROVE  Kept(i)
    BY <1>1, <2>1, Types DEF IInv, Tables, Ids
  <2>2. ASSUME NEW r \in Requests, requests[r].pc = "save",
               authorities' = [authorities EXCEPT ![requests[r].id] =
                                 UpdatedRow(requests[r].row, requests[r].body)]
        PROVE  Kept(i)
    <3>1. /\ requests[r].id \in 1..lastId /\ requests[r].row \in Rows
          /\ requests[r].body \in Bodies
      BY <1>1, <2>2, Types DEF Good
    <3>2. UpdatedRow(requests[r].row, requests[r].body).uuid = requests[r].row.uuid
      BY <3>1, UpdatedRowWhole
    <3>3. Has(requests[r].id) => authorities[requests[r].id].uuid = requests[r].row.uuid
      BY <1>1, <2>2 DEF IInv, OneUUID, Writing
    <3>4. authorities'[i] = IF i = requests[r].id
                            THEN UpdatedRow(requests[r].row, requests[r].body)
                            ELSE authorities[i]
      BY <1>1, <2>2 DEF IInv, Tables
    <3> QED  BY <2>2, <3>2, <3>3, <3>4 DEF Has
  <2>3. ASSUME NEW r \in Requests, requests[r].pc = "delete",
               authorities' = [authorities EXCEPT ![requests[r].id] = None]
        PROVE  Kept(i)
    BY <1>1, <2>3 DEF IInv, Tables, Has
  <2>4. CASE UNCHANGED authorities
    BY <2>4
  <2> QED  BY <1>1, <2>1, <2>2, <2>3, <2>4, TableSteps
<1>2. IInv /\ [Next]_vars =>
        [\A id \in Ids : (id <= lastId /\ authorities'[id] # authorities[id]) =>
          /\ \E r \in Requests : /\ requests[r].id = id
                                /\ requests[r].pc \in {"save", "delete"}
          /\ (Has(id) /\ Has(id)') => authorities'[id].uuid = authorities[id].uuid]_vars
  BY <1>1
<1> QED  BY <1>2, Inductive, PTL DEF Spec, OnlyReadRowsChange
=============================================================================
