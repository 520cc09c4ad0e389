-------------------------- MODULE DiscoveryProofs --------------------------
(***************************************************************************)
(* Proofs about the discovery service, for any names, serials, clients and *)
(* bounds.                                                                 *)
(***************************************************************************)
EXTENDS DiscoveryService, FiniteSetTheorems, TLAPS

-----------------------------------------------------------------------------
(* Changing one field of a worker or of a request keeps its type. *)

LEMMA WorkerWith ==
  ASSUME NEW w \in Worker
  PROVE  /\ \A pc \in PCs : [w EXCEPT !.pc = pc] \in Worker
         /\ \A n \in 0 .. MaxEngines : [w EXCEPT !.engines = n] \in Worker
         /\ \A b \in SUBSET Serials : [w EXCEPT !.batch = b] \in Worker
         /\ \A t \in SUBSET Serials : [w EXCEPT !.todo = t] \in Worker
         /\ \A s \in Serials \cup {NoSerial} : [w EXCEPT !.cur = s] \in Worker
         /\ \A m \in SUBSET Serials : [w EXCEPT !.mem = m] \in Worker
         /\ \A u \in SUBSET Serials : [w EXCEPT !.unsaved = u] \in Worker
  BY DEF Worker

LEMMA RequestWith ==
  ASSUME NEW r \in Request
  PROVE  /\ \A op \in Ops : [r EXCEPT !.op = op] \in Request
         /\ \A id \in 0 .. MaxDiscoveries : [r EXCEPT !.id = id] \in Request
         /\ \A st \in Statuses : [r EXCEPT !.seen = st] \in Request
         /\ \A n \in Nat : [r EXCEPT !.total = n] \in Request
         /\ \A s \in SUBSET Serials : [r EXCEPT !.rows = s] \in Request
         /\ \A a \in Answers : [r EXCEPT !.answer = a] \in Request
  BY DEF Request

LEMMA NoWorkerType ==
  ASSUME NEW name \in Names
  PROVE  NoWorker(name) \in Worker
  BY EnginesAssumption DEF NoWorker, Worker, PCs

LEMMA NoRequestType == NoRequest \in Request
  BY BoundsAssumption DEF NoRequest, Request, Ops, Statuses, Answers

LEMMA GotoType ==
  ASSUME NEW id \in Ids, NEW w \in Worker, worker \in [Ids -> Worker], Goto(id, w)
  PROVE  worker' \in [Ids -> Worker]
  BY DEF Goto

LEMMA ProceedType ==
  ASSUME NEW c \in Clients, NEW r \in Request, request \in [Clients -> Request],
         Proceed(c, r)
  PROVE  request' \in [Clients -> Request]
  BY DEF Proceed

LEMMA ReplyType ==
  ASSUME NEW c \in Clients, NEW r \in Request, NEW answer \in Answers,
         request \in [Clients -> Request], Reply(c, r, answer)
  PROVE  request' \in [Clients -> Request]
<1>1. [r EXCEPT !.op = "answered"] \in Request
  BY RequestWith DEF Ops
<1>2. [[r EXCEPT !.op = "answered"] EXCEPT !.answer = answer] \in Request
  BY <1>1, RequestWith
<1>. QED
  BY <1>2 DEF Reply

-----------------------------------------------------------------------------
(* Types: the tables under each operation of the repository. *)

LEMMA LinkType ==
  ASSUME RepositoryTypeOK, NEW id \in Ids, NEW certs \in SUBSET Serials, Link(id, certs)
  PROVE  /\ certificates' \subseteq Serials
         /\ discovery_certificates' \subseteq Ids \X Serials
  BY DEF RepositoryTypeOK, Link

LEMMA RowType ==
  ASSUME NEW name \in Names, NEW status \in Statuses
  PROVE  [name |-> name, status |-> status] \in Row
  BY DEF Row

LEMMA SaveType ==
  ASSUME RepositoryTypeOK, NEW id \in Ids, NEW name \in Names, NEW status \in Statuses,
         NEW certs \in SUBSET Serials, SaveDiscovery(id, name, status, certs)
  PROVE  /\ discoveries' \in [Ids -> Row \cup {NoRow}]
         /\ certificates' \subseteq Serials
         /\ discovery_certificates' \subseteq Ids \X Serials
<1>1. Link(id, certs)
  BY DEF SaveDiscovery
<1>2. discoveries' \in [Ids -> Row \cup {NoRow}]
  BY RowType DEF SaveDiscovery, RepositoryTypeOK
<1>. QED
  BY <1>1, <1>2, LinkType

LEMMA InsertType ==
  ASSUME RepositoryTypeOK, NEW name \in Names, NEW status \in Statuses,
         nextId \in Ids, nextId' = nextId + 1,
         discoveries' = [discoveries EXCEPT ![nextId] = [name |-> name, status |-> status]]
  PROVE  /\ discoveries' \in [Ids -> Row \cup {NoRow}]
         /\ nextId' \in 1 .. MaxDiscoveries + 1
  BY RowType, BoundsAssumption DEF RepositoryTypeOK, Ids

LEMMA TransportErrorType ==
  ASSUME RepositoryTypeOK, TransportError
  PROVE  dbErrors' \in 0 .. MaxDbErrors
  BY BoundsAssumption DEF RepositoryTypeOK, TransportError

LEMMA JoinedType == \A id : Joined(id) \in SUBSET Serials
  BY DEF Joined

-----------------------------------------------------------------------------
(* Every variable keeps its type. *)

LEMMA TypeInit == Init => TypeOK
<1>. SUFFICES ASSUME Init PROVE TypeOK
  OBVIOUS
<1>1. worker \in [Ids -> Worker]
  BY NoWorkerType, NamesAssumption DEF Init
<1>2. request \in [Clients -> Request]
  BY NoRequestType DEF Init
<1>3. RepositoryTypeOK
  BY BoundsAssumption DEF Init, RepositoryInit, RepositoryTypeOK, Ids
<1>. QED
  BY <1>1, <1>2, <1>3, EnginesAssumption DEF Init, TypeOK

LEMMA DiscoverType ==
  ASSUME TypeOK, NEW name \in Names,
         \/ DiscoverCertificate(name)
         \/ DiscoverCertificateRefused(name)
         \/ DiscoverCertificateUnanswered(name)
  PROVE  TypeOK'
<1>1. CASE DiscoverCertificate(name)
  <2>1. PICK n \in 0 .. MaxEngines :
          worker' = [worker EXCEPT ![nextId] =
                       [NoWorker(name) EXCEPT !.pc = "login", !.engines = n]]
    BY <1>1 DEF DiscoverCertificate
  <2>2. [NoWorker(name) EXCEPT !.pc = "login"] \in Worker
    BY NoWorkerType, WorkerWith DEF PCs, Running
  <2>3. [[NoWorker(name) EXCEPT !.pc = "login"] EXCEPT !.engines = n] \in Worker
    BY <2>2, WorkerWith
  <2>4. worker' \in [Ids -> Worker]
    BY <2>1, <2>3 DEF TypeOK
  <2>5. RepositoryTypeOK'
    BY <1>1, InsertType
       DEF DiscoverCertificate, InsertDiscovery, TypeOK, RepositoryTypeOK, Statuses
  <2>. QED
    BY <1>1, <2>4, <2>5 DEF DiscoverCertificate, TypeOK
<1>2. CASE DiscoverCertificateRefused(name)
  <2>1. RepositoryTypeOK'
    BY <1>2, InsertType
       DEF DiscoverCertificateRefused, InsertDiscovery, TypeOK, RepositoryTypeOK, Statuses
  <2>. QED
    BY <1>2, <2>1 DEF DiscoverCertificateRefused, TypeOK
<1>3. CASE DiscoverCertificateUnanswered(name)
  <2>1. RepositoryTypeOK'
    BY <1>3, InsertType, TransportErrorType
       DEF DiscoverCertificateUnanswered, TypeOK, RepositoryTypeOK, Statuses
  <2>. QED
    BY <1>3, <2>1 DEF DiscoverCertificateUnanswered, TypeOK
<1>. QED
  BY <1>1, <1>2, <1>3

LEMMA SaveStatusType ==
  ASSUME TypeOK, NEW id \in Ids, NEW status \in Statuses,
         NEW onSuccess \in PCs, NEW onError \in PCs,
         SaveStatus(id, status, onSuccess, onError)
  PROVE  TypeOK'
<1>. DEFINE w == worker[id]
<1>1. w \in Worker
  BY DEF TypeOK
<1>2. w.name \in Names /\ w.mem \in SUBSET Serials
  BY <1>1 DEF Worker
<1>3. /\ [w EXCEPT !.pc = onSuccess] \in Worker
      /\ [w EXCEPT !.pc = onError] \in Worker
  BY <1>1, WorkerWith
<1>4. worker' \in [Ids -> Worker]
  BY <1>3, GotoType DEF SaveStatus, TypeOK
<1>5. \/ UNCHANGED tables
      \/ SaveDiscovery(id, w.name, status, w.mem)
  BY DEF SaveStatus, tables
<1>6. dbErrors' \in 0 .. MaxDbErrors
  BY TransportErrorType DEF SaveStatus, TypeOK, RepositoryTypeOK
<1>7. RepositoryTypeOK'
  BY <1>2, <1>5, <1>6, SaveType DEF SaveStatus, WorkerFrame, TypeOK, RepositoryTypeOK, tables
<1>. QED
  BY <1>4, <1>7 DEF SaveStatus, WorkerFrame, TypeOK

LEMMA WorkerType ==
  ASSUME TypeOK, NEW id \in Ids, WorkerStep(id),
         worker[id].pc = "insert" => worker[id].cur # NoSerial
  PROVE  TypeOK'
<1>. DEFINE w == worker[id]
<1>1. w \in Worker
  BY DEF TypeOK
<1>2. /\ w.engines \in 0 .. MaxEngines
      /\ w.batch \in SUBSET Serials
      /\ w.todo \in SUBSET Serials
      /\ w.cur \in Serials \cup {NoSerial}
      /\ w.mem \in SUBSET Serials
      /\ w.unsaved \in SUBSET Serials
  BY <1>1 DEF Worker
<1>3. \A pc \in Running : [w EXCEPT !.pc = pc] \in Worker
  BY <1>1, WorkerWith DEF PCs
<1>4. CASE Login(id)
  <2>1. worker' \in [Ids -> Worker]
    BY <1>3, <1>4, GotoType DEF Login, TypeOK, Running
  <2>. QED
    BY <1>4, <2>1 DEF Login, TypeOK, WorkerFrame, tables, RepositoryTypeOK
<1>5. CASE ListCerts(id)
  <2>1. ASSUME NEW keys \in SUBSET Serials
        PROVE  [[[w EXCEPT !.pc = "read"] EXCEPT !.batch = keys]
                  EXCEPT !.engines = EnginesAfter(w)] \in Worker
    <3>1. EnginesAfter(w) \in 0 .. MaxEngines
      <4>1. w.engines > 0
        BY <1>5 DEF ListCerts, EnginesLeft
      <4>. HIDE DEF w
      <4>. QED
        BY <1>2, <4>1, EnginesAssumption DEF EnginesAfter
    <3>2. [w EXCEPT !.pc = "read"] \in Worker
      BY <1>3 DEF Running
    <3>3. [[w EXCEPT !.pc = "read"] EXCEPT !.batch = keys] \in Worker
      BY <3>2, WorkerWith
    <3>. QED
      BY <3>1, <3>3, WorkerWith
  <2>2. [w EXCEPT !.pc = "fail"] \in Worker
    BY <1>3 DEF Running
  <2>3. worker' \in [Ids -> Worker]
    BY <1>5, <2>1, <2>2, GotoType DEF ListCerts, TypeOK
  <2>4. listed' \in [Ids -> SUBSET Serials]
    BY <1>5 DEF ListCerts, TypeOK
  <2>. QED
    BY <1>5, <2>3, <2>4 DEF ListCerts, TypeOK, WorkerFrame, tables, RepositoryTypeOK
<1>6. CASE ReadCerts(id)
  <2>1. [[w EXCEPT !.pc = "store"] EXCEPT !.todo = w.batch] \in Worker
    <3>1. [w EXCEPT !.pc = "store"] \in Worker
      BY <1>3 DEF Running
    <3>. QED
      BY <1>2, <3>1, WorkerWith
  <2>2. [[w EXCEPT !.pc = "fail"] EXCEPT !.batch = {}] \in Worker
    <3>1. [w EXCEPT !.pc = "fail"] \in Worker
      BY <1>3 DEF Running
    <3>. QED
      BY <3>1, WorkerWith
  <2>3. worker' \in [Ids -> Worker]
    BY <1>6, <2>1, <2>2, GotoType DEF ReadCerts, TypeOK
  <2>. QED
    BY <1>6, <2>3 DEF ReadCerts, TypeOK, WorkerFrame, tables, RepositoryTypeOK
<1>7. CASE FindCertificate(id)
  <2>1. PICK s \in w.todo :
          \/ Goto(id, [w EXCEPT !.todo = @ \ {s}]) /\ UNCHANGED dbErrors
          \/ Goto(id, [w EXCEPT !.pc = "insert", !.cur = s]) /\ UNCHANGED dbErrors
          \/ /\ TransportError
             /\ Goto(id, [w EXCEPT !.todo = @ \ {s}, !.unsaved = @ \cup {s}])
    BY <1>7 DEF FindCertificate
  <2>2. s \in Serials
    BY <1>2
  <2>3. [w EXCEPT !.todo = w.todo \ {s}] \in Worker
    BY <1>1, <1>2, WorkerWith
  <2>4. [[w EXCEPT !.todo = w.todo \ {s}] EXCEPT !.unsaved = w.unsaved \cup {s}] \in Worker
    BY <1>2, <2>2, <2>3, WorkerWith
  <2>5. [[w EXCEPT !.pc = "insert"] EXCEPT !.cur = s] \in Worker
    <3>1. [w EXCEPT !.pc = "insert"] \in Worker
      BY <1>3 DEF Running
    <3>. QED
      BY <2>2, <3>1, WorkerWith
  <2>6. worker' \in [Ids -> Worker]
    BY <2>1, <2>3, <2>4, <2>5, GotoType DEF TypeOK
  <2>7. dbErrors' \in 0 .. MaxDbErrors
    BY <2>1, TransportErrorType DEF TypeOK, RepositoryTypeOK
  <2>. QED
    BY <1>7, <2>6, <2>7 DEF FindCertificate, TypeOK, WorkerFrame, tables, RepositoryTypeOK
<1>8. CASE CreateCertificate(id)
  <2>. DEFINE stored == [w EXCEPT !.pc = "store", !.todo = @ \ {w.cur}, !.cur = NoSerial]
              notStored == [stored EXCEPT !.unsaved = @ \cup {w.cur}]
  <2>1. stored \in Worker
    <3>1. [w EXCEPT !.pc = "store"] \in Worker
      BY <1>3 DEF Running
    <3>2. [[w EXCEPT !.pc = "store"] EXCEPT !.todo = w.todo \ {w.cur}] \in Worker
      BY <1>2, <3>1, WorkerWith
    <3>. QED
      BY <3>2, WorkerWith
  <2>2. ASSUME w.cur # NoSerial PROVE notStored \in Worker
    <3>1. /\ stored.unsaved = w.unsaved
          /\ w.unsaved \cup {w.cur} \in SUBSET Serials
      BY <1>1, <1>2, <2>2 DEF Worker
    <3>. HIDE DEF stored
    <3>. QED
      BY <2>1, <3>1, WorkerWith
  <2>3. w.cur # NoSerial
    BY <1>8 DEF CreateCertificate
  <2>4. worker' \in [Ids -> Worker]
    <3>1. Goto(id, stored) \/ Goto(id, notStored)
      BY <1>8 DEF CreateCertificate
    <3>. HIDE DEF stored, notStored
    <3>. QED
      BY <2>1, <2>2, <2>3, <3>1, GotoType DEF TypeOK
  <2>5. dbErrors' \in 0 .. MaxDbErrors
    BY <1>8, TransportErrorType DEF CreateCertificate, TypeOK, RepositoryTypeOK
  <2>6. InsertCertificate(w.cur) \/ UNCHANGED tables
    BY <1>8 DEF CreateCertificate
  <2>. QED
    BY <1>2, <1>8, <2>3, <2>4, <2>5, <2>6
       DEF CreateCertificate, InsertCertificate, TypeOK, WorkerFrame, tables, RepositoryTypeOK
<1>9. CASE AppendBatch(id)
  <2>. DEFINE certs == w.mem \cup w.batch
              appended == [w EXCEPT !.pc = "engine", !.mem = certs, !.batch = {},
                                    !.unsaved = {}]
              failed == [w EXCEPT !.pc = "fail", !.mem = certs, !.batch = {}]
              lost == [failed EXCEPT !.unsaved = {}]
  <2>1. certs \in SUBSET Serials
    BY <1>2
  <2>2. failed \in Worker
    <3>1. [w EXCEPT !.pc = "fail"] \in Worker
      BY <1>3 DEF Running
    <3>2. [[w EXCEPT !.pc = "fail"] EXCEPT !.mem = certs] \in Worker
      BY <2>1, <3>1, WorkerWith
    <3>. QED
      BY <3>2, WorkerWith
  <2>3. lost \in Worker
    <3>. HIDE DEF failed
    <3>. QED
      BY <2>2, WorkerWith
  <2>4. appended \in Worker
    <3>1. [w EXCEPT !.pc = "engine"] \in Worker
      BY <1>3 DEF Running
    <3>2. [[w EXCEPT !.pc = "engine"] EXCEPT !.mem = certs] \in Worker
      BY <2>1, <3>1, WorkerWith
    <3>3. [[[w EXCEPT !.pc = "engine"] EXCEPT !.mem = certs] EXCEPT !.batch = {}] \in Worker
      BY <3>2, WorkerWith
    <3>. QED
      BY <3>3, WorkerWith
  <2>5. worker' \in [Ids -> Worker]
    <3>1. Goto(id, appended) \/ Goto(id, failed) \/ Goto(id, lost)
      BY <1>9 DEF AppendBatch
    <3>. HIDE DEF appended, failed, lost
    <3>. QED
      BY <2>2, <2>3, <2>4, <3>1, GotoType DEF TypeOK
  <2>6. dbErrors' \in 0 .. MaxDbErrors
    BY <1>9, TransportErrorType DEF AppendBatch, TypeOK, RepositoryTypeOK
  <2>7. AppendCertificates(id, certs) \/ UNCHANGED tables
    BY <1>9 DEF AppendBatch
  <2>. QED
    BY <1>9, <2>1, <2>5, <2>6, <2>7, LinkType
       DEF AppendBatch, AppendCertificates, TypeOK, WorkerFrame, tables, RepositoryTypeOK
<1>10. CASE Complete(id)
  BY <1>10, SaveStatusType DEF Complete, Statuses, PCs, Running
<1>11. CASE FailDiscovery(id)
  BY <1>11, SaveStatusType DEF FailDiscovery, Statuses, PCs, Running
<1>. QED
  BY <1>4, <1>5, <1>6, <1>7, <1>8, <1>9, <1>10, <1>11 DEF WorkerStep

LEMMA ClientType ==
  ASSUME TypeOK, NEW c \in Clients, ClientStep(c),
         request[c].op = "delete" => request[c].id \in Ids
  PROVE  TypeOK'
<1>. DEFINE r == request[c]
<1>1. r \in Request
  BY DEF TypeOK
<1>2. ASSUME NEW id \in Ids, GetFind(c, id) PROVE TypeOK'
  <2>. DEFINE seen == [NoRequest EXCEPT !.id = id, !.seen = discoveries[id].status]
  <2>1. discoveries[id].status \in Statuses
    BY <1>2 DEF GetFind, Exists, TypeOK, RepositoryTypeOK, Row
  <2>2. [NoRequest EXCEPT !.id = id] \in Request
    BY NoRequestType, RequestWith, BoundsAssumption DEF Ids
  <2>3. seen \in Request
    BY <2>1, <2>2, RequestWith
  <2>4. [seen EXCEPT !.op = "count"] \in Request
    <3>. HIDE DEF seen
    <3>. QED
      BY <2>3, RequestWith DEF Ops
  <2>5. request' \in [Clients -> Request]
    <3>1. Reply(c, seen, "inProgress") \/ Proceed(c, [seen EXCEPT !.op = "count"])
      BY <1>2 DEF GetFind
    <3>. HIDE DEF seen
    <3>. QED
      BY <2>3, <2>4, <3>1, ReplyType, ProceedType DEF TypeOK, Answers
  <2>. QED
    BY <1>2, <2>5 DEF GetFind, TypeOK, ClientFrame, tables, RepositoryTypeOK
<1>3. CASE GetCount(c)
  <2>1. dbErrors' \in 0 .. MaxDbErrors
    BY <1>3, TransportErrorType DEF GetCount, TypeOK, RepositoryTypeOK
  <2>2. Cardinality(Joined(r.id)) \in Nat
    BY JoinedType, SerialsAssumption, FS_Subset, FS_CardinalityType
  <2>3. /\ [r EXCEPT !.op = "page"] \in Request
        /\ [[r EXCEPT !.op = "page"] EXCEPT !.total = Cardinality(Joined(r.id))] \in Request
    <3>1. [r EXCEPT !.op = "page"] \in Request
      BY <1>1, RequestWith DEF Ops
    <3>. QED
      BY <2>2, <3>1, RequestWith
  <2>4. request' \in [Clients -> Request]
    <3>1. \/ Reply(c, r, "completed")
          \/ Proceed(c, [r EXCEPT !.op = "page", !.total = Cardinality(Joined(r.id))])
      BY <1>3 DEF GetCount
    <3>. QED
      BY <1>1, <2>3, <3>1, ReplyType, ProceedType DEF TypeOK, Answers
  <2>. QED
    BY <1>3, <2>1, <2>4 DEF GetCount, TypeOK, ClientFrame, tables, RepositoryTypeOK
<1>3a. CASE GetFirst(c)
  <2>1. dbErrors' \in 0 .. MaxDbErrors
    BY <1>3a, TransportErrorType DEF GetFirst, TypeOK, RepositoryTypeOK
  <2>2. [r EXCEPT !.op = "rows"] \in Request
    BY <1>1, RequestWith DEF Ops
  <2>3. request' \in [Clients -> Request]
    <3>1. Proceed(c, [r EXCEPT !.op = "rows"]) \/ Reply(c, r, "panic")
      BY <1>3a DEF GetFirst
    <3>. QED
      BY <1>1, <2>2, <3>1, ReplyType, ProceedType DEF TypeOK, Answers
  <2>. QED
    BY <1>3a, <2>1, <2>3 DEF GetFirst, TypeOK, ClientFrame, tables, RepositoryTypeOK
<1>4. CASE GetPage(c)
  <2>1. dbErrors' \in 0 .. MaxDbErrors
    BY <1>4, TransportErrorType DEF GetPage, TypeOK, RepositoryTypeOK
  <2>2. [r EXCEPT !.rows = Joined(r.id)] \in Request
    BY <1>1, JoinedType, RequestWith
  <2>3. request' \in [Clients -> Request]
    <3>1. \/ Reply(c, [r EXCEPT !.rows = Joined(r.id)], "completed")
          \/ Reply(c, r, "panic")
      BY <1>4 DEF GetPage
    <3>. QED
      BY <1>1, <2>2, <3>1, ReplyType DEF TypeOK, Answers
  <2>. QED
    BY <1>4, <2>1, <2>3 DEF GetPage, TypeOK, ClientFrame, tables, RepositoryTypeOK
<1>5. ASSUME NEW id \in Ids, DeleteFind(c, id) PROVE TypeOK'
  <2>1. [NoRequest EXCEPT !.op = "clear"] \in Request
    BY NoRequestType, RequestWith DEF Ops
  <2>2. [[NoRequest EXCEPT !.op = "clear"] EXCEPT !.id = id] \in Request
    <3>1. id \in 0 .. MaxDiscoveries
      BY BoundsAssumption DEF Ids
    <3>. QED
      BY <2>1, <3>1, RequestWith
  <2>3. request' \in [Clients -> Request]
    BY <1>5, <2>2, ProceedType DEF DeleteFind, TypeOK
  <2>. QED
    BY <1>5, <2>3 DEF DeleteFind, TypeOK, ClientFrame, tables, RepositoryTypeOK
<1>6. CASE DeleteClear(c)
  <2>1. [r EXCEPT !.op = "delete"] \in Request
    BY <1>1, RequestWith DEF Ops
  <2>2. [[r EXCEPT !.op = "delete"] EXCEPT !.rows = Joined(r.id)] \in Request
    BY <2>1, JoinedType, RequestWith
  <2>3. request' \in [Clients -> Request]
    BY <1>6, <2>2, ProceedType DEF DeleteClear, TypeOK
  <2>. QED
    BY <1>6, <2>3 DEF DeleteClear, TypeOK, ClientFrame, tables, RepositoryTypeOK
<1>7. CASE DeleteCommit(c)
  <2>1. dbErrors' \in 0 .. MaxDbErrors
    BY <1>7, TransportErrorType DEF DeleteCommit, TypeOK, RepositoryTypeOK
  <2>2. request' \in [Clients -> Request]
    <3>1. Reply(c, r, "deleted") \/ Reply(c, r, "conflict")
      BY <1>7 DEF DeleteCommit
    <3>. QED
      BY <1>1, <3>1, ReplyType DEF TypeOK, Answers
  <2>3. deleted' \subseteq Ids
    BY <1>7 DEF DeleteCommit, TypeOK
  <2>4. RemoveDiscovery(r.id) \/ UNCHANGED tables
    BY <1>7 DEF DeleteCommit
  <2>. QED
    BY <1>7, <2>1, <2>2, <2>3, <2>4
       DEF DeleteCommit, RemoveDiscovery, TypeOK, ClientFrame, tables, RepositoryTypeOK
<1>. QED
  BY <1>2, <1>3, <1>3a, <1>4, <1>5, <1>6, <1>7 DEF ClientStep

LEMMA CrashType == TypeOK /\ Crash => TypeOK'
<1>. SUFFICES ASSUME TypeOK, Crash PROVE TypeOK'
  OBVIOUS
<1>1. \A id \in Ids : [worker[id] EXCEPT !.pc = "dead"] \in Worker
  BY WorkerWith DEF TypeOK, PCs
<1>2. worker' \in [Ids -> Worker]
  BY <1>1 DEF Crash, TypeOK
<1>3. request' \in [Clients -> Request]
  BY NoRequestType DEF Crash
<1>. QED
  BY <1>2, <1>3, EnginesAssumption DEF Crash, TypeOK, tables, RepositoryTypeOK

-----------------------------------------------------------------------------
(* The inductive invariant.  A step that leaves a discovery alone keeps    *)
(* what the invariant says of it, so each action is looked at only for the *)
(* discovery it acts on.                                                   *)

Untouched(id) ==
  /\ worker'[id] = worker[id]
  /\ discoveries'[id] = discoveries[id]
  /\ Joined(id)' = Joined(id)
  /\ listed'[id] = listed[id]
  /\ id \in deleted' <=> id \in deleted

Grows ==
  /\ nextId' \in Nat /\ nextId' >= nextId
  /\ dbErrors' \in Nat /\ dbErrors' >= dbErrors
  /\ certificates \subseteq certificates'

LEMMA Elsewhere ==
  ASSUME TypeOK, Grows, NEW id \in Ids, IdInv(id), Untouched(id)
  PROVE  IdInv(id)'
<1>. USE DEF Untouched, Grows, Exists, Status
<1>1. nextId \in Nat /\ dbErrors \in Nat /\ id \in Nat
  BY BoundsAssumption DEF TypeOK, RepositoryTypeOK, Ids
<1>2. InsertsACertificate(id)' /\ NoRowNoLinks(id)' /\ MemoryIsListed(id)'
  BY DEF IdInv, InsertsACertificate, NoRowNoLinks, MemoryIsListed
<1>3. FreshIsUnused(id)'
  BY <1>1 DEF IdInv, FreshIsUnused
<1>4. RowMirrorsMemory(id)' /\ FailedIsSettled(id)' /\ DeletedIsEmpty(id)'
  BY DEF IdInv, RowMirrorsMemory, FailedIsSettled, DeletedIsEmpty
<1>5. CompletedIsSettled(id)'
  BY <1>1 DEF IdInv, CompletedIsSettled
<1>6. OnlyConflictStrands(id)'
  BY <1>1 DEF IdInv, OnlyConflictStrands, LinksAccepted
<1>. QED
  BY <1>2, <1>3, <1>4, <1>5, <1>6 DEF IdInv

(* What the operations of the repository do to one discovery. *)

LEMMA LinkJoined ==
  ASSUME TypeOK, NEW id \in Ids, NEW certs \in SUBSET Serials, Link(id, certs)
  PROVE  /\ Joined(id)' = Joined(id) \cup certs
         /\ \A j \in Ids \ {id} : Joined(j)' = Joined(j)
         /\ certificates \subseteq certificates'
  BY DEF Link, Joined, TypeOK, RepositoryTypeOK

LEMMA TablesJoined ==
  ASSUME UNCHANGED discovery_certificates
  PROVE  \A id : Joined(id)' = Joined(id)
  BY DEF Joined

LEMMA ErrorsGrow ==
  ASSUME TypeOK, TransportError \/ UNCHANGED dbErrors
  PROVE  /\ dbErrors' \in Nat /\ dbErrors' >= dbErrors
         /\ TransportError => dbErrors' > 0
  BY BoundsAssumption DEF TypeOK, RepositoryTypeOK, TransportError

LEMMA GotoWorker ==
  ASSUME TypeOK, NEW id \in Ids, NEW w, Goto(id, w)
  PROVE  worker'[id] = w /\ \A j \in Ids \ {id} : worker'[j] = worker[j]
  BY DEF Goto, TypeOK

LEMMA InvInit == Init => IInv
<1>. SUFFICES ASSUME Init PROVE IInv
  OBVIOUS
<1>1. RequestsKnownIds
  BY DEF Init, RequestsKnownIds, NoRequest
<1>2. ASSUME NEW id \in Ids PROVE IdInv(id)
  <2>1. /\ worker[id].pc = "none"
        /\ ~Exists(id) /\ Joined(id) = {} /\ listed[id] = {} /\ id \notin deleted
    BY DEF Init, RepositoryInit, NoWorker, Exists, Joined
  <2>. QED
    BY <2>1 DEF IdInv, InsertsACertificate, FreshIsUnused, NoRowNoLinks, MemoryIsListed,
       RowMirrorsMemory, CompletedIsSettled, FailedIsSettled, DeletedIsEmpty,
       OnlyConflictStrands, Status, Running
<1>. QED
  BY <1>1, <1>2, TypeInit DEF IInv

(* A worker's step that writes neither a discovery nor a join row: what is *)
(* left to show relates its new memory to listed.                          *)
LEMMA QuietStep ==
  ASSUME IInv, NEW id \in Ids, NEW w, Goto(id, w), WorkerFrame,
         UNCHANGED <<discoveries, discovery_certificates>>, certificates \subseteq certificates',
         TransportError \/ UNCHANGED dbErrors,
         worker[id].pc \in Running \ {"fail"},
         w.pc \in Running,
         w.pc = "insert" => w.cur # NoSerial,
         w.mem = worker[id].mem,
         \A j \in Ids \ {id} : listed'[j] = listed[j],
         w.pc \in {"login", "engine"} => w.mem = listed'[id],
         w.pc \in {"read", "store", "insert"} => w.mem \cup w.batch = listed'[id]
  PROVE  \A j \in Ids : IdInv(j)'
<1>1. /\ worker'[id] = w
      /\ \A j \in Ids \ {id} : worker'[j] = worker[j]
  BY GotoWorker DEF IInv
<1>2. \A j \in Ids : Joined(j)' = Joined(j)
  BY TablesJoined
<1>3. Grows
  BY ErrorsGrow DEF Grows, WorkerFrame, IInv, TypeOK, RepositoryTypeOK
<1>4. ASSUME NEW j \in Ids \ {id} PROVE IdInv(j)'
  <2>1. Untouched(j)
    BY <1>1, <1>2 DEF Untouched, WorkerFrame
  <2>. QED
    BY <1>3, <2>1, Elsewhere DEF IInv
<1>5. IdInv(id)'
  <2>1. /\ IdInv(id)
        /\ discoveries'[id] = discoveries[id] /\ Joined(id)' = Joined(id)
        /\ deleted' = deleted /\ nextId' = nextId
    BY <1>2 DEF IInv, WorkerFrame
  <2>2. InsertsACertificate(id)' /\ NoRowNoLinks(id)' /\ MemoryIsListed(id)'
    BY <1>1, <2>1 DEF IdInv, InsertsACertificate, NoRowNoLinks, MemoryIsListed, Exists, Running
  <2>3. FreshIsUnused(id)'
    BY <1>1, <2>1 DEF IdInv, FreshIsUnused, Exists, Running
  <2>4. RowMirrorsMemory(id)'
    BY <1>1, <2>1 DEF IdInv, RowMirrorsMemory, Exists, Status
  <2>5. CompletedIsSettled(id)' /\ FailedIsSettled(id)'
    BY <2>1 DEF IdInv, RowMirrorsMemory, Exists, Status, CompletedIsSettled, FailedIsSettled
  <2>6. DeletedIsEmpty(id)'
    BY <1>1, <2>1 DEF IdInv, DeletedIsEmpty, Exists, Running, Settled
  <2>7. OnlyConflictStrands(id)'
    BY <1>1 DEF OnlyConflictStrands, Running
  <2>. QED
    BY <2>2, <2>3, <2>4, <2>5, <2>6, <2>7 DEF IdInv
<1>. QED
  BY <1>4, <1>5

LEMMA LoginInv ==
  ASSUME IInv, NEW id \in Ids, Login(id)
  PROVE  \A j \in Ids : IdInv(j)'
<1>. DEFINE w == worker[id]
<1>1. w \in Worker /\ IdInv(id)
  BY DEF IInv, TypeOK
<1>2. PICK pc \in {"engine", "fail"} : Goto(id, [w EXCEPT !.pc = pc])
  BY DEF Login
<1>. DEFINE v == [w EXCEPT !.pc = pc]
<1>3. v.pc = pc /\ v.mem = w.mem
  BY <1>1 DEF Worker
<1>4. /\ w.pc = "login" /\ w.mem = listed[id]
      /\ WorkerFrame /\ UNCHANGED <<tables, dbErrors, listed>>
  BY <1>1 DEF Login, IdInv, MemoryIsListed
<1>5. Goto(id, v)
  BY <1>2
<1>. HIDE DEF v
<1>. QED
  BY <1>3, <1>4, <1>5, QuietStep DEF tables, Running

LEMMA ListCertsInv ==
  ASSUME IInv, NEW id \in Ids, ListCerts(id)
  PROVE  \A j \in Ids : IdInv(j)'
<1>. DEFINE w == worker[id]
<1>1. /\ w \in Worker /\ IdInv(id)
      /\ listed \in [Ids -> SUBSET Serials]
  BY DEF IInv, TypeOK
<1>2. /\ w.pc = "engine" /\ w.mem = listed[id]
      /\ WorkerFrame /\ UNCHANGED <<tables, dbErrors>>
  BY <1>1 DEF ListCerts, IdInv, MemoryIsListed
<1>3. ASSUME NEW keys \in SUBSET Serials,
             Goto(id, [w EXCEPT !.pc = "read", !.batch = keys, !.engines = EnginesAfter(w)]),
             listed' = [listed EXCEPT ![id] = @ \cup keys]
      PROVE  \A j \in Ids : IdInv(j)'
  <2>. DEFINE v == [w EXCEPT !.pc = "read", !.batch = keys, !.engines = EnginesAfter(w)]
  <2>1. v.pc = "read" /\ v.mem = w.mem /\ v.batch = keys
    BY <1>1 DEF Worker
  <2>2. /\ listed'[id] = listed[id] \cup keys
        /\ \A j \in Ids \ {id} : listed'[j] = listed[j]
    BY <1>1, <1>3
  <2>3. Goto(id, v)
    BY <1>3
  <2>. HIDE DEF v
  <2>. QED
    BY <1>2, <2>1, <2>2, <2>3, QuietStep DEF tables, Running
<1>4. ASSUME Goto(id, [w EXCEPT !.pc = "fail"]), UNCHANGED listed
      PROVE  \A j \in Ids : IdInv(j)'
  <2>. DEFINE v == [w EXCEPT !.pc = "fail"]
  <2>1. v.pc = "fail" /\ v.mem = w.mem
    BY <1>1 DEF Worker
  <2>2. Goto(id, v)
    BY <1>4
  <2>. HIDE DEF v
  <2>. QED
    BY <1>2, <1>4, <2>1, <2>2, QuietStep DEF tables, Running
<1>. QED
  BY <1>3, <1>4 DEF ListCerts

LEMMA ReadCertsInv ==
  ASSUME IInv, NEW id \in Ids, ReadCerts(id)
  PROVE  \A j \in Ids : IdInv(j)'
<1>. DEFINE w == worker[id]
            read == [w EXCEPT !.pc = "store", !.todo = w.batch]
            failed == [w EXCEPT !.pc = "fail", !.batch = {}]
<1>1. w \in Worker /\ IdInv(id)
  BY DEF IInv, TypeOK
<1>2. /\ w.pc = "read" /\ w.mem \cup w.batch = listed[id]
      /\ WorkerFrame /\ UNCHANGED <<tables, dbErrors, listed>>
      /\ Goto(id, read) \/ Goto(id, failed)
  BY <1>1 DEF ReadCerts, IdInv, MemoryIsListed
<1>3. /\ read.pc = "store" /\ read.mem = w.mem /\ read.batch = w.batch
      /\ failed.pc = "fail" /\ failed.mem = w.mem
  BY <1>1 DEF Worker
<1>. HIDE DEF read, failed
<1>4. CASE Goto(id, read)
  BY <1>2, <1>3, <1>4, QuietStep DEF tables, Running
<1>5. CASE Goto(id, failed)
  BY <1>2, <1>3, <1>5, QuietStep DEF tables, Running
<1>. QED
  BY <1>2, <1>4, <1>5

LEMMA FindCertificateInv ==
  ASSUME IInv, NEW id \in Ids, FindCertificate(id)
  PROVE  \A j \in Ids : IdInv(j)'
<1>. DEFINE w == worker[id]
<1>1. w \in Worker /\ IdInv(id)
  BY DEF IInv, TypeOK
<1>2. PICK s \in w.todo :
        \/ Goto(id, [w EXCEPT !.todo = @ \ {s}]) /\ UNCHANGED dbErrors
        \/ Goto(id, [w EXCEPT !.pc = "insert", !.cur = s]) /\ UNCHANGED dbErrors
        \/ /\ TransportError
           /\ Goto(id, [w EXCEPT !.todo = @ \ {s}, !.unsaved = @ \cup {s}])
  BY DEF FindCertificate
<1>. DEFINE found == [w EXCEPT !.todo = @ \ {s}]
            absent == [w EXCEPT !.pc = "insert", !.cur = s]
            unknown == [w EXCEPT !.todo = @ \ {s}, !.unsaved = @ \cup {s}]
<1>3. /\ w.pc = "store" /\ w.mem \cup w.batch = listed[id]
      /\ WorkerFrame /\ UNCHANGED <<tables, listed>>
  BY <1>1 DEF FindCertificate, IdInv, MemoryIsListed
<1>4. s # NoSerial
  BY <1>1, NoSerialAssumption DEF Worker
<1>5. /\ found.pc = "store" /\ found.mem = w.mem /\ found.batch = w.batch
      /\ unknown.pc = "store" /\ unknown.mem = w.mem /\ unknown.batch = w.batch
      /\ absent.pc = "insert" /\ absent.cur = s
      /\ absent.mem = w.mem /\ absent.batch = w.batch
  BY <1>1, <1>3 DEF Worker
<1>6. \/ Goto(id, found) /\ UNCHANGED dbErrors
      \/ Goto(id, absent) /\ UNCHANGED dbErrors
      \/ TransportError /\ Goto(id, unknown)
  BY <1>2
<1>. HIDE DEF found, absent, unknown
<1>7. CASE Goto(id, found) /\ UNCHANGED dbErrors
  BY <1>3, <1>5, <1>7, QuietStep DEF tables, Running
<1>8. CASE Goto(id, absent) /\ UNCHANGED dbErrors
  BY <1>3, <1>4, <1>5, <1>8, QuietStep DEF tables, Running
<1>9. CASE TransportError /\ Goto(id, unknown)
  BY <1>3, <1>5, <1>9, QuietStep DEF tables, Running
<1>. QED
  BY <1>6, <1>7, <1>8, <1>9

LEMMA CreateCertificateInv ==
  ASSUME IInv, NEW id \in Ids, CreateCertificate(id)
  PROVE  \A j \in Ids : IdInv(j)'
<1>. DEFINE w == worker[id]
            stored == [w EXCEPT !.pc = "store", !.todo = @ \ {w.cur}, !.cur = NoSerial]
            notStored == [stored EXCEPT !.unsaved = @ \cup {w.cur}]
<1>1. w \in Worker /\ IdInv(id)
  BY DEF IInv, TypeOK
<1>2. /\ w.pc = "insert" /\ w.mem \cup w.batch = listed[id]
      /\ WorkerFrame /\ UNCHANGED listed
      /\ UNCHANGED <<discoveries, discovery_certificates>>
      /\ certificates \subseteq certificates'
      /\ TransportError \/ UNCHANGED dbErrors
      /\ Goto(id, stored) \/ Goto(id, notStored)
  BY <1>1 DEF CreateCertificate, IdInv, MemoryIsListed, InsertCertificate, tables
<1>3. /\ stored.pc = "store" /\ stored.mem = w.mem /\ stored.batch = w.batch
      /\ notStored.pc = "store" /\ notStored.mem = w.mem /\ notStored.batch = w.batch
  BY <1>1 DEF Worker
<1>. HIDE DEF stored, notStored
<1>4. CASE Goto(id, stored)
  BY <1>2, <1>3, <1>4, QuietStep DEF Running
<1>5. CASE Goto(id, notStored)
  BY <1>2, <1>3, <1>5, QuietStep DEF Running
<1>. QED
  BY <1>2, <1>4, <1>5

(* A worker that gives up, or appends, with its row unchanged and its      *)
(* certificates linked, or not, when it has a row.                         *)
LEMMA AppendBatchInv ==
  ASSUME IInv, NEW id \in Ids, AppendBatch(id)
  PROVE  \A j \in Ids : IdInv(j)'
<1>. DEFINE w == worker[id]
            certs == w.mem \cup w.batch
            appended == [w EXCEPT !.pc = "engine", !.mem = certs, !.batch = {}, !.unsaved = {}]
            failed == [w EXCEPT !.pc = "fail", !.mem = certs, !.batch = {}]
            lost == [failed EXCEPT !.unsaved = {}]
<1>1. w \in Worker /\ IdInv(id) /\ TypeOK
  BY DEF IInv, TypeOK
<1>2. certs \in SUBSET Serials
  BY <1>1 DEF Worker
<1>3. /\ w.pc = "store" /\ certs = listed[id]
      /\ WorkerFrame /\ UNCHANGED <<listed, discoveries>>
      /\ TransportError \/ UNCHANGED dbErrors
      /\ \/ Exists(id) /\ Link(id, certs)
         \/ UNCHANGED <<certificates, discovery_certificates>>
      /\ \/ Goto(id, appended) /\ Exists(id) /\ Link(id, certs)
         \/ Goto(id, failed)
         \/ Goto(id, lost)
  BY <1>1 DEF AppendBatch, AppendAccepted, AppendCertificates, IdInv, MemoryIsListed, tables
<1>4. /\ appended.pc = "engine" /\ appended.mem = certs
      /\ failed.pc = "fail" /\ lost.pc = "fail"
  BY <1>1 DEF Worker
<1>. HIDE DEF appended, failed, lost, certs
<1>5. /\ \A j \in Ids \ {id} : worker'[j] = worker[j] /\ Joined(j)' = Joined(j)
      /\ \/ Exists(id) /\ Joined(id)' = Joined(id) \cup certs
         \/ Joined(id)' = Joined(id)
      /\ \/ worker'[id] = appended /\ Exists(id) /\ Joined(id)' = Joined(id) \cup certs
         \/ worker'[id] = failed
         \/ worker'[id] = lost
      /\ certificates \subseteq certificates'
  BY <1>1, <1>2, <1>3, GotoWorker, LinkJoined, TablesJoined
<1>6. Grows
  BY <1>1, <1>3, <1>5, ErrorsGrow DEF Grows, WorkerFrame, TypeOK, RepositoryTypeOK
<1>7. ASSUME NEW j \in Ids \ {id} PROVE IdInv(j)'
  BY <1>3, <1>5, <1>6, Elsewhere DEF IInv, Untouched, WorkerFrame
<1>8. IdInv(id)'
  <2>1. deleted' = deleted /\ nextId' = nextId
    BY <1>3 DEF WorkerFrame
  <2>2. worker[id].pc \in Running \ {"fail"} /\ worker[id].pc \notin Settled
    BY <1>3 DEF Running, Settled
  <2>3. InsertsACertificate(id)' /\ OnlyConflictStrands(id)'
    BY <1>4, <1>5 DEF InsertsACertificate, OnlyConflictStrands
  <2>4. FreshIsUnused(id)'
    BY <1>1, <1>3, <2>1 DEF IdInv, FreshIsUnused
  <2>5. NoRowNoLinks(id)'
    BY <1>1, <1>3, <1>5 DEF IdInv, NoRowNoLinks, Exists
  <2>6. MemoryIsListed(id)'
    BY <1>3, <1>4, <1>5 DEF MemoryIsListed
  <2>7. Exists(id) => Status(id, "inProgress") /\ Joined(id) = w.mem
    BY <1>1, <2>2 DEF IdInv, RowMirrorsMemory
  <2>8. RowMirrorsMemory(id)'
    BY <1>3, <1>4, <1>5, <2>7 DEF RowMirrorsMemory, Exists, Status, certs
  <2>9. CompletedIsSettled(id)' /\ FailedIsSettled(id)'
    BY <1>3, <2>7 DEF CompletedIsSettled, FailedIsSettled, Exists, Status
  <2>10. DeletedIsEmpty(id)'
    <3>1. id \in deleted => ~Exists(id) /\ Joined(id) = {}
      BY <1>1, <2>2 DEF IdInv, DeletedIsEmpty
    <3>. QED
      BY <1>3, <1>5, <2>1, <3>1 DEF DeletedIsEmpty, Exists
  <2>. QED
    BY <2>3, <2>4, <2>5, <2>6, <2>8, <2>9, <2>10 DEF IdInv
<1>. QED
  BY <1>7, <1>8

(* The Save of a discovery: onError is failDiscovery, or the end.          *)
LEMMA SaveStatusInv ==
  ASSUME IInv, NEW id \in Ids, NEW status, NEW onError,
         SaveStatus(id, status, "done", onError),
         \/ /\ status = "COMPLETED" /\ onError = "fail"
            /\ worker[id].pc = "engine"
         \/ /\ status = "FAILED" /\ onError = "done"
            /\ worker[id].pc = "fail"
  PROVE  \A j \in Ids : IdInv(j)'
<1>. DEFINE w == worker[id]
            succeeded == [w EXCEPT !.pc = "done"]
            failed == [w EXCEPT !.pc = onError]
<1>1. w \in Worker /\ IdInv(id) /\ TypeOK
  BY DEF IInv, TypeOK
<1>2. w.mem \in SUBSET Serials
  BY <1>1 DEF Worker
<1>3. /\ WorkerFrame /\ UNCHANGED listed
      /\ \/ /\ SaveAccepted(id, w.name, w.mem, w.unsaved)
            /\ SaveDiscovery(id, w.name, status, w.mem)
            /\ \/ Goto(id, succeeded) /\ UNCHANGED dbErrors
               \/ Goto(id, failed) /\ TransportError
         \/ /\ UNCHANGED tables
            /\ Goto(id, failed)
            /\ \/ UNCHANGED dbErrors /\ ~SaveAccepted(id, w.name, w.mem, w.unsaved)
               \/ TransportError
  BY DEF SaveStatus
<1>4. /\ succeeded.pc = "done" /\ succeeded.mem = w.mem /\ succeeded.unsaved = w.unsaved
      /\ failed.pc = onError /\ failed.mem = w.mem /\ failed.unsaved = w.unsaved
  BY <1>1 DEF Worker
<1>. HIDE DEF succeeded, failed
<1>5. \A j \in Ids \ {id} :
        /\ worker'[j] = worker[j]
        /\ discoveries'[j] = discoveries[j]
        /\ Joined(j)' = Joined(j)
  BY <1>1, <1>2, <1>3, GotoWorker, LinkJoined, TablesJoined
     DEF SaveDiscovery, tables, TypeOK, RepositoryTypeOK
<1>6. Grows
  BY <1>1, <1>2, <1>3, ErrorsGrow, LinkJoined
     DEF Grows, WorkerFrame, SaveDiscovery, tables, TypeOK, RepositoryTypeOK
<1>7. ASSUME NEW j \in Ids \ {id} PROVE IdInv(j)'
  BY <1>3, <1>5, <1>6, Elsewhere DEF IInv, Untouched, WorkerFrame
<1>8. /\ deleted' = deleted /\ nextId' = nextId /\ listed' = listed
      /\ id < nextId
      /\ dbErrors \in Nat
  BY <1>1, <1>3, BoundsAssumption
     DEF WorkerFrame, IdInv, FreshIsUnused, TypeOK, RepositoryTypeOK, Ids
<1>9. CASE /\ SaveAccepted(id, w.name, w.mem, w.unsaved)
           /\ SaveDiscovery(id, w.name, status, w.mem)
           /\ \/ Goto(id, succeeded) /\ UNCHANGED dbErrors
              \/ Goto(id, failed) /\ TransportError
  <2>1. /\ Exists(id)' /\ Status(id, status)'
        /\ discoveries'[id].status = status
    <3>1. discoveries'[id] = [name |-> w.name, status |-> status]
      BY <1>1, <1>9 DEF SaveDiscovery, TypeOK, RepositoryTypeOK
    <3>2. [name |-> w.name, status |-> status] \in Row
      BY <1>1 DEF Row, Worker, Statuses
    <3>. QED
      BY <3>1, <3>2, NoRowAssumption DEF Exists, Status
  <2>2. Joined(id)' = Joined(id) \cup w.mem
    BY <1>1, <1>2, <1>9, LinkJoined DEF SaveDiscovery
  <2>3. ~Exists(id) => Joined(id) = {} /\ w.mem = {}
    BY <1>1, <1>9 DEF IdInv, NoRowNoLinks, SaveAccepted
  <2>4. \/ worker'[id] = succeeded /\ UNCHANGED dbErrors
        \/ worker'[id] = failed /\ dbErrors' > 0
    BY <1>1, <1>9, GotoWorker, ErrorsGrow
  <2>5. worker'[id].pc \in {"done", "fail"} /\ worker'[id].mem = w.mem
    BY <1>4, <2>4
  <2>6. InsertsACertificate(id)' /\ MemoryIsListed(id)'
    BY <2>5 DEF InsertsACertificate, MemoryIsListed
  <2>7. FreshIsUnused(id)' /\ NoRowNoLinks(id)' /\ RowMirrorsMemory(id)'
    BY <1>8, <1>1, <2>1, <2>5
       DEF FreshIsUnused, NoRowNoLinks, RowMirrorsMemory, TypeOK, RepositoryTypeOK, Ids, Running
  <2>8. OnlyConflictStrands(id)'
    BY <2>1 DEF OnlyConflictStrands, Status
  <2>9. CompletedIsSettled(id)'
    <3>1. CASE status = "COMPLETED"
      <4>1. w.mem = listed[id]
        BY <1>1, <3>1 DEF IdInv, MemoryIsListed
      <4>2. Exists(id) => Joined(id) = w.mem
        BY <1>1, <3>1 DEF IdInv, RowMirrorsMemory, Running
      <4>3. Joined(id)' = listed'[id]
        BY <1>8, <2>2, <2>3, <4>1, <4>2
      <4>. QED
        BY <1>4, <2>4, <4>3 DEF CompletedIsSettled, Settled
    <3>2. CASE status = "FAILED"
      BY <2>1, <3>2 DEF CompletedIsSettled, Status
    <3>. QED
      BY <3>1, <3>2
  <2>10. FailedIsSettled(id)'
    BY <1>4, <2>1, <2>4 DEF FailedIsSettled, Status, Settled
  <2>11. DeletedIsEmpty(id)'
    <3>1. ASSUME id \in deleted PROVE Joined(id)' = {} /\ w.mem = {}
      <4>1. Exists(id) => w.pc = "fail" /\ w.mem = {}
        BY <1>1, <3>1 DEF IdInv, DeletedIsEmpty, Settled
      <4>2. Joined(id) = {}
        BY <1>1, <3>1 DEF IdInv, DeletedIsEmpty
      <4>. QED
        BY <2>2, <2>3, <4>1, <4>2
    <3>. QED
      BY <1>8, <2>5, <3>1 DEF DeletedIsEmpty, Settled
  <2>. QED
    <3>1. IdInv(id)'
      BY <2>6, <2>7, <2>8, <2>9, <2>10, <2>11 DEF IdInv
    <3>. QED
      BY <1>7, <3>1
<1>10. CASE /\ UNCHANGED tables
            /\ Goto(id, failed)
            /\ \/ UNCHANGED dbErrors /\ ~SaveAccepted(id, w.name, w.mem, w.unsaved)
               \/ TransportError
  <2>1. /\ worker'[id] = failed
        /\ discoveries' = discoveries /\ certificates' = certificates
        /\ Joined(id)' = Joined(id)
    BY <1>1, <1>10, GotoWorker, TablesJoined DEF tables
  <2>2. InsertsACertificate(id)' /\ MemoryIsListed(id)'
    BY <1>4, <2>1 DEF InsertsACertificate, MemoryIsListed
  <2>3. FreshIsUnused(id)' /\ NoRowNoLinks(id)' /\ RowMirrorsMemory(id)'
    BY <1>1, <1>4, <1>8, <2>1
       DEF IdInv, FreshIsUnused, NoRowNoLinks, RowMirrorsMemory, TypeOK, RepositoryTypeOK,
           Ids, Running, Exists
  <2>4. CompletedIsSettled(id)' /\ FailedIsSettled(id)'
    <3>1. Status(id, "COMPLETED") => onError = "done" /\ Joined(id) = listed[id]
      BY <1>1 DEF IdInv, CompletedIsSettled, RowMirrorsMemory, Running, Status
    <3>2. ~Status(id, "FAILED")
      BY <1>1 DEF IdInv, FailedIsSettled, Settled
    <3>. QED
      BY <1>4, <1>8, <2>1, <3>1, <3>2
         DEF CompletedIsSettled, FailedIsSettled, Status, Exists, Settled
  <2>5. DeletedIsEmpty(id)'
    BY <1>1, <1>4, <1>8, <2>1 DEF IdInv, DeletedIsEmpty, Exists, Settled
  <2>6. OnlyConflictStrands(id)'
    <3>1. CASE TransportError
      BY <1>1, <3>1, ErrorsGrow DEF OnlyConflictStrands
    <3>2. CASE Status(id, "inProgress") /\ ~SaveAccepted(id, w.name, w.mem, w.unsaved)
      BY <1>4, <2>1, <3>2 DEF OnlyConflictStrands, SaveAccepted, Status, LinksAccepted
    <3>3. CASE ~Status(id, "inProgress")
      BY <2>1, <3>3 DEF OnlyConflictStrands, Status, Exists
    <3>. QED
      BY <1>10, <3>1, <3>2, <3>3
  <2>. QED
    <3>1. IdInv(id)'
      BY <2>2, <2>3, <2>4, <2>5, <2>6 DEF IdInv
    <3>. QED
      BY <1>7, <3>1
<1>. QED
  BY <1>3, <1>9, <1>10

LEMMA WorkerInv ==
  ASSUME IInv, NEW id \in Ids, WorkerStep(id)
  PROVE  \A j \in Ids : IdInv(j)'
<1>1. CASE Complete(id)
  BY <1>1, SaveStatusInv DEF Complete
<1>2. CASE FailDiscovery(id)
  BY <1>2, SaveStatusInv DEF FailDiscovery
<1>. QED
  BY <1>1, <1>2, LoginInv, ListCertsInv, ReadCertsInv, FindCertificateInv,
     CreateCertificateInv, AppendBatchInv DEF WorkerStep

(* A new row, with a worker when it is inProgress and was answered.        *)
LEMMA DiscoverInv ==
  ASSUME IInv, NEW name \in Names,
         \/ DiscoverCertificate(name)
         \/ DiscoverCertificateRefused(name)
         \/ DiscoverCertificateUnanswered(name)
  PROVE  \A j \in Ids : IdInv(j)'
<1>1. /\ nextId \in Ids /\ nextId' = nextId + 1
      /\ TypeOK /\ IdInv(nextId)
      /\ TransportError \/ UNCHANGED dbErrors
      /\ UNCHANGED <<certificates, discovery_certificates, listed, deleted>>
  BY DEF IInv, DiscoverCertificate, DiscoverCertificateRefused,
         DiscoverCertificateUnanswered, InsertDiscovery
<1>2. PICK status \in {"inProgress", "FAILED"} :
        /\ discoveries' = [discoveries EXCEPT ![nextId] =
                             [name |-> name, status |-> status]]
        /\ \/ UNCHANGED worker
           \/ /\ status = "inProgress"
              /\ \E n \in 0 .. MaxEngines :
                   worker' = [worker EXCEPT ![nextId] =
                                [NoWorker(name) EXCEPT !.pc = "login", !.engines = n]]
  BY DEF DiscoverCertificate, DiscoverCertificateRefused,
         DiscoverCertificateUnanswered, InsertDiscovery
<1>3. /\ ~Exists(nextId) /\ worker[nextId].pc = "none" /\ nextId \notin deleted
      /\ listed[nextId] = {} /\ Joined(nextId) = {}
  BY <1>1 DEF IdInv, FreshIsUnused, MemoryIsListed, NoRowNoLinks, TypeOK, RepositoryTypeOK
<1>4. \/ worker'[nextId] = worker[nextId]
      \/ /\ status = "inProgress"
         /\ worker'[nextId].pc = "login" /\ worker'[nextId].mem = {}
  BY <1>1, <1>2 DEF NoWorker, TypeOK
<1>5. /\ \A id : Joined(id)' = Joined(id)
      /\ \A j \in Ids \ {nextId} :
           worker'[j] = worker[j] /\ discoveries'[j] = discoveries[j]
  BY <1>1, <1>2, TablesJoined DEF TypeOK, RepositoryTypeOK
<1>6. Grows
  BY <1>1, ErrorsGrow DEF Grows, TypeOK, RepositoryTypeOK, Ids
<1>7. ASSUME NEW j \in Ids \ {nextId} PROVE IdInv(j)'
  BY <1>1, <1>5, <1>6, Elsewhere DEF IInv, Untouched
<1>8. discoveries'[nextId].status = status /\ discoveries'[nextId] # NoRow
  <2>1. [name |-> name, status |-> status] \in Row
    BY DEF Row, Statuses
  <2>2. discoveries'[nextId] = [name |-> name, status |-> status]
    BY <1>1, <1>2 DEF TypeOK, RepositoryTypeOK
  <2>. QED
    BY <2>1, <2>2, NoRowAssumption
<1>9. ASSUME NEW id \in Ids, id = nextId PROVE IdInv(id)'
  <2>1. /\ worker'[id].pc \in {"none", "login"}
        /\ worker'[id].pc = "login" => status = "inProgress" /\ worker'[id].mem = {}
    BY <1>3, <1>4, <1>9
  <2>2. listed'[id] = {} /\ Joined(id)' = {} /\ id \notin deleted' /\ id < nextId'
    BY <1>1, <1>3, <1>5, <1>9, BoundsAssumption DEF Ids
  <2>3. /\ Status(id, status)'
        /\ ~Status(id, "COMPLETED")'
        /\ status = "inProgress" => ~Status(id, "FAILED")'
    BY <1>8, <1>9 DEF Status, Exists
  <2>4. InsertsACertificate(id)' /\ MemoryIsListed(id)' /\ OnlyConflictStrands(id)'
    BY <2>1, <2>2 DEF InsertsACertificate, MemoryIsListed, OnlyConflictStrands
  <2>5. FreshIsUnused(id)' /\ NoRowNoLinks(id)' /\ DeletedIsEmpty(id)'
    BY <1>1, <2>2 DEF FreshIsUnused, NoRowNoLinks, DeletedIsEmpty, Ids
  <2>6. RowMirrorsMemory(id)' /\ CompletedIsSettled(id)' /\ FailedIsSettled(id)'
    BY <2>1, <2>2, <2>3
       DEF RowMirrorsMemory, CompletedIsSettled, FailedIsSettled, Running, Settled
  <2>. QED
    BY <2>4, <2>5, <2>6 DEF IdInv
<1>. QED
  BY <1>7, <1>9

(* Only the last step of a delete touches a discovery.                     *)
LEMMA ClientInv ==
  ASSUME IInv, NEW c \in Clients, ClientStep(c)
  PROVE  \A j \in Ids : IdInv(j)'
<1>. DEFINE r == request[c]
<1>1. /\ ClientFrame /\ TypeOK
      /\ TransportError \/ UNCHANGED dbErrors
      /\ \/ UNCHANGED <<tables, deleted>>
         \/ /\ r.op = "delete"
            /\ RemoveDiscovery(r.id)
            /\ deleted' = deleted \cup {r.id}
  BY DEF IInv, ClientStep, GetFind, GetCount, GetFirst, GetPage, DeleteFind, DeleteClear,
         DeleteCommit
<1>2. Grows
  BY <1>1, ErrorsGrow
     DEF Grows, ClientFrame, tables, RemoveDiscovery, TypeOK, RepositoryTypeOK
<1>3. CASE UNCHANGED <<tables, deleted>>
  BY <1>1, <1>2, <1>3, Elsewhere, TablesJoined DEF IInv, Untouched, ClientFrame, tables
<1>4. ASSUME NEW id, r.op = "delete", id = r.id,
             RemoveDiscovery(id), deleted' = deleted \cup {id}
      PROVE  \A j \in Ids : IdInv(j)'
  <2>1. id \in 1 .. nextId - 1
    BY <1>4 DEF IInv, RequestsKnownIds
  <2>2. id \in Ids /\ id < nextId
    BY <1>1, <2>1, BoundsAssumption DEF TypeOK, RepositoryTypeOK, Ids
  <2>3. /\ ~Exists(id)' /\ Joined(id)' = {}
        /\ \A j \in Ids \ {id} :
             discoveries'[j] = discoveries[j] /\ Joined(j)' = Joined(j)
    <3>1. /\ discoveries'[id] = NoRow
          /\ \A j \in Ids \ {id} : discoveries'[j] = discoveries[j]
      BY <1>1, <1>4, <2>2 DEF RemoveDiscovery, TypeOK, RepositoryTypeOK
    <3>2. /\ Joined(id)' = {}
          /\ \A j \in Ids \ {id} : Joined(j)' = Joined(j)
      BY <1>4 DEF RemoveDiscovery, Joined
    <3>. QED
      BY <3>1, <3>2 DEF Exists
  <2>4. ASSUME NEW j \in Ids \ {id} PROVE IdInv(j)'
    BY <1>1, <1>2, <1>4, <2>3, Elsewhere DEF IInv, Untouched, ClientFrame
  <2>5. IdInv(id)'
    <3>1. worker' = worker /\ listed' = listed /\ nextId' = nextId
      BY <1>1 DEF ClientFrame
    <3>2. FreshIsUnused(id)'
      BY <1>1, <2>2, <3>1 DEF FreshIsUnused, TypeOK, RepositoryTypeOK, Ids
    <3>3. InsertsACertificate(id)' /\ MemoryIsListed(id)'
      BY <2>2, <3>1 DEF IInv, IdInv, InsertsACertificate, MemoryIsListed
    <3>. QED
      BY <2>3, <3>1, <3>2, <3>3
         DEF IdInv, NoRowNoLinks, RowMirrorsMemory, CompletedIsSettled, FailedIsSettled,
             DeletedIsEmpty, OnlyConflictStrands, Status
  <2>. QED
    BY <2>4, <2>5
<1>. QED
  BY <1>1, <1>3, <1>4

(* A crash ends the workers and leaves the tables.                         *)
LEMMA CrashInv ==
  ASSUME IInv, Crash
  PROVE  \A j \in Ids : IdInv(j)'
<1>. SUFFICES ASSUME NEW id \in Ids PROVE IdInv(id)'
  OBVIOUS
<1>1. IdInv(id) /\ TypeOK
  BY DEF IInv
<1>2. /\ UNCHANGED <<discoveries, certificates, nextId, dbErrors, listed, deleted>>
      /\ Joined(id)' = Joined(id)
  BY TablesJoined DEF Crash, tables
<1>3. \/ worker'[id] = worker[id]
      \/ worker[id].pc \in Running /\ worker'[id].pc = "dead"
  BY <1>1 DEF Crash, Live, TypeOK, Worker
<1>4. CASE worker'[id] = worker[id]
  BY <1>1, <1>2, <1>4, Elsewhere DEF Untouched, Grows, TypeOK, RepositoryTypeOK
<1>5. CASE worker[id].pc \in Running /\ worker'[id].pc = "dead"
  <2>1. worker[id].pc # "none"
    BY <1>5 DEF Running
  <2>2. InsertsACertificate(id)' /\ MemoryIsListed(id)' /\ OnlyConflictStrands(id)'
    BY <1>5 DEF InsertsACertificate, MemoryIsListed, OnlyConflictStrands
  <2>3. FreshIsUnused(id)' /\ NoRowNoLinks(id)'
    BY <1>1, <1>2, <2>1 DEF IdInv, FreshIsUnused, NoRowNoLinks, Exists
  <2>. QED
    BY <1>1, <1>2, <1>5, <2>2, <2>3
       DEF IdInv, RowMirrorsMemory, CompletedIsSettled, FailedIsSettled, DeletedIsEmpty,
           Running, Settled, Exists, Status
<1>. QED
  BY <1>3, <1>4, <1>5

LEMMA WorkerFrames == \A id \in Ids : WorkerStep(id) => WorkerFrame
  BY DEF WorkerStep, Login, ListCerts, ReadCerts, FindCertificate, CreateCertificate,
         AppendBatch, Complete, FailDiscovery, SaveStatus

(* Handlers take the key from a row, and keys are never taken back.        *)
LEMMA RequestsStep ==
  ASSUME IInv, [Next]_vars
  PROVE  RequestsKnownIds'
<1>1. TypeOK /\ RequestsKnownIds
  BY DEF IInv
<1>2. nextId \in Nat /\ nextId' \in Nat /\ nextId' >= nextId
  <2>1. nextId \in Nat
    BY <1>1 DEF TypeOK, RepositoryTypeOK
  <2>2. ASSUME NEW name \in Names,
               \/ DiscoverCertificate(name)
               \/ DiscoverCertificateRefused(name)
               \/ DiscoverCertificateUnanswered(name)
        PROVE  nextId' = nextId + 1
    BY <2>2 DEF DiscoverCertificate, DiscoverCertificateRefused,
                DiscoverCertificateUnanswered, InsertDiscovery
  <2>3. ASSUME NEW id \in Ids, WorkerStep(id) PROVE nextId' = nextId
    BY <2>3, WorkerFrames DEF WorkerFrame
  <2>4. ASSUME NEW c \in Clients, ClientStep(c) PROVE nextId' = nextId
    BY <2>4 DEF ClientStep, GetFind, GetCount, GetFirst, GetPage, DeleteFind, DeleteClear,
                DeleteCommit, ClientFrame
  <2>5. Crash \/ UNCHANGED vars => nextId' = nextId
    BY DEF Crash, vars
  <2>. QED
    BY <2>1, <2>2, <2>3, <2>4, <2>5 DEF Next
<1>3. CASE UNCHANGED request
  BY <1>1, <1>2, <1>3 DEF RequestsKnownIds
<1>4. CASE Crash
  BY <1>4 DEF Crash, RequestsKnownIds, NoRequest
<1>5. ASSUME NEW c \in Clients, ClientStep(c) PROVE RequestsKnownIds'
  <2>1. request \in [Clients -> Request]
    BY <1>1 DEF TypeOK
  <2>2. ASSUME NEW r, request' = [request EXCEPT ![c] = r],
               r.op = "answered" \/ r.id \in 1 .. nextId - 1
        PROVE  RequestsKnownIds'
    BY <1>1, <1>2, <2>1, <2>2 DEF RequestsKnownIds
  <2>3. ASSUME NEW r \in Request, NEW answer, Reply(c, r, answer) PROVE RequestsKnownIds'
    <3>. DEFINE replied == [r EXCEPT !.op = "answered", !.answer = answer]
    <3>1. replied.op = "answered"
      BY DEF Request
    <3>2. request' = [request EXCEPT ![c] = replied]
      BY <2>3 DEF Reply
    <3>. HIDE DEF replied
    <3>. QED
      BY <2>2, <3>1, <3>2
  <2>4. ASSUME NEW r, Proceed(c, r), r.id \in 1 .. nextId - 1 PROVE RequestsKnownIds'
    BY <2>2, <2>4 DEF Proceed
  <2>5. request[c] \in Request
    BY <2>1
  <2>6. request[c].op \in {"count", "page", "rows", "clear", "delete"} =>
          request[c].id \in 1 .. nextId - 1
    BY <1>1 DEF RequestsKnownIds
  <2>7. ASSUME NEW id \in Ids, Exists(id) PROVE id \in 1 .. nextId - 1
    BY <1>2, <2>7, BoundsAssumption DEF IInv, IdInv, FreshIsUnused, Ids
  <2>8. ASSUME NEW id \in Ids, GetFind(c, id) PROVE RequestsKnownIds'
    <3>. DEFINE seen == [NoRequest EXCEPT !.id = id, !.seen = discoveries[id].status]
                count == [seen EXCEPT !.op = "count"]
    <3>1. seen \in Request /\ count.id = id
      <4>1. discoveries[id].status \in Statuses
        BY <1>1, <2>8 DEF GetFind, Exists, TypeOK, RepositoryTypeOK, Row
      <4>2. [NoRequest EXCEPT !.id = id] \in Request
        BY NoRequestType, RequestWith, BoundsAssumption DEF Ids
      <4>. QED
        BY <4>1, <4>2, RequestWith DEF NoRequest
    <3>2. Exists(id) /\ (Reply(c, seen, "inProgress") \/ Proceed(c, count))
      BY <2>8 DEF GetFind
    <3>. HIDE DEF seen, count
    <3>. QED
      BY <2>3, <2>4, <2>7, <3>1, <3>2
  <2>9. ASSUME NEW id \in Ids, DeleteFind(c, id) PROVE RequestsKnownIds'
    <3>. DEFINE clear == [NoRequest EXCEPT !.op = "clear", !.id = id]
    <3>1. clear.id = id /\ Exists(id) /\ Proceed(c, clear)
      BY <2>9 DEF DeleteFind, NoRequest
    <3>. HIDE DEF clear
    <3>. QED
      BY <2>4, <2>7, <3>1
  <2>10. CASE GetCount(c)
    <3>. DEFINE page == [request[c] EXCEPT !.op = "page",
                           !.total = Cardinality(Joined(request[c].id))]
    <3>1. /\ page.id = request[c].id /\ request[c].op = "count"
          /\ Reply(c, request[c], "completed") \/ Proceed(c, page)
      BY <2>5, <2>10 DEF GetCount, Request
    <3>. HIDE DEF page
    <3>. QED
      BY <2>3, <2>4, <2>5, <2>6, <3>1
  <2>10a. CASE GetFirst(c)
    <3>. DEFINE rows == [request[c] EXCEPT !.op = "rows"]
    <3>1. /\ rows.id = request[c].id /\ request[c].op = "page"
          /\ Proceed(c, rows) \/ Reply(c, request[c], "panic")
      BY <2>5, <2>10a DEF GetFirst, Request
    <3>. HIDE DEF rows
    <3>. QED
      BY <2>3, <2>4, <2>5, <2>6, <3>1
  <2>11. CASE GetPage(c)
    <3>. DEFINE served == [request[c] EXCEPT !.rows = Joined(request[c].id)]
    <3>1. served \in Request
      BY <2>5, RequestWith, JoinedType
    <3>2. Reply(c, served, "completed") \/ Reply(c, request[c], "panic")
      BY <2>11 DEF GetPage
    <3>. HIDE DEF served
    <3>. QED
      BY <2>3, <2>5, <3>1, <3>2
  <2>12. CASE DeleteClear(c)
    <3>. DEFINE cleared == [request[c] EXCEPT !.op = "delete",
                              !.rows = Joined(request[c].id)]
    <3>1. /\ cleared.id = request[c].id /\ request[c].op = "clear"
          /\ Proceed(c, cleared)
      BY <2>5, <2>12 DEF DeleteClear, Request
    <3>. HIDE DEF cleared
    <3>. QED
      BY <2>4, <2>6, <3>1
  <2>13. CASE DeleteCommit(c)
    BY <2>3, <2>5, <2>13 DEF DeleteCommit
  <2>. QED
    BY <1>5, <2>8, <2>9, <2>10, <2>10a, <2>11, <2>12, <2>13
       DEF ClientStep
<1>6. UNCHANGED request \/ Crash \/ \E c \in Clients : ClientStep(c)
  BY WorkerFrames
     DEF Next, vars, WorkerFrame, DiscoverCertificate, DiscoverCertificateRefused,
         DiscoverCertificateUnanswered
<1>. QED
  BY <1>3, <1>4, <1>5, <1>6

-----------------------------------------------------------------------------
(* The invariant holds in every reachable state. *)

LEMMA InductiveStep ==
  ASSUME IInv, [Next]_vars
  PROVE  IInv'
<1>1. RequestsKnownIds'
  BY RequestsStep
<1>2. TypeOK
  BY DEF IInv
<1>3. ASSUME NEW name \in Names,
             \/ DiscoverCertificate(name)
             \/ DiscoverCertificateRefused(name)
             \/ DiscoverCertificateUnanswered(name)
      PROVE  IInv'
  BY <1>1, <1>2, <1>3, DiscoverType, DiscoverInv DEF IInv
<1>4. ASSUME NEW id \in Ids, WorkerStep(id) PROVE IInv'
  <2>1. worker[id].pc = "insert" => worker[id].cur # NoSerial
    BY DEF IInv, IdInv, InsertsACertificate
  <2>. QED
    BY <1>1, <1>2, <1>4, <2>1, WorkerType, WorkerInv DEF IInv
<1>5. ASSUME NEW c \in Clients, ClientStep(c) PROVE IInv'
  <2>1. request[c].op = "delete" => request[c].id \in Ids
    BY <1>2, BoundsAssumption DEF IInv, RequestsKnownIds, TypeOK, RepositoryTypeOK, Ids
  <2>. QED
    BY <1>1, <1>2, <1>5, <2>1, ClientType, ClientInv DEF IInv
<1>6. CASE Crash
  BY <1>1, <1>2, <1>6, CrashType, CrashInv DEF IInv
<1>7. CASE UNCHANGED vars
  <2>1. TypeOK'
    BY <1>2, <1>7 DEF vars, TypeOK, RepositoryTypeOK
  <2>2. ASSUME NEW id \in Ids PROVE IdInv(id)'
    BY <1>2, <1>7, <2>2, Elsewhere, TablesJoined
       DEF IInv, vars, Untouched, Grows, TypeOK, RepositoryTypeOK
  <2>. QED
    BY <1>1, <2>1, <2>2 DEF IInv
<1>. QED
  BY <1>3, <1>4, <1>5, <1>6, <1>7 DEF Next

(* The inductive invariant of the discovery service.                       *)
THEOREM Inductive == Spec => []IInv
<1>1. Init => IInv
  BY InvInit
<1>2. IInv /\ [Next]_vars => IInv'
  BY InductiveStep
<1>. QED
  BY <1>1, <1>2, PTL DEF Spec

(* Every variable has its type in every reachable state: the tables hold   *)
(* only rows of known discoveries and certificates, and the goroutines and *)
(* handlers are always in one of their states.                             *)
THEOREM TypeCorrect == Spec => []TypeOK
<1>1. IInv => TypeOK
  BY DEF IInv
<1>. QED
  BY <1>1, Inductive, PTL

(* Whatever the vault and the database answer, and however many discoveries*)
(* and clients run at once, a discovery saved as COMPLETED is joined with  *)
(* every certificate the vault listed for it.                              *)
THEOREM CompletedCorrect == Spec => []CompletedIsComplete
<1>1. IInv => CompletedIsComplete
  BY DEF IInv, IdInv, CompletedIsSettled, CompletedIsComplete
<1>. QED
  BY <1>1, Inductive, PTL

(* A deleted discovery that a Save brings back never has a certificate.    *)
THEOREM ResurrectedCorrect == Spec => []ResurrectedIsEmpty
<1>1. IInv => ResurrectedIsEmpty
  BY DEF IInv, IdInv, DeletedIsEmpty, ResurrectedIsEmpty, TypeOK
<1>. QED
  BY <1>1, Inductive, PTL

(* Without database errors a worker leaves its discovery inProgress only   *)
(* after a conflict over a certificate with another discovery.             *)
THEOREM StrandedCorrect == Spec => []StrandedOnlyByConflict
<1>1. IInv => StrandedOnlyByConflict
  BY DEF IInv, IdInv, StrandedOnlyByConflict
<1>. QED
  BY <1>1, Inductive, PTL

-----------------------------------------------------------------------------
(* What a step may do to a row that stays. *)

LEMMA WorkerRows ==
  ASSUME TypeOK, NEW id \in Ids, WorkerStep(id)
  PROVE  /\ \A j \in Ids \ {id} : discoveries'[j] = discoveries[j]
         /\ \/ discoveries'[id] = discoveries[id]
            \/ worker[id].pc = "engine"
            \/ worker[id].pc = "fail" /\ discoveries'[id].status = "FAILED"
<1>1. CASE Login(id) \/ ListCerts(id) \/ ReadCerts(id) \/ FindCertificate(id)
  BY <1>1 DEF Login, ListCerts, ReadCerts, FindCertificate, tables
<1>2. CASE CreateCertificate(id) \/ AppendBatch(id)
  BY <1>2 DEF CreateCertificate, InsertCertificate, AppendBatch, AppendCertificates, tables
<1>3. ASSUME NEW status, NEW onSuccess, NEW onError,
             SaveStatus(id, status, onSuccess, onError)
      PROVE  /\ \A j \in Ids \ {id} : discoveries'[j] = discoveries[j]
             /\ discoveries'[id] = discoveries[id] \/ discoveries'[id].status = status
  BY <1>3 DEF SaveStatus, SaveDiscovery, tables, TypeOK, RepositoryTypeOK
<1>4. CASE Complete(id)
  BY <1>3, <1>4 DEF Complete
<1>5. CASE FailDiscovery(id)
  BY <1>3, <1>5 DEF FailDiscovery
<1>. QED
  BY <1>1, <1>2, <1>4, <1>5 DEF WorkerStep

LEMMA RowStep ==
  ASSUME IInv, [Next]_vars, NEW id \in Ids, Exists(id), Exists(id)'
  PROVE  \/ Status(id, "inProgress")
         \/ discoveries'[id] = discoveries[id]
         \/ dbErrors > 0 /\ Status(id, "COMPLETED") /\ Status(id, "FAILED")'
<1>1. TypeOK /\ IdInv(id)
  BY DEF IInv
<1>2. discoveries[id].status \in Statuses
  BY <1>1 DEF Exists, TypeOK, RepositoryTypeOK, Row
<1>3. ASSUME NEW name \in Names,
             \/ DiscoverCertificate(name)
             \/ DiscoverCertificateRefused(name)
             \/ DiscoverCertificateUnanswered(name)
      PROVE  discoveries'[id] = discoveries[id]
  <2>1. id # nextId
    BY <1>1 DEF IdInv, FreshIsUnused, TypeOK, RepositoryTypeOK
  <2>. QED
    BY <1>1, <1>3, <2>1
       DEF DiscoverCertificate, DiscoverCertificateRefused, DiscoverCertificateUnanswered,
           InsertDiscovery, TypeOK, RepositoryTypeOK
<1>4. CASE WorkerStep(id)
  <2>1. worker[id].pc = "engine" => Status(id, "inProgress")
    BY <1>1 DEF IdInv, RowMirrorsMemory, Running
  <2>2. worker[id].pc = "fail" /\ ~Status(id, "inProgress") =>
          Status(id, "COMPLETED") /\ dbErrors > 0
    BY <1>1, <1>2 DEF IdInv, FailedIsSettled, CompletedIsSettled, Settled, Status, Statuses
  <2>. QED
    BY <1>1, <1>4, <2>1, <2>2, WorkerRows DEF Status
<1>5. ASSUME NEW j \in Ids \ {id}, WorkerStep(j) PROVE discoveries'[id] = discoveries[id]
  BY <1>1, <1>5, WorkerRows
<1>6. ASSUME NEW c \in Clients, ClientStep(c) PROVE discoveries'[id] = discoveries[id]
  <2>1. UNCHANGED discoveries \/ RemoveDiscovery(request[c].id)
    BY <1>6 DEF ClientStep, GetFind, GetCount, GetFirst, GetPage, DeleteFind, DeleteClear,
                DeleteCommit, tables
  <2>. QED
    BY <1>1, <2>1 DEF RemoveDiscovery, Exists, TypeOK, RepositoryTypeOK
<1>7. CASE Crash \/ UNCHANGED vars
  BY <1>7 DEF Crash, vars, tables
<1>. QED
  BY <1>3, <1>4, <1>5, <1>6, <1>7 DEF Next

(* A discovery that is settled stays as it is until it is deleted, save    *)
(* for a completed one whose Save was committed but not answered.          *)
THEOREM SettledCorrect == Spec => SettledStays
<1>1. IInv /\ [Next]_vars =>
        [\A id \in Ids :
           Exists(id) /\ Exists(id)' =>
             \/ Status(id, "inProgress")
             \/ discoveries'[id] = discoveries[id]
             \/ dbErrors > 0 /\ Status(id, "COMPLETED") /\ Status(id, "FAILED")']_vars
  BY RowStep
<1>. QED
  BY <1>1, Inductive, PTL DEF Spec, SettledStays
=============================================================================
