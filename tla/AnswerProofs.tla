---------------------------- MODULE AnswerProofs ----------------------------
(***************************************************************************)
(* Proofs about what GetDiscovery answers, for any names, serials, clients *)
(* and bounds.  Its queries are taken at different moments, so the         *)
(* invariant follows a request through them: what a worker that has ended  *)
(* may still write, and what the request has read so far.                  *)
(***************************************************************************)
EXTENDS DiscoveryProofs

Ended == Settled \cup {"fail"}

\* A worker that saved COMPLETED and was told of an error still has in memory
\* what the vault listed.
FailKept(id) ==
  Status(id, "COMPLETED") /\ worker[id].pc = "fail" => worker[id].mem = listed[id]

\* A discovery that has ended is joined with what it had in the end, or with
\* nothing, once it was deleted.
KeptOrDeleted(id, found) == Joined(id) = found \/ (Joined(id) = {} /\ id \in deleted)

Asking == {"count", "page", "rows"}

\* What a request that found its discovery ended knows of it.
Followed(c) ==
  LET r == request[c]
      w == worker[r.id]
  IN r.seen # "inProgress" =>
       /\ r.id \in 1 .. nextId - 1
       /\ r.op \in Asking \cup {"answered"}
       /\ w.pc \in Ended
       /\ w.pc = "fail" => r.seen = "COMPLETED" /\ w.mem = listed[r.id]
       /\ r.op \in Asking => r.answer = "none"
       /\ r.op = "count" => r.total = 0 /\ r.rows = {}
       /\ r.op \in Asking /\ r.seen = "COMPLETED" => KeptOrDeleted(r.id, listed[r.id])
       /\ r.op \in {"page", "rows"} =>
            \E found \in SUBSET Serials :
              /\ r.total = Cardinality(found)
              /\ KeptOrDeleted(r.id, found)
              /\ r.seen = "COMPLETED" => found = listed[r.id]
       /\ r.answer = "completed" =>
            /\ r.total # Cardinality(r.rows) => r.id \in deleted /\ r.rows = {}
            /\ r.seen = "COMPLETED" =>
                 /\ r.rows \in {listed[r.id], {}}
                 /\ r.total \in {Cardinality(listed[r.id]), 0}
                 /\ r.rows # listed[r.id] => r.id \in deleted \/ dbErrors > 0

\* A request at work lost its discovery only to a delete.
LostToDelete(c) ==
  LET r == request[c]
  IN /\ r.op \in Asking => Exists(r.id) \/ r.id \in deleted
     /\ r.answer = "panic" /\ dbErrors = 0 => r.id \in deleted

AnswerInv ==
  /\ IInv
  /\ \A id \in Ids : FailKept(id)
  /\ \A c \in Clients : Followed(c) /\ LostToDelete(c)

-----------------------------------------------------------------------------
(* What one step does to a discovery that has been handed out. *)

LEMMA KeysGrow ==
  ASSUME IInv, [Next]_vars
  PROVE  /\ nextId \in Nat /\ nextId' \in Nat /\ nextId' >= nextId
         /\ dbErrors \in Nat /\ dbErrors' \in Nat /\ dbErrors' >= dbErrors
         /\ deleted \subseteq deleted'
<1>1. TypeOK
  BY DEF IInv
<1>2. nextId \in Nat /\ dbErrors \in Nat
  BY <1>1, BoundsAssumption DEF TypeOK, RepositoryTypeOK
<1>3. ASSUME NEW name \in Names,
             \/ DiscoverCertificate(name)
             \/ DiscoverCertificateRefused(name)
             \/ DiscoverCertificateUnanswered(name)
      PROVE  /\ nextId' = nextId + 1 /\ deleted' = deleted
             /\ TransportError \/ UNCHANGED dbErrors
  BY <1>3 DEF DiscoverCertificate, DiscoverCertificateRefused,
              DiscoverCertificateUnanswered, InsertDiscovery
<1>4. ASSUME NEW id \in Ids, WorkerStep(id)
      PROVE  /\ nextId' = nextId /\ deleted' = deleted
             /\ TransportError \/ UNCHANGED dbErrors
  <2>1. WorkerFrame
    BY <1>4, WorkerFrames
  <2>2. TransportError \/ UNCHANGED dbErrors
    BY <1>4 DEF WorkerStep, Login, ListCerts, ReadCerts, FindCertificate,
                CreateCertificate, AppendBatch, Complete, FailDiscovery, SaveStatus
  <2>. QED
    BY <2>1, <2>2 DEF WorkerFrame
<1>5. ASSUME NEW c \in Clients, ClientStep(c)
      PROVE  /\ nextId' = nextId /\ deleted \subseteq deleted'
             /\ TransportError \/ UNCHANGED dbErrors
  BY <1>5 DEF ClientStep, GetFind, GetCount, GetFirst, GetPage, DeleteFind, DeleteClear,
              DeleteCommit, ClientFrame
<1>6. CASE Crash \/ UNCHANGED vars
  BY <1>2, <1>6 DEF Crash, vars
<1>7. TransportError => dbErrors' = dbErrors + 1
  BY DEF TransportError
<1>. QED
  BY <1>2, <1>3, <1>4, <1>5, <1>6, <1>7 DEF Next

(* A worker writes only its own discovery, and never takes a row away.     *)
LEMMA WorkerWrites ==
  ASSUME IInv, NEW id \in Ids, WorkerStep(id)
  PROVE  /\ \A j \in Ids \ {id} :
              /\ worker'[j] = worker[j] /\ listed'[j] = listed[j]
              /\ discoveries'[j] = discoveries[j] /\ Joined(j)' = Joined(j)
         /\ Exists(id) => Exists(id)'
<1>1. TypeOK /\ worker[id] \in Worker
  BY DEF IInv, TypeOK
<1>2. /\ worker[id].mem \in SUBSET Serials
      /\ worker[id].mem \cup worker[id].batch \in SUBSET Serials
      /\ worker[id].name \in Names
  BY <1>1 DEF Worker
<1>3. \A j \in Ids \ {id} : discoveries'[j] = discoveries[j]
  BY <1>1, WorkerRows
<1>4. ASSUME NEW status \in Statuses, NEW onSuccess, NEW onError,
             SaveStatus(id, status, onSuccess, onError)
      PROVE  /\ \A j \in Ids \ {id} :
                  worker'[j] = worker[j] /\ listed'[j] = listed[j] /\ Joined(j)' = Joined(j)
             /\ Exists(id) => Exists(id)'
  <2>1. /\ UNCHANGED listed
        /\ \E w : Goto(id, w)
        /\ UNCHANGED tables \/ SaveDiscovery(id, worker[id].name, status, worker[id].mem)
    BY <1>4 DEF SaveStatus
  <2>2. [name |-> worker[id].name, status |-> status] # NoRow
    BY <1>2, NoRowAssumption DEF Row
  <2>3. Exists(id) => Exists(id)'
    BY <1>1, <2>1, <2>2 DEF SaveDiscovery, tables, Exists, TypeOK, RepositoryTypeOK
  <2>. QED
    BY <1>1, <1>2, <2>1, <2>3, GotoWorker, LinkJoined, TablesJoined DEF SaveDiscovery, tables
<1>5. CASE Login(id) \/ ReadCerts(id) \/ FindCertificate(id)
  <2>1. /\ UNCHANGED <<tables, listed>>
        /\ \E w : Goto(id, w)
    BY <1>5 DEF Login, ReadCerts, FindCertificate
  <2>. QED
    BY <1>1, <1>3, <2>1, GotoWorker, TablesJoined DEF tables, Exists
<1>6. CASE ListCerts(id)
  <2>1. /\ UNCHANGED tables
        /\ \E w : Goto(id, w)
        /\ \A j \in Ids \ {id} : listed'[j] = listed[j]
    BY <1>1, <1>6 DEF ListCerts, TypeOK
  <2>. QED
    BY <1>1, <1>3, <2>1, GotoWorker, TablesJoined DEF tables, Exists
<1>7. CASE CreateCertificate(id)
  <2>1. /\ UNCHANGED <<discoveries, discovery_certificates, listed>>
        /\ \E w : Goto(id, w)
    BY <1>7 DEF CreateCertificate, InsertCertificate, tables
  <2>. QED
    BY <1>1, <1>3, <2>1, GotoWorker, TablesJoined DEF Exists
<1>8. CASE AppendBatch(id)
  <2>1. /\ UNCHANGED <<discoveries, listed>>
        /\ \E w : Goto(id, w)
        /\ \/ UNCHANGED discovery_certificates
           \/ Link(id, worker[id].mem \cup worker[id].batch)
    BY <1>8 DEF AppendBatch, AppendCertificates, tables
  <2>. QED
    BY <1>1, <1>2, <1>3, <2>1, GotoWorker, LinkJoined, TablesJoined DEF Exists
<1>9. CASE Complete(id) \/ FailDiscovery(id)
  BY <1>3, <1>4, <1>9 DEF Complete, FailDiscovery, Statuses
<1>. QED
  BY <1>5, <1>6, <1>7, <1>8, <1>9 DEF WorkerStep

(* A delete takes the row and its join rows, and leaves the others.        *)
LEMMA ClientWrites ==
  ASSUME IInv, NEW c \in Clients, ClientStep(c), NEW id \in Ids
  PROVE  /\ worker' = worker /\ listed' = listed /\ nextId' = nextId
         /\ \/ discoveries'[id] = discoveries[id] /\ Joined(id)' = Joined(id)
            \/ ~Exists(id)' /\ Joined(id)' = {} /\ id \in deleted'
<1>1. TypeOK
  BY DEF IInv
<1>2. /\ ClientFrame
      /\ \/ UNCHANGED tables
         \/ RemoveDiscovery(request[c].id) /\ deleted' = deleted \cup {request[c].id}
  BY DEF ClientStep, GetFind, GetCount, GetFirst, GetPage, DeleteFind, DeleteClear,
         DeleteCommit
<1>3. CASE UNCHANGED tables
  BY <1>2, <1>3, TablesJoined DEF ClientFrame, tables
<1>4. ASSUME NEW i, i = request[c].id, RemoveDiscovery(i), deleted' = deleted \cup {i}
      PROVE  \/ discoveries'[id] = discoveries[id] /\ Joined(id)' = Joined(id)
             \/ ~Exists(id)' /\ Joined(id)' = {} /\ id \in deleted'
  <2>1. CASE id = i
    BY <1>1, <1>4, <2>1 DEF RemoveDiscovery, Exists, Joined, TypeOK, RepositoryTypeOK
  <2>2. CASE id # i
    BY <1>1, <1>4, <2>2 DEF RemoveDiscovery, Joined, TypeOK, RepositoryTypeOK
  <2>. QED
    BY <2>1, <2>2
<1>. QED
  BY <1>2, <1>3, <1>4 DEF ClientFrame

LEMMA DiscoverWrites ==
  ASSUME IInv, NEW name \in Names,
         \/ DiscoverCertificate(name)
         \/ DiscoverCertificateRefused(name)
         \/ DiscoverCertificateUnanswered(name),
         NEW id \in Ids, id # nextId
  PROVE  /\ worker'[id] = worker[id] /\ listed' = listed /\ request' = request
         /\ discoveries'[id] = discoveries[id] /\ Joined(id)' = Joined(id)
<1>1. UNCHANGED discovery_certificates
  BY DEF DiscoverCertificate, DiscoverCertificateRefused, DiscoverCertificateUnanswered,
         InsertDiscovery
<1>. QED
  BY <1>1, TablesJoined
     DEF DiscoverCertificate, DiscoverCertificateRefused, DiscoverCertificateUnanswered,
         InsertDiscovery, IInv, TypeOK, RepositoryTypeOK

(* Once a worker has ended, or is about to give up, its discovery keeps its *)
(* certificates, loses them to a delete, or gets what the worker has left   *)
(* in memory.                                                               *)
LEMMA AfterTheEnd ==
  ASSUME IInv, [Next]_vars, NEW id \in 1 .. nextId - 1, worker[id].pc \in Ended
  PROVE  /\ listed'[id] = listed[id]
         /\ worker'[id] = worker[id] \/ worker'[id].pc \in Settled
         /\ \/ Joined(id)' = Joined(id)
            \/ Joined(id)' = {} /\ id \in deleted'
            \/ worker[id].pc = "fail" /\ Joined(id)' = Joined(id) \cup worker[id].mem
<1>1. TypeOK /\ id \in Ids /\ id # nextId
  BY BoundsAssumption DEF IInv, TypeOK, RepositoryTypeOK, Ids
<1>2. ASSUME NEW name \in Names,
             \/ DiscoverCertificate(name)
             \/ DiscoverCertificateRefused(name)
             \/ DiscoverCertificateUnanswered(name)
      PROVE  /\ worker'[id] = worker[id] /\ listed'[id] = listed[id]
             /\ discoveries'[id] = discoveries[id] /\ Joined(id)' = Joined(id)
  BY <1>1, <1>2, DiscoverWrites
<1>3. ASSUME NEW j \in Ids, WorkerStep(j), j # id
      PROVE  /\ worker'[id] = worker[id] /\ listed'[id] = listed[id]
             /\ discoveries'[id] = discoveries[id] /\ Joined(id)' = Joined(id)
  BY <1>1, <1>3, WorkerWrites
<1>4. CASE WorkerStep(id)
  <2>. DEFINE w == worker[id]
              ended == [w EXCEPT !.pc = "done"]
  <2>1. w \in Worker /\ w.mem \in SUBSET Serials
    BY <1>1 DEF TypeOK, Worker
  <2>2. FailDiscovery(id)
    BY <1>4 DEF WorkerStep, Login, ListCerts, ReadCerts, FindCertificate, CreateCertificate,
                AppendBatch, Complete, Ended, Settled
  <2>3. /\ w.pc = "fail" /\ UNCHANGED listed
        /\ Goto(id, ended)
        /\ \/ UNCHANGED tables
           \/ /\ SaveAccepted(id, w.name, w.mem, w.unsaved)
              /\ SaveDiscovery(id, w.name, "FAILED", w.mem)
    BY <2>2 DEF FailDiscovery, SaveStatus
  <2>4. ended.pc = "done"
    BY <2>1 DEF Worker
  <2>. HIDE DEF ended
  <2>5. worker'[id].pc \in Settled
    BY <1>1, <2>3, <2>4, GotoWorker DEF Settled
  <2>6. CASE UNCHANGED tables
    BY <2>3, <2>5, <2>6, TablesJoined DEF tables, Exists
  <2>7. CASE /\ SaveAccepted(id, w.name, w.mem, w.unsaved)
             /\ SaveDiscovery(id, w.name, "FAILED", w.mem)
    <3>1. Joined(id)' = Joined(id) \cup w.mem
      BY <1>1, <2>1, <2>7, LinkJoined DEF SaveDiscovery
    <3>. QED
      BY <2>3, <2>5, <3>1
  <2>. QED
    BY <2>3, <2>6, <2>7
<1>5. ASSUME NEW c \in Clients, ClientStep(c)
      PROVE  /\ worker'[id] = worker[id] /\ listed'[id] = listed[id]
             /\ Joined(id)' = Joined(id) \/ (Joined(id)' = {} /\ id \in deleted')
  BY <1>1, <1>5, ClientWrites
<1>6. CASE Crash
  <2>1. UNCHANGED tables /\ UNCHANGED listed
    BY <1>6 DEF Crash
  <2>2. worker'[id] = worker[id] \/ worker'[id].pc = "dead"
    BY <1>1, <1>6 DEF Crash, TypeOK, Worker
  <2>. QED
    BY <2>1, <2>2, TablesJoined DEF tables, Settled
<1>7. CASE UNCHANGED vars
  BY <1>7, TablesJoined DEF vars
<1>. QED
  BY <1>2, <1>3, <1>4, <1>5, <1>6, <1>7 DEF Next

LEMMA KeptStep ==
  ASSUME IInv, [Next]_vars, NEW id \in 1 .. nextId - 1, worker[id].pc \in Ended,
         NEW found, KeptOrDeleted(id, found),
         worker[id].pc = "fail" => worker[id].mem = found
  PROVE  KeptOrDeleted(id, found)'
  BY AfterTheEnd, KeysGrow DEF KeptOrDeleted

(* A row that exists under a key already handed out stays until a delete.  *)
LEMMA LostOnlyToDelete ==
  ASSUME IInv, [Next]_vars, NEW id \in 1 .. nextId - 1, Exists(id) \/ id \in deleted
  PROVE  Exists(id)' \/ id \in deleted'
<1>1. TypeOK /\ id \in Ids /\ id # nextId
  BY BoundsAssumption DEF IInv, TypeOK, RepositoryTypeOK, Ids
<1>2. deleted \subseteq deleted'
  BY KeysGrow
<1>3. ASSUME NEW name \in Names,
             \/ DiscoverCertificate(name)
             \/ DiscoverCertificateRefused(name)
             \/ DiscoverCertificateUnanswered(name)
      PROVE  discoveries'[id] = discoveries[id]
  BY <1>1, <1>3, DiscoverWrites
<1>4. ASSUME NEW j \in Ids, WorkerStep(j) PROVE Exists(id) => Exists(id)'
  <2>1. CASE j = id
    BY <1>4, <2>1, WorkerWrites
  <2>2. CASE j # id
    <3>1. discoveries'[id] = discoveries[id]
      BY <1>1, <1>4, <2>2, WorkerWrites
    <3>. QED
      BY <3>1 DEF Exists
  <2>. QED
    BY <2>1, <2>2
<1>5. ASSUME NEW c \in Clients, ClientStep(c)
      PROVE  discoveries'[id] = discoveries[id] \/ id \in deleted'
  BY <1>1, <1>5, ClientWrites
<1>6. CASE Crash \/ UNCHANGED vars
  BY <1>6 DEF Crash, vars, tables, Exists
<1>. QED
  BY <1>2, <1>3, <1>4, <1>5, <1>6 DEF Next, Exists

(* The only way to a COMPLETED row with a worker that gives up is the Save *)
(* of COMPLETED that was committed and reported an error.                  *)
LEMMA FailKeptStep ==
  ASSUME IInv, [Next]_vars, NEW id \in Ids, FailKept(id)
  PROVE  FailKept(id)'
<1>1. TypeOK /\ IdInv(id) /\ worker[id] \in Worker
  BY DEF IInv, TypeOK
<1>2. CASE /\ worker'[id] = worker[id] /\ listed'[id] = listed[id]
           /\ discoveries'[id] = discoveries[id] \/ ~Exists(id)'
  BY <1>2 DEF FailKept, Status, Exists
<1>3. ASSUME NEW name \in Names,
             \/ DiscoverCertificate(name)
             \/ DiscoverCertificateRefused(name)
             \/ DiscoverCertificateUnanswered(name)
      PROVE  FailKept(id)'
  <2>1. CASE id # nextId
    BY <1>2, <1>3, <2>1, DiscoverWrites
  <2>2. CASE id = nextId
    <3>1. worker[id].pc = "none"
      BY <1>1, <2>2 DEF IdInv, FreshIsUnused, TypeOK, RepositoryTypeOK
    <3>2. worker'[id].pc \in {"none", "login"}
      BY <1>1, <1>3, <2>2, <3>1
         DEF DiscoverCertificate, DiscoverCertificateRefused, DiscoverCertificateUnanswered,
             NoWorker, TypeOK
    <3>. QED
      BY <3>2 DEF FailKept
  <2>. QED
    BY <2>1, <2>2
<1>4. ASSUME NEW j \in Ids \ {id}, WorkerStep(j) PROVE FailKept(id)'
  BY <1>2, <1>4, WorkerWrites
<1>5. CASE WorkerStep(id)
  <2>1. CASE Complete(id)
    <3>. DEFINE w == worker[id]
                done == [w EXCEPT !.pc = "done"]
                fail == [w EXCEPT !.pc = "fail"]
    <3>1. w.mem = listed[id] /\ UNCHANGED listed /\ (Goto(id, done) \/ Goto(id, fail))
      BY <1>1, <2>1 DEF Complete, SaveStatus, IdInv, MemoryIsListed
    <3>2. done.mem = w.mem /\ fail.mem = w.mem
      BY <1>1 DEF Worker
    <3>. HIDE DEF done, fail
    <3>. QED
      BY <1>1, <3>1, <3>2, GotoWorker DEF FailKept
  <2>2. CASE FailDiscovery(id)
    <3>. DEFINE done == [worker[id] EXCEPT !.pc = "done"]
    <3>1. Goto(id, done)
      BY <2>2 DEF FailDiscovery, SaveStatus
    <3>2. done.pc = "done"
      BY <1>1 DEF Worker
    <3>. HIDE DEF done
    <3>. QED
      BY <1>1, <3>1, <3>2, GotoWorker DEF FailKept
  <2>3. CASE ~Complete(id) /\ ~FailDiscovery(id)
    <3>1. worker[id].pc \in Running \ {"fail"}
      BY <1>5, <2>3
         DEF WorkerStep, Login, ListCerts, ReadCerts, FindCertificate, CreateCertificate,
             AppendBatch, Running
    <3>2. ~Status(id, "COMPLETED")
      BY <1>1, <3>1 DEF IdInv, RowMirrorsMemory, Status
    <3>3. UNCHANGED discoveries
      BY <1>5, <2>3
         DEF WorkerStep, Login, ListCerts, ReadCerts, FindCertificate, CreateCertificate,
             AppendBatch, AppendCertificates, InsertCertificate, tables
    <3>. QED
      BY <3>2, <3>3 DEF FailKept, Status, Exists
  <2>. QED
    BY <2>1, <2>2, <2>3
<1>6. ASSUME NEW c \in Clients, ClientStep(c) PROVE FailKept(id)'
  BY <1>2, <1>6, ClientWrites
<1>7. CASE Crash
  <2>1. UNCHANGED tables /\ UNCHANGED listed
    BY <1>7 DEF Crash
  <2>2. worker'[id] = worker[id] \/ worker'[id].pc = "dead"
    BY <1>1, <1>7 DEF Crash, TypeOK, Worker
  <2>. QED
    BY <1>2, <2>1, <2>2 DEF tables, FailKept
<1>8. CASE UNCHANGED vars
  BY <1>2, <1>8 DEF vars
<1>. QED
  BY <1>3, <1>4, <1>5, <1>6, <1>7, <1>8 DEF Next

-----------------------------------------------------------------------------
(* A step that leaves the request alone keeps what is known of it. *)

LEMMA FollowedElsewhere ==
  ASSUME IInv, [Next]_vars, NEW c \in Clients, Followed(c), request'[c] = request[c]
  PROVE  Followed(c)'
<1>. SUFFICES ASSUME NEW r, r = request[c], r.seen # "inProgress",
                     NEW id, id = r.id,
                     NEW w, w = worker[id]
              PROVE  Followed(c)'
  BY DEF Followed
<1>1. id \in 1 .. nextId - 1 /\ w.pc \in Ended
  BY DEF Followed
<1>2. id \in 1 .. nextId' - 1 /\ deleted \subseteq deleted'
  BY <1>1, KeysGrow
<1>3. /\ listed'[id] = listed[id]
      /\ worker'[id] = w \/ worker'[id].pc \in Settled
  BY <1>1, AfterTheEnd
<1>4. w.pc = "fail" => r.seen = "COMPLETED" /\ w.mem = listed[id]
  BY DEF Followed
<1>5. /\ worker'[id].pc \in Ended
      /\ worker'[id].pc = "fail" => r.seen = "COMPLETED" /\ worker'[id].mem = listed'[id]
  BY <1>1, <1>3, <1>4 DEF Ended, Settled
<1>6. ASSUME NEW found, KeptOrDeleted(id, found), r.seen = "COMPLETED" => found = listed[id]
      PROVE  KeptOrDeleted(id, found)'
  BY <1>1, <1>4, <1>6, KeptStep
<1>7. ASSUME r.op \in Asking, r.seen = "COMPLETED"
      PROVE  KeptOrDeleted(id, listed[id])'
  <2>1. PICK found : found = listed[id]
    OBVIOUS
  <2>2. KeptOrDeleted(id, found)
    BY <1>7, <2>1 DEF Followed
  <2>3. KeptOrDeleted(id, found)'
    BY <1>6, <2>1, <2>2
  <2>. QED
    BY <1>3, <2>1, <2>3 DEF KeptOrDeleted
<1>8. ASSUME r.op \in {"page", "rows"}
      PROVE  \E found \in SUBSET Serials :
               /\ r.total = Cardinality(found)
               /\ KeptOrDeleted(id, found)'
               /\ r.seen = "COMPLETED" => found = listed'[id]
  <2>1. PICK found \in SUBSET Serials :
          /\ r.total = Cardinality(found)
          /\ KeptOrDeleted(id, found)
          /\ r.seen = "COMPLETED" => found = listed[id]
    BY <1>8 DEF Followed
  <2>. QED
    BY <1>3, <1>6, <2>1
<1>9. ASSUME r.answer = "completed"
      PROVE  /\ r.total # Cardinality(r.rows) => id \in deleted' /\ r.rows = {}
             /\ r.seen = "COMPLETED" =>
                  /\ r.rows \in {listed'[id], {}}
                  /\ r.total \in {Cardinality(listed'[id]), 0}
                  /\ r.rows # listed'[id] => id \in deleted' \/ dbErrors' > 0
  <2>1. dbErrors > 0 => dbErrors' > 0
    BY KeysGrow
  <2>. QED
    BY <1>2, <1>3, <1>9, <2>1 DEF Followed
<1>10. /\ r.op \in Asking \cup {"answered"}
       /\ r.op \in Asking => r.answer = "none"
       /\ r.op = "count" => r.total = 0 /\ r.rows = {}
  BY DEF Followed
<1>11. request'[c] = r
  OBVIOUS
<1>12. \A found : KeptOrDeleted(id, found)' <=>
                    Joined(id)' = found \/ (Joined(id)' = {} /\ id \in deleted')
  BY DEF KeptOrDeleted
<1>. QED
  BY <1>2, <1>5, <1>7, <1>8, <1>9, <1>10, <1>11, <1>12 DEF Followed

LEMMA LostElsewhere ==
  ASSUME IInv, [Next]_vars, NEW c \in Clients, LostToDelete(c), request'[c] = request[c]
  PROVE  LostToDelete(c)'
<1>. SUFFICES ASSUME NEW r, r = request[c], NEW id, id = r.id
              PROVE  LostToDelete(c)'
  OBVIOUS
<1>1. /\ r.op \in Asking => Exists(id) \/ id \in deleted
      /\ r.answer = "panic" /\ dbErrors = 0 => id \in deleted
  BY DEF LostToDelete
<1>2. r.op \in Asking => id \in 1 .. nextId - 1
  BY DEF IInv, RequestsKnownIds, Asking
<1>3. r.op \in Asking => Exists(id)' \/ id \in deleted'
  BY <1>1, <1>2, LostOnlyToDelete
<1>4. r.answer = "panic" /\ dbErrors' = 0 => id \in deleted'
  BY <1>1, KeysGrow
<1>. QED
  BY <1>3, <1>4 DEF LostToDelete

-----------------------------------------------------------------------------
(* The steps of the request itself. *)

LEMMA Replied ==
  ASSUME TypeOK, NEW c \in Clients, NEW r \in Request, NEW answer, Reply(c, r, answer)
  PROVE  /\ request'[c].op = "answered" /\ request'[c].answer = answer
         /\ request'[c].id = r.id /\ request'[c].seen = r.seen
         /\ request'[c].total = r.total /\ request'[c].rows = r.rows
         /\ \A d \in Clients \ {c} : request'[d] = request[d]
<1>. DEFINE replied == [r EXCEPT !.op = "answered", !.answer = answer]
<1>1. /\ replied.op = "answered" /\ replied.answer = answer
      /\ replied.id = r.id /\ replied.seen = r.seen
      /\ replied.total = r.total /\ replied.rows = r.rows
  BY DEF Request
<1>2. request' = [request EXCEPT ![c] = replied] /\ request \in [Clients -> Request]
  BY DEF Reply, TypeOK
<1>. HIDE DEF replied
<1>. QED
  BY <1>1, <1>2

LEMMA Proceeded ==
  ASSUME TypeOK, NEW c \in Clients, NEW r, Proceed(c, r)
  PROVE  /\ request'[c] = r
         /\ \A d \in Clients \ {c} : request'[d] = request[d]
  BY DEF Proceed, TypeOK

LEMMA FindStep ==
  ASSUME AnswerInv, NEW c \in Clients, NEW id \in Ids, GetFind(c, id)
  PROVE  Followed(c)' /\ LostToDelete(c)'
<1>1. TypeOK /\ IdInv(id) /\ FailKept(id) /\ Exists(id)
  BY DEF AnswerInv, IInv, GetFind
<1>2. /\ nextId' = nextId /\ worker' = worker /\ listed' = listed
      /\ discoveries' = discoveries /\ Joined(id)' = Joined(id)
  BY TablesJoined DEF GetFind, ClientFrame, tables
<1>3. Exists(id)'
  BY <1>1, <1>2 DEF Exists
<1>. DEFINE seen == [NoRequest EXCEPT !.id = id, !.seen = discoveries[id].status]
            count == [seen EXCEPT !.op = "count"]
<1>4. /\ discoveries[id].status \in Statuses
      /\ seen \in Request
  <2>1. discoveries[id].status \in Statuses
    BY <1>1 DEF Exists, TypeOK, RepositoryTypeOK, Row
  <2>2. [NoRequest EXCEPT !.id = id] \in Request
    BY NoRequestType, RequestWith, BoundsAssumption DEF Ids
  <2>. QED
    BY <2>1, <2>2, RequestWith
<1>5. /\ seen.id = id /\ seen.seen = discoveries[id].status
      /\ seen.total = 0 /\ seen.rows = {} /\ seen.answer = "none"
      /\ count.id = id /\ count.seen = discoveries[id].status /\ count.op = "count"
      /\ count.total = 0 /\ count.rows = {} /\ count.answer = "none"
  BY DEF NoRequest
<1>6. Reply(c, seen, "inProgress") \/ Proceed(c, count)
  BY DEF GetFind
<1>. HIDE DEF seen, count
<1>7. /\ request'[c].id = id /\ request'[c].seen = discoveries[id].status
      /\ request'[c].total = 0 /\ request'[c].rows = {}
      /\ \/ request'[c].op = "answered" /\ request'[c].answer = "inProgress"
         \/ request'[c].op = "count" /\ request'[c].answer = "none"
  BY <1>1, <1>4, <1>5, <1>6, Replied, Proceeded
<1>8. LostToDelete(c)'
  BY <1>3, <1>7 DEF LostToDelete, Asking
<1>9. id \in 1 .. nextId - 1
  BY <1>1, BoundsAssumption DEF IdInv, FreshIsUnused, TypeOK, RepositoryTypeOK, Ids
<1>10. CASE discoveries[id].status = "COMPLETED"
  <2>1. /\ Joined(id) = listed[id] /\ worker[id].pc \in Ended
        /\ worker[id].pc = "fail" => worker[id].mem = listed[id]
    BY <1>1, <1>10 DEF IdInv, CompletedIsSettled, FailKept, Status, Ended
  <2>. QED
    BY <1>2, <1>7, <1>8, <1>9, <1>10, <2>1 DEF Followed, KeptOrDeleted, Asking
<1>11. CASE discoveries[id].status = "FAILED"
  <2>1. worker[id].pc \in Settled
    BY <1>1, <1>11 DEF IdInv, FailedIsSettled, Status
  <2>. QED
    BY <1>2, <1>7, <1>8, <1>9, <1>11, <2>1 DEF Followed, Ended, Settled, Asking
<1>12. CASE discoveries[id].status = "inProgress"
  BY <1>7, <1>8, <1>12 DEF Followed
<1>. QED
  BY <1>4, <1>10, <1>11, <1>12 DEF Statuses

LEMMA CountStep ==
  ASSUME AnswerInv, NEW c \in Clients, GetCount(c)
  PROVE  Followed(c)' /\ LostToDelete(c)'
<1>. SUFFICES ASSUME NEW r, r = request[c], NEW id, id = r.id,
                     NEW found, found = Joined(id),
                     NEW n, n = Cardinality(found)
              PROVE  Followed(c)' /\ LostToDelete(c)'
  OBVIOUS
<1>1. /\ TypeOK /\ r \in Request /\ r.op = "count"
      /\ Followed(c) /\ LostToDelete(c) /\ found \in SUBSET Serials
  BY JoinedType DEF AnswerInv, IInv, TypeOK, GetCount
<1>2. /\ nextId' = nextId /\ worker' = worker /\ listed' = listed /\ deleted' = deleted
      /\ discoveries' = discoveries /\ Joined(id)' = found
      /\ Exists(id)' <=> Exists(id)
  BY TablesJoined DEF GetCount, ClientFrame, tables, Exists
<1>. DEFINE page == [r EXCEPT !.op = "page", !.total = n]
<1>3. /\ page.id = id /\ page.seen = r.seen /\ page.op = "page"
      /\ page.total = n /\ page.rows = r.rows /\ page.answer = r.answer
  BY <1>1 DEF Request
<1>4. \/ Reply(c, r, "completed") /\ (n = 0 \/ TransportError)
      \/ n # 0 /\ Proceed(c, page)
  BY DEF GetCount
<1>. HIDE DEF page
<1>5. /\ request'[c].id = id /\ request'[c].seen = r.seen /\ request'[c].rows = r.rows
      /\ \/ /\ request'[c].op = "answered" /\ request'[c].answer = "completed"
            /\ request'[c].total = r.total
            /\ n = 0 \/ dbErrors' > 0
         \/ /\ request'[c].op = "page" /\ request'[c].answer = r.answer
            /\ request'[c].total = n /\ n # 0
  BY <1>1, <1>3, <1>4, Replied, Proceeded, ErrorsGrow
<1>6. LostToDelete(c)'
  <2>1. Exists(id) \/ id \in deleted
    BY <1>1 DEF LostToDelete, Asking
  <2>2. r.answer = "panic" /\ dbErrors' = 0 => id \in deleted
    <3>1. dbErrors' = 0 => dbErrors = 0
      BY <1>1, BoundsAssumption DEF GetCount, TransportError, TypeOK, RepositoryTypeOK
    <3>. QED
      BY <1>1, <3>1 DEF LostToDelete
  <2>. QED
    BY <1>2, <1>5, <2>1, <2>2 DEF LostToDelete
<1>7. CASE r.seen = "inProgress"
  BY <1>5, <1>6, <1>7 DEF Followed
<1>8. CASE r.seen # "inProgress"
  <2>1. /\ id \in 1 .. nextId - 1 /\ worker[id].pc \in Ended
        /\ worker[id].pc = "fail" => r.seen = "COMPLETED" /\ worker[id].mem = listed[id]
        /\ r.answer = "none" /\ r.total = 0 /\ r.rows = {}
        /\ r.seen = "COMPLETED" => found = listed[id] \/ (found = {} /\ id \in deleted)
    BY <1>1, <1>8 DEF Followed, KeptOrDeleted, Asking
  <2>2. Cardinality({}) = 0
    BY FS_EmptySet
  <2>3. CASE request'[c].op = "answered"
    <3>1. n = 0 => found = {}
      BY <1>1, SerialsAssumption, FS_Subset, FS_EmptySet
    <3>2. r.seen = "COMPLETED" /\ listed[id] # {} => id \in deleted \/ dbErrors' > 0
      BY <1>5, <2>1, <2>3, <3>1
    <3>. QED
      BY <1>2, <1>5, <1>6, <2>1, <2>2, <2>3, <3>2 DEF Followed, Asking
  <2>4. CASE request'[c].op = "page"
    <3>1. ASSUME r.seen = "COMPLETED" PROVE KeptOrDeleted(id, listed[id])'
      BY <1>2, <2>1, <3>1 DEF KeptOrDeleted
    <3>2. \E kept \in SUBSET Serials :
             /\ n = Cardinality(kept)
             /\ KeptOrDeleted(id, kept)'
             /\ r.seen = "COMPLETED" => kept = listed'[id]
      <4>1. r.seen = "COMPLETED" => found = listed[id]
        BY <1>5, <2>1, <2>2, <2>4
      <4>. QED
        BY <1>1, <1>2, <4>1 DEF KeptOrDeleted
    <3>. QED
      BY <1>2, <1>5, <1>6, <2>1, <2>4, <3>1, <3>2 DEF Followed, Asking
  <2>. QED
    BY <1>5, <2>3, <2>4
<1>. QED
  BY <1>7, <1>8

LEMMA FirstStep ==
  ASSUME AnswerInv, NEW c \in Clients, GetFirst(c)
  PROVE  Followed(c)' /\ LostToDelete(c)'
<1>. SUFFICES ASSUME NEW r, r = request[c], NEW id, id = r.id
              PROVE  Followed(c)' /\ LostToDelete(c)'
  OBVIOUS
<1>1. /\ TypeOK /\ r \in Request /\ r.op = "page"
      /\ Followed(c) /\ LostToDelete(c)
  BY DEF AnswerInv, IInv, TypeOK, GetFirst
<1>2. /\ nextId' = nextId /\ worker' = worker /\ listed' = listed /\ deleted' = deleted
      /\ Joined(id)' = Joined(id)
      /\ Exists(id)' <=> Exists(id)
  BY TablesJoined DEF GetFirst, ClientFrame, tables, Exists
<1>. DEFINE rows == [r EXCEPT !.op = "rows"]
<1>3. /\ rows.id = id /\ rows.seen = r.seen /\ rows.op = "rows"
      /\ rows.total = r.total /\ rows.rows = r.rows /\ rows.answer = r.answer
  BY <1>1 DEF Request
<1>4. \/ Proceed(c, rows) /\ UNCHANGED dbErrors
      \/ Reply(c, r, "panic") /\ (~Exists(id) \/ TransportError)
  BY DEF GetFirst
<1>. HIDE DEF rows
<1>5. /\ request'[c].id = id /\ request'[c].seen = r.seen
      /\ request'[c].total = r.total /\ request'[c].rows = r.rows
      /\ \/ /\ request'[c].op = "rows" /\ request'[c].answer = r.answer
            /\ dbErrors' = dbErrors
         \/ /\ request'[c].op = "answered" /\ request'[c].answer = "panic"
            /\ ~Exists(id) \/ dbErrors' > 0
  BY <1>1, <1>3, <1>4, Replied, Proceeded, ErrorsGrow
<1>6. LostToDelete(c)'
  BY <1>1, <1>2, <1>5 DEF LostToDelete, Asking
<1>7. \A found : KeptOrDeleted(id, found)' <=> KeptOrDeleted(id, found)
  BY <1>2 DEF KeptOrDeleted
<1>8. KeptOrDeleted(id, listed[id])' <=> KeptOrDeleted(id, listed[id])
  BY <1>2 DEF KeptOrDeleted
<1>9. r.answer = "completed" => r.seen = "inProgress"
  BY <1>1 DEF Followed, Asking
<1>10. Followed(c)'
  BY <1>1, <1>2, <1>5, <1>7, <1>8, <1>9 DEF Followed, Asking
<1>. QED
  BY <1>6, <1>10

LEMMA PageStep ==
  ASSUME AnswerInv, NEW c \in Clients, GetPage(c)
  PROVE  Followed(c)' /\ LostToDelete(c)'
<1>. SUFFICES ASSUME NEW r, r = request[c], NEW id, id = r.id,
                     NEW found, found = Joined(id)
              PROVE  Followed(c)' /\ LostToDelete(c)'
  OBVIOUS
<1>1. /\ TypeOK /\ r \in Request /\ r.op = "rows"
      /\ Followed(c) /\ LostToDelete(c)
  BY DEF AnswerInv, IInv, TypeOK, GetPage
<1>2. /\ nextId' = nextId /\ worker' = worker /\ listed' = listed /\ deleted' = deleted
  BY DEF GetPage, ClientFrame
<1>. DEFINE served == [r EXCEPT !.rows = found]
<1>3. served \in Request
  BY <1>1, JoinedType, RequestWith
<1>4. /\ served.id = id /\ served.seen = r.seen /\ served.total = r.total
      /\ served.rows = found
  BY <1>1 DEF Request
<1>5. Reply(c, served, "completed") \/ (Reply(c, r, "panic") /\ TransportError)
  BY DEF GetPage
<1>. HIDE DEF served
<1>6. /\ request'[c].id = id /\ request'[c].seen = r.seen /\ request'[c].op = "answered"
      /\ request'[c].total = r.total
      /\ \/ request'[c].answer = "completed" /\ request'[c].rows = found
         \/ request'[c].answer = "panic" /\ dbErrors' > 0
  BY <1>1, <1>3, <1>4, <1>5, Replied, ErrorsGrow
<1>7. LostToDelete(c)'
  BY <1>6 DEF LostToDelete, Asking
<1>8. CASE r.seen = "inProgress"
  BY <1>6, <1>7, <1>8 DEF Followed
<1>9. CASE r.seen # "inProgress"
  <2>1. /\ id \in 1 .. nextId - 1 /\ worker[id].pc \in Ended
        /\ worker[id].pc = "fail" => r.seen = "COMPLETED" /\ worker[id].mem = listed[id]
    BY <1>9, <1>1 DEF Followed
  <2>2. PICK kept \in SUBSET Serials :
          /\ r.total = Cardinality(kept)
          /\ found = kept \/ (found = {} /\ id \in deleted)
          /\ r.seen = "COMPLETED" => kept = listed[id]
    BY <1>1, <1>9 DEF Followed, KeptOrDeleted
  <2>3. /\ r.total # Cardinality(found) => id \in deleted /\ found = {}
        /\ r.seen = "COMPLETED" =>
             /\ found \in {listed[id], {}}
             /\ r.total = Cardinality(listed[id])
             /\ found # listed[id] => id \in deleted
    BY <2>2
  <2>4. Followed(c)'
    BY <1>2, <1>6, <2>1, <2>3 DEF Followed, Asking
  <2>. QED
    BY <1>7, <2>4
<1>. QED
  BY <1>8, <1>9

(* Requests that delete have not seen a status and never answer a page.    *)
LEMMA DeleteStep ==
  ASSUME AnswerInv, [Next]_vars, NEW c \in Clients,
         \/ \E id \in Ids : DeleteFind(c, id)
         \/ DeleteClear(c)
         \/ DeleteCommit(c)
  PROVE  Followed(c)' /\ LostToDelete(c)'
<1>. SUFFICES ASSUME NEW r, r = request[c], NEW id, id = r.id
              PROVE  Followed(c)' /\ LostToDelete(c)'
  OBVIOUS
<1>1. TypeOK /\ r \in Request /\ Followed(c) /\ LostToDelete(c)
  BY DEF AnswerInv, IInv, TypeOK
<1>2. ASSUME NEW i \in Ids, DeleteFind(c, i)
      PROVE  Followed(c)' /\ LostToDelete(c)'
  <2>. DEFINE clear == [NoRequest EXCEPT !.op = "clear", !.id = i]
  <2>1. clear.seen = "inProgress" /\ clear.op = "clear" /\ clear.answer = "none"
    BY DEF NoRequest
  <2>2. Proceed(c, clear)
    BY <1>2 DEF DeleteFind
  <2>. HIDE DEF clear
  <2>3. request'[c] = clear
    BY <1>1, <2>2, Proceeded
  <2>. QED
    BY <2>1, <2>3 DEF Followed, LostToDelete, Asking
<1>3. CASE DeleteClear(c)
  <2>. DEFINE cleared == [r EXCEPT !.op = "delete", !.rows = Joined(r.id)]
  <2>1. r.op = "clear" /\ Proceed(c, cleared)
    BY <1>3 DEF DeleteClear
  <2>2. /\ cleared.seen = r.seen /\ cleared.op = "delete"
        /\ cleared.answer = r.answer /\ cleared.id = id
    BY <1>1 DEF Request
  <2>. HIDE DEF cleared
  <2>3. request'[c] = cleared
    BY <1>1, <2>1, Proceeded
  <2>4. r.seen = "inProgress"
    BY <1>1, <2>1 DEF Followed, Asking
  <2>5. r.answer = "panic" /\ dbErrors' = 0 => id \in deleted'
    BY <1>1, KeysGrow DEF LostToDelete, AnswerInv
  <2>. QED
    BY <2>2, <2>3, <2>4, <2>5 DEF Followed, LostToDelete, Asking
<1>4. CASE DeleteCommit(c)
  <2>1. r.op = "delete" /\ (Reply(c, r, "deleted") \/ Reply(c, r, "conflict"))
    BY <1>4 DEF DeleteCommit
  <2>2. /\ request'[c].seen = r.seen /\ request'[c].op = "answered"
        /\ request'[c].answer \in {"deleted", "conflict"}
    BY <1>1, <2>1, Replied
  <2>3. r.seen = "inProgress"
    BY <1>1, <2>1 DEF Followed, Asking
  <2>. QED
    BY <2>2, <2>3 DEF Followed, LostToDelete, Asking
<1>. QED
  BY <1>2, <1>3, <1>4

LEMMA OwnStep ==
  ASSUME AnswerInv, [Next]_vars, NEW c \in Clients, ClientStep(c)
  PROVE  /\ Followed(c)' /\ LostToDelete(c)'
         /\ \A d \in Clients \ {c} : request'[d] = request[d]
<1>1. Followed(c)' /\ LostToDelete(c)'
  BY FindStep, CountStep, FirstStep, PageStep, DeleteStep DEF ClientStep
<1>2. \E r : request' = [request EXCEPT ![c] = r]
  BY DEF ClientStep, GetFind, GetCount, GetFirst, GetPage, DeleteFind, DeleteClear,
         DeleteCommit, Reply, Proceed
<1>. QED
  BY <1>1, <1>2 DEF AnswerInv, IInv, TypeOK

-----------------------------------------------------------------------------
(* The invariant, and what it says of the answers. *)

LEMMA AnswerInit == Init => AnswerInv
<1>. SUFFICES ASSUME Init PROVE AnswerInv
  OBVIOUS
<1>1. IInv
  BY InvInit
<1>2. ASSUME NEW id \in Ids PROVE FailKept(id)
  BY DEF Init, RepositoryInit, FailKept, Status, Exists
<1>3. ASSUME NEW c \in Clients PROVE Followed(c) /\ LostToDelete(c)
  <2>1. request[c].seen = "inProgress" /\ request[c].op = "idle" /\ request[c].answer = "none"
    BY DEF Init, NoRequest
  <2>. QED
    BY <2>1 DEF Followed, LostToDelete, Asking
<1>. QED
  BY <1>1, <1>2, <1>3 DEF AnswerInv

LEMMA AnswerStep ==
  ASSUME AnswerInv, [Next]_vars
  PROVE  AnswerInv'
<1>1. IInv /\ IInv'
  BY InductiveStep DEF AnswerInv
<1>2. \A id \in Ids : FailKept(id)'
  BY FailKeptStep DEF AnswerInv
<1>3. ASSUME NEW c \in Clients, request'[c] = request[c]
      PROVE  Followed(c)' /\ LostToDelete(c)'
  BY <1>3, FollowedElsewhere, LostElsewhere DEF AnswerInv
<1>4. ASSUME NEW d \in Clients, ClientStep(d), NEW c \in Clients
      PROVE  Followed(c)' /\ LostToDelete(c)'
  BY <1>3, <1>4, OwnStep
<1>5. ASSUME Crash, NEW c \in Clients PROVE Followed(c)' /\ LostToDelete(c)'
  <2>1. /\ request'[c].seen = "inProgress" /\ request'[c].op = "idle"
        /\ request'[c].answer = "none"
    BY <1>5 DEF Crash, NoRequest
  <2>. QED
    BY <2>1 DEF Followed, LostToDelete, Asking
<1>6. UNCHANGED request \/ Crash \/ \E d \in Clients : ClientStep(d)
  BY WorkerFrames
     DEF Next, vars, WorkerFrame, DiscoverCertificate, DiscoverCertificateRefused,
         DiscoverCertificateUnanswered
<1>7. \A c \in Clients : Followed(c)' /\ LostToDelete(c)'
  BY <1>3, <1>4, <1>5, <1>6
<1>. QED
  BY <1>1, <1>2, <1>7 DEF AnswerInv

(* The inductive invariant of the requests: what a handler of GetDiscovery *)
(* has read of a discovery that had ended.                                 *)
THEOREM AnswersInductive == Spec => []AnswerInv
<1>1. Init => AnswerInv
  BY AnswerInit
<1>2. AnswerInv /\ [Next]_vars => AnswerInv'
  BY AnswerStep
<1>. QED
  BY <1>1, <1>2, PTL DEF Spec

(* A discovery that had ended when GetDiscovery found it is answered with  *)
(* a total that is the number of certificates served, unless a delete fell *)
(* between the count and the rows; a completed one with all certificates   *)
(* the vault listed, or none when it was deleted or the count failed.      *)
THEOREM AnswerCorrect == Spec => []FinishedAnswerIsWhole
<1>1. AnswerInv => FinishedAnswerIsWhole
  BY DEF AnswerInv, Followed, FinishedAnswerIsWhole
<1>. QED
  BY <1>1, AnswersInductive, PTL

(* GetDiscovery dereferences a nil page only when a client deleted the     *)
(* discovery after it was found, or the database failed.                   *)
THEOREM PanicCorrect == Spec => []PanicOnlyIfDeleted
<1>1. AnswerInv => PanicOnlyIfDeleted
  BY DEF AnswerInv, LostToDelete, PanicOnlyIfDeleted
<1>. QED
  BY <1>1, AnswersInductive, PTL

-----------------------------------------------------------------------------
(* The discovery service implements DiscoveryLedger: each step is one entry *)
(* in the ledger of one discovery, or none.                                 *)

Unseen(id) == Stage(id)' = Stage(id) /\ Joined(id)' = Joined(id)

LEMMA NothingSeen ==
  ASSUME \A id \in Ids : Unseen(id)
  PROVE  UNCHANGED Entries
  BY DEF Entries, Unseen

LEMMA OneEntry ==
  ASSUME NEW id \in Ids, NEW stage, NEW found,
         Stage(id)' = stage, Joined(id)' = found,
         \A j \in Ids \ {id} : Unseen(j)
  PROVE  Ledger!Enter(id, stage, found)
  BY DEF Ledger!Enter, Entries, Unseen

LEMMA EntryOf ==
  ASSUME NEW id \in Ids
  PROVE  Entries[id].stage = Stage(id) /\ Entries[id].found = Joined(id)
  BY DEF Entries

\* The stage is the row's status, or depends on the sequence alone.
LEMMA StageKept ==
  ASSUME NEW id \in Ids, discoveries'[id] = discoveries[id], nextId' = nextId
  PROVE  Stage(id)' = Stage(id)
  BY DEF Stage, Exists

LEMMA DiscoverEnters ==
  ASSUME IInv, NEW name \in Names,
         \/ DiscoverCertificate(name)
         \/ DiscoverCertificateRefused(name)
         \/ DiscoverCertificateUnanswered(name)
  PROVE  Ledger!Next
<1>1. TypeOK /\ nextId \in Ids /\ IdInv(nextId) /\ nextId' = nextId + 1
  BY DEF IInv, DiscoverCertificate, DiscoverCertificateRefused,
         DiscoverCertificateUnanswered, InsertDiscovery
<1>2. PICK stage \in {"inProgress", "FAILED"} :
        discoveries' = [discoveries EXCEPT ![nextId] = [name |-> name, status |-> stage]]
  BY DEF DiscoverCertificate, DiscoverCertificateRefused,
         DiscoverCertificateUnanswered, InsertDiscovery
<1>. SUFFICES ASSUME NEW id \in Ids, id = nextId PROVE Ledger!Next
  BY <1>1
<1>3. \A j \in Ids : Joined(j)' = Joined(j)
  BY TablesJoined
     DEF DiscoverCertificate, DiscoverCertificateRefused, DiscoverCertificateUnanswered,
         InsertDiscovery
<1>4. ~Exists(id) /\ Joined(id) = {} /\ Stage(id) = "unused"
  BY <1>1 DEF IdInv, FreshIsUnused, NoRowNoLinks, Stage, TypeOK, RepositoryTypeOK
<1>5. Stage(id)' = stage
  <2>1. [name |-> name, status |-> stage] # NoRow
    BY NoRowAssumption DEF Row, Statuses
  <2>. QED
    BY <1>1, <1>2, <2>1 DEF Stage, Exists, TypeOK, RepositoryTypeOK
<1>6. ASSUME NEW j \in Ids \ {id} PROVE Unseen(j)
  <2>1. discoveries'[j] = discoveries[j]
    BY <1>1, <1>2 DEF TypeOK, RepositoryTypeOK
  <2>2. j < nextId' <=> j < nextId
    BY <1>1 DEF TypeOK, RepositoryTypeOK, Ids
  <2>. QED
    BY <1>3, <2>1, <2>2 DEF Unseen, Stage, Exists
<1>7. Ledger!Enter(id, stage, {})
  BY <1>3, <1>4, <1>5, <1>6, OneEntry
<1>8. Ledger!Start(id)
  BY <1>2, <1>4, <1>7, EntryOf DEF Ledger!Start
<1>. QED
  BY <1>8 DEF Ledger!Next

(* A Save that was committed settles its discovery.                        *)
LEMMA SaveEnters ==
  ASSUME AnswerInv, NEW id \in Ids, NEW status,
         \/ status = "COMPLETED" /\ worker[id].pc = "engine"
         \/ status = "FAILED" /\ worker[id].pc = "fail",
         SaveAccepted(id, worker[id].name, worker[id].mem, worker[id].unsaved),
         SaveDiscovery(id, worker[id].name, status, worker[id].mem),
         WorkerFrame, \A j \in Ids \ {id} : Unseen(j)
  PROVE  Ledger!Next
<1>. DEFINE w == worker[id]
<1>1. TypeOK /\ IdInv(id) /\ FailKept(id) /\ w \in Worker
  BY DEF AnswerInv, IInv, TypeOK
<1>2. w.mem \in SUBSET Serials /\ w.name \in Names
  BY <1>1 DEF Worker
<1>3. Joined(id)' = Joined(id) \cup w.mem
  BY <1>1, <1>2, LinkJoined DEF SaveDiscovery
<1>4. Stage(id)' = status
  <2>1. [name |-> w.name, status |-> status] # NoRow
    BY <1>2, NoRowAssumption DEF Row, Statuses
  <2>. QED
    BY <1>1, <2>1 DEF SaveDiscovery, Stage, Exists, TypeOK, RepositoryTypeOK
<1>5. CASE ~Exists(id)
  <2>1. w.mem = {} /\ Joined(id) = {}
    BY <1>1, <1>5 DEF SaveAccepted, IdInv, NoRowNoLinks
  <2>2. Stage(id) = "gone"
    BY <1>1, <1>5 DEF Stage, IdInv, FreshIsUnused, TypeOK, RepositoryTypeOK, Ids
  <2>3. Ledger!Enter(id, status, {})
    BY <1>3, <1>4, <2>1, OneEntry
  <2>4. Ledger!Return(id)
    BY <2>2, <2>3, EntryOf DEF Ledger!Return
  <2>. QED
    BY <2>4 DEF Ledger!Next
<1>6. CASE Exists(id) /\ status = "COMPLETED"
  <2>1. Stage(id) = "inProgress" /\ Joined(id) = w.mem
    BY <1>1, <1>6 DEF IdInv, RowMirrorsMemory, Running, Status, Stage
  <2>2. Ledger!Enter(id, "COMPLETED", Joined(id))
    BY <1>3, <1>4, <1>6, <2>1, OneEntry
  <2>3. Ledger!Complete(id)
    BY <2>1, <2>2, EntryOf DEF Ledger!Complete
  <2>. QED
    BY <2>3 DEF Ledger!Next
<1>7. CASE Exists(id) /\ status = "FAILED"
  <2>1. Stage(id) \in {"inProgress", "COMPLETED"}
    <3>1. discoveries[id].status \in Statuses
      BY <1>1, <1>7 DEF Exists, TypeOK, RepositoryTypeOK, Row
    <3>2. ~Status(id, "FAILED")
      BY <1>1, <1>7 DEF IdInv, FailedIsSettled, Settled
    <3>. QED
      BY <1>7, <3>1, <3>2 DEF Stage, Status, Statuses
  <2>2. CASE Stage(id) = "inProgress"
    <3>1. Ledger!Enter(id, "FAILED", Joined(id) \cup w.mem)
      BY <1>3, <1>4, <1>7, OneEntry
    <3>2. Ledger!Fail(id)
      BY <1>2, <2>2, <3>1, EntryOf DEF Ledger!Fail
    <3>. QED
      BY <3>2 DEF Ledger!Next
  <2>3. CASE Stage(id) = "COMPLETED"
    <3>1. Joined(id) = listed[id] /\ w.mem = listed[id]
      BY <1>1, <1>7, <2>3 DEF IdInv, CompletedIsSettled, FailKept, Status, Stage
    <3>2. Ledger!Enter(id, "FAILED", Joined(id))
      BY <1>3, <1>4, <1>7, <3>1, OneEntry
    <3>3. Ledger!Withdraw(id)
      BY <2>3, <3>2, EntryOf DEF Ledger!Withdraw
    <3>. QED
      BY <3>3 DEF Ledger!Next
  <2>. QED
    BY <2>1, <2>2, <2>3
<1>. QED
  BY <1>5, <1>6, <1>7

LEMMA WorkerEnters ==
  ASSUME AnswerInv, NEW id \in Ids, WorkerStep(id)
  PROVE  Ledger!Next \/ UNCHANGED Entries
<1>. DEFINE w == worker[id]
            certs == w.mem \cup w.batch
<1>1. TypeOK /\ IInv /\ IdInv(id) /\ w \in Worker
  BY DEF AnswerInv, IInv, TypeOK
<1>2. certs \in SUBSET Serials
  BY <1>1 DEF Worker
<1>3. WorkerFrame /\ nextId' = nextId
  BY WorkerFrames DEF WorkerFrame
<1>4. ASSUME NEW j \in Ids \ {id} PROVE Unseen(j)
  BY <1>1, <1>3, WorkerWrites, StageKept DEF Unseen
<1>5. CASE UNCHANGED <<discoveries, discovery_certificates>>
  <2>1. Unseen(id)
    BY <1>3, <1>5, TablesJoined, StageKept DEF Unseen
  <2>. QED
    BY <1>4, <2>1, NothingSeen
<1>6. CASE AppendBatch(id) /\ ~UNCHANGED <<discoveries, discovery_certificates>>
  <2>1. /\ Exists(id) /\ Link(id, certs) /\ UNCHANGED discoveries
        /\ w.pc = "store"
    BY <1>6 DEF AppendBatch, AppendAccepted, AppendCertificates, tables
  <2>2. Stage(id) = "inProgress"
    BY <1>1, <2>1 DEF IdInv, RowMirrorsMemory, Running, Status, Stage
  <2>3. Stage(id)' = "inProgress" /\ Joined(id)' = Joined(id) \cup certs
    BY <1>1, <1>2, <1>3, <2>1, <2>2, LinkJoined, StageKept
  <2>4. Ledger!Enter(id, "inProgress", Joined(id) \cup certs)
    BY <1>4, <2>3, OneEntry
  <2>5. Ledger!Find(id)
    BY <1>2, <2>2, <2>4, EntryOf DEF Ledger!Find
  <2>. QED
    BY <2>5 DEF Ledger!Next
<1>7. CASE /\ Complete(id) \/ FailDiscovery(id)
           /\ ~UNCHANGED <<discoveries, discovery_certificates>>
  <2>1. PICK status \in {"COMPLETED", "FAILED"} :
          /\ \/ status = "COMPLETED" /\ w.pc = "engine"
             \/ status = "FAILED" /\ w.pc = "fail"
          /\ SaveAccepted(id, w.name, w.mem, w.unsaved)
          /\ SaveDiscovery(id, w.name, status, w.mem)
    BY <1>7 DEF Complete, FailDiscovery, SaveStatus, tables
  <2>. QED
    BY <1>3, <1>4, <2>1, SaveEnters
<1>8. \/ AppendBatch(id) \/ Complete(id) \/ FailDiscovery(id)
      \/ UNCHANGED <<discoveries, discovery_certificates>>
  BY DEF WorkerStep, Login, ListCerts, ReadCerts, FindCertificate, CreateCertificate,
         InsertCertificate, tables
<1>. QED
  BY <1>5, <1>6, <1>7, <1>8

LEMMA ClientEnters ==
  ASSUME IInv, NEW c \in Clients, ClientStep(c)
  PROVE  Ledger!Next \/ UNCHANGED Entries
<1>1. TypeOK
  BY DEF IInv
<1>2. /\ nextId' = nextId
      /\ \/ UNCHANGED tables
         \/ request[c].op = "delete" /\ RemoveDiscovery(request[c].id)
  BY DEF ClientStep, GetFind, GetCount, GetFirst, GetPage, DeleteFind, DeleteClear,
         DeleteCommit, ClientFrame
<1>3. CASE UNCHANGED tables
  <2>1. ASSUME NEW j \in Ids PROVE Unseen(j)
    BY <1>2, <1>3, TablesJoined, StageKept DEF tables, Unseen
  <2>. QED
    BY <2>1, NothingSeen
<1>4. ASSUME NEW id, id = request[c].id, request[c].op = "delete", RemoveDiscovery(id)
      PROVE  Ledger!Next \/ UNCHANGED Entries
  <2>1. id \in Ids /\ id < nextId
    <3>1. id \in 1 .. nextId - 1
      BY <1>4 DEF IInv, RequestsKnownIds
    <3>. QED
      BY <1>1, <3>1, BoundsAssumption DEF TypeOK, RepositoryTypeOK, Ids
  <2>2. /\ discoveries'[id] = NoRow
        /\ \A j \in Ids \ {id} : discoveries'[j] = discoveries[j]
    BY <1>1, <1>4, <2>1 DEF RemoveDiscovery, TypeOK, RepositoryTypeOK
  <2>3. /\ Joined(id)' = {}
        /\ \A j \in Ids \ {id} : Joined(j)' = Joined(j)
    BY <1>4 DEF RemoveDiscovery, Joined
  <2>4. Stage(id)' = "gone"
    BY <1>2, <2>1, <2>2 DEF Stage, Exists
  <2>5. ASSUME NEW j \in Ids \ {id} PROVE Unseen(j)
    BY <1>2, <2>2, <2>3, StageKept DEF Unseen
  <2>6. CASE Exists(id)
    <3>1. Stage(id) \in {"inProgress", "COMPLETED", "FAILED"}
      BY <1>1, <2>1, <2>6 DEF Stage, Exists, TypeOK, RepositoryTypeOK, Row, Statuses
    <3>2. Ledger!Enter(id, "gone", {})
      BY <2>1, <2>3, <2>4, <2>5, OneEntry
    <3>3. Ledger!Remove(id)
      BY <2>1, <3>1, <3>2, EntryOf DEF Ledger!Remove
    <3>. QED
      BY <2>1, <3>3 DEF Ledger!Next
  <2>7. CASE ~Exists(id)
    <3>1. Stage(id) = "gone" /\ Joined(id) = {}
      BY <2>1, <2>7 DEF IInv, IdInv, NoRowNoLinks, Stage
    <3>2. Unseen(id)
      BY <2>3, <2>4, <3>1 DEF Unseen
    <3>. QED
      BY <2>5, <3>2, NothingSeen
  <2>. QED
    BY <2>6, <2>7
<1>. QED
  BY <1>2, <1>3, <1>4

LEMMA LedgerInit == Init => Ledger!Init
<1>. SUFFICES ASSUME Init PROVE Ledger!Init
  OBVIOUS
<1>1. ASSUME NEW id \in Ids PROVE Stage(id) = "unused" /\ Joined(id) = {}
  BY BoundsAssumption DEF Init, RepositoryInit, Stage, Exists, Joined, Ids
<1>. QED
  BY <1>1 DEF Ledger!Init, Entries

LEMMA LedgerStep ==
  ASSUME AnswerInv, [Next]_vars
  PROVE  [Ledger!Next]_Entries
<1>1. IInv
  BY DEF AnswerInv
<1>2. CASE Crash \/ UNCHANGED vars
  <2>1. ASSUME NEW j \in Ids PROVE Unseen(j)
    BY <1>2, TablesJoined, StageKept DEF Crash, vars, tables, Unseen
  <2>. QED
    BY <2>1, NothingSeen
<1>. QED
  BY <1>1, <1>2, DiscoverEnters, WorkerEnters, ClientEnters DEF Next

(* What a reader of the tables sees of the discovery service is a          *)
(* DiscoveryLedger: a settled discovery is never taken up again, one that  *)
(* comes back is empty, completing one adds no certificate, and no step of *)
(* a worker, a client or a crash reaches two discoveries.                  *)
THEOREM LedgerCorrect == Spec => KeepsALedger
<1>1. Init => Ledger!Init
  BY LedgerInit
<1>2. AnswerInv /\ [Next]_vars => [Ledger!Next]_Entries
  BY LedgerStep
<1>. QED
  BY <1>1, <1>2, AnswersInductive, PTL DEF Spec, KeepsALedger, Ledger!Spec
=============================================================================
