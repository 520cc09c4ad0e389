-------------------------- MODULE DiscoveryService --------------------------
(***************************************************************************)
(* The discovery service (internal/discovery): the three HTTP handlers and *)
(* the goroutine DiscoveryCertificates that each accepted discovery leaves *)
(* running.  Handlers run concurrently with each other and with every      *)
(* worker; they share nothing but the database, so a step here is one      *)
(* database transaction or one run of calls to the vault.                  *)
(***************************************************************************)
EXTENDS DiscoveryRepository

CONSTANTS
  Clients,      \* concurrent GetDiscovery and DeleteDiscovery requests
  MaxEngines,   \* bound: PKI engines one discovery goes through
  MaxCrashes,   \* bound: times the process is killed and started again
  NoSerial      \* the value of cur when no certificate is being inserted

ASSUME EnginesAssumption == MaxEngines \in Nat /\ MaxCrashes \in Nat
ASSUME NoSerialAssumption == NoSerial \notin Serials

VARIABLES
  worker,    \* discovery id -> the goroutine that discovers it
  request,   \* client -> its request in flight, or its last answer
  crashes,   \* crashes so far
  listed,    \* history: discovery id -> the serials the vault listed for it
  deleted    \* history: the discovery ids whose row a client deleted

vars == <<discoveries, certificates, discovery_certificates, nextId, dbErrors,
          worker, request, crashes, listed, deleted>>

-----------------------------------------------------------------------------
(* A worker holds what DiscoveryCertificates has in memory: mem is the     *)
(* Certificates field of the discovery, unsaved the serials whose struct   *)
(* has no key, batch the certificates of the engine at hand, todo those    *)
(* FirstOrCreate has not been called for.                                  *)

Running == {"login", "engine", "read", "store", "insert", "fail"}

PCs == Running \cup {"none", "done", "dead"}

Worker == [pc : PCs, name : Names, engines : 0 .. MaxEngines,
           batch : SUBSET Serials, todo : SUBSET Serials,
           cur : Serials \cup {NoSerial},
           mem : SUBSET Serials, unsaved : SUBSET Serials]

Live(id) == worker[id].pc \in Running

(* A request keeps what its handler has read: the discovery's key, the     *)
(* status GetDiscovery saw, the total it counted and the certificates of   *)
(* the page (one page holds them all), or the join rows a delete cleared.  *)

Ops == {"idle", "count", "page", "rows", "clear", "delete", "answered"}

Answers == {"none", "inProgress", "completed", "panic", "deleted", "conflict"}

Request == [op : Ops, id : 0 .. MaxDiscoveries, seen : Statuses,
            total : Nat, rows : SUBSET Serials, answer : Answers]

NoRequest == [op |-> "idle", id |-> 0, seen |-> "inProgress",
              total |-> 0, rows |-> {}, answer |-> "none"]

TypeOK ==
  /\ RepositoryTypeOK
  /\ worker \in [Ids -> Worker]
  /\ request \in [Clients -> Request]
  /\ crashes \in 0 .. MaxCrashes
  /\ listed \in [Ids -> SUBSET Serials]
  /\ deleted \subseteq Ids

NoWorker(name) ==
  [pc |-> "none", name |-> name, engines |-> 0, batch |-> {}, todo |-> {},
   cur |-> NoSerial, mem |-> {}, unsaved |-> {}]

Init ==
  /\ RepositoryInit
  /\ worker = [id \in Ids |-> NoWorker(CHOOSE n \in Names : TRUE)]
  /\ request = [c \in Clients |-> NoRequest]
  /\ crashes = 0
  /\ listed = [id \in Ids |-> {}]
  /\ deleted = {}

-----------------------------------------------------------------------------
(* DiscoverCertificate.  The lookup of the authority and the answer change *)
(* nothing; what remains is the row and the goroutine.                     *)

(* CreateDiscovery committed: the goroutine starts with the engines the    *)
(* request named, or with all those of the vault.                          *)
DiscoverCertificate(name) ==
  /\ InsertDiscovery(name, "inProgress")
  /\ \E n \in 0 .. MaxEngines :
       worker' = [worker EXCEPT ![nextId] =
                    [NoWorker(name) EXCEPT !.pc = "login", !.engines = n]]
  /\ UNCHANGED <<request, crashes, listed, deleted>>

(* The vault could not be asked for its engines: failDiscovery saves a     *)
(* discovery that has no key yet, which inserts it.                        *)
DiscoverCertificateRefused(name) ==
  /\ InsertDiscovery(name, "FAILED")
  /\ UNCHANGED <<worker, request, crashes, listed, deleted>>

(* The INSERT was committed but its answer was lost: the client is told    *)
(* 404, the row stays and no goroutine is started.                         *)
DiscoverCertificateUnanswered(name) ==
  /\ TransportError
  /\ nextId \in Ids
  /\ ~NameTaken(name)
  /\ discoveries' = [discoveries EXCEPT ![nextId] =
                       [name |-> name, status |-> "inProgress"]]
  /\ nextId' = nextId + 1
  /\ UNCHANGED <<certificates, discovery_certificates, worker, request,
                 crashes, listed, deleted>>

-----------------------------------------------------------------------------
(* DiscoveryCertificates. *)

WorkerFrame == UNCHANGED <<nextId, request, crashes, deleted>>

Goto(id, w) == worker' = [worker EXCEPT ![id] = w]

Login(id) ==
  /\ worker[id].pc = "login"
  /\ \E pc \in {"engine", "fail"} : Goto(id, [worker[id] EXCEPT !.pc = pc])
  /\ WorkerFrame /\ UNCHANGED <<tables, dbErrors, listed>>

(* The loop over the list of engines. *)

\* Mutant: one turn too many.
EnginesLeftOffByOne(w) == w.engines >= 0

EnginesLeft(w) == w.engines > 0

\* Mutant: the loop does not advance.
SameEngineAgain(w) == w.engines

EnginesAfter(w) == w.engines - 1

(* PkiListCerts: the vault answers a list that would be empty with 404, so *)
(* the keys are never empty.                                               *)
ListCerts(id) ==
  /\ worker[id].pc = "engine"
  /\ EnginesLeft(worker[id])
  /\ \/ \E keys \in SUBSET Serials \ {{}} :
          /\ Goto(id, [worker[id] EXCEPT !.pc = "read", !.batch = keys,
                                         !.engines = EnginesAfter(worker[id])])
          /\ listed' = [listed EXCEPT ![id] = @ \cup keys]
     \/ /\ Goto(id, [worker[id] EXCEPT !.pc = "fail"])
        /\ UNCHANGED listed
  /\ WorkerFrame /\ UNCHANGED <<tables, dbErrors>>

(* PkiReadCert of every key; one that cannot be read fails the discovery   *)
(* before any certificate of this engine is stored.                        *)
\* Mutant: a certificate that cannot be read only skips its engine.
ReadCertsSkipsEngine(id) ==
  /\ worker[id].pc = "read"
  /\ \/ Goto(id, [worker[id] EXCEPT !.pc = "store", !.todo = worker[id].batch])
     \/ Goto(id, [worker[id] EXCEPT !.pc = "engine", !.batch = {}])
  /\ WorkerFrame /\ UNCHANGED <<tables, dbErrors, listed>>

ReadCerts(id) ==
  /\ worker[id].pc = "read"
  /\ \/ Goto(id, [worker[id] EXCEPT !.pc = "store", !.todo = worker[id].batch])
     \/ Goto(id, [worker[id] EXCEPT !.pc = "fail", !.batch = {}])
  /\ WorkerFrame /\ UNCHANGED <<tables, dbErrors, listed>>

(* The SELECT of FirstOrCreate.  Its error leaves the struct without key.  *)
FindCertificate(id) ==
  /\ worker[id].pc = "store"
  /\ \E s \in worker[id].todo :
       \/ /\ CertificateFound(s)
          /\ Goto(id, [worker[id] EXCEPT !.todo = @ \ {s}])
          /\ UNCHANGED dbErrors
       \/ /\ ~CertificateFound(s)
          /\ Goto(id, [worker[id] EXCEPT !.pc = "insert", !.cur = s])
          /\ UNCHANGED dbErrors
       \/ /\ TransportError
          /\ Goto(id, [worker[id] EXCEPT !.todo = @ \ {s}, !.unsaved = @ \cup {s}])
  /\ WorkerFrame /\ UNCHANGED <<tables, listed>>

(* The INSERT of FirstOrCreate, whose error nobody looks at. *)
CreateCertificate(id) ==
  LET w == worker[id]
      stored == [w EXCEPT !.pc = "store", !.todo = @ \ {w.cur}, !.cur = NoSerial]
      notStored == [stored EXCEPT !.unsaved = @ \cup {w.cur}]
  IN /\ w.pc = "insert"
     /\ \/ /\ InsertCertificate(w.cur)
           /\ \/ Goto(id, stored) /\ UNCHANGED dbErrors
              \/ Goto(id, notStored) /\ TransportError
        \/ /\ CertificateFound(w.cur)
           /\ Goto(id, notStored)
           /\ UNCHANGED <<tables, dbErrors>>
        \/ /\ Goto(id, notStored)
           /\ TransportError
           /\ UNCHANGED tables
     /\ WorkerFrame /\ UNCHANGED listed

(* Append of AssociateCertificatesToDiscovery, once every certificate of   *)
(* the engine went through FirstOrCreate.  The field in memory grows even  *)
(* when nothing is written.                                                *)
AppendBatch(id) ==
  LET w == worker[id]
      certs == w.mem \cup w.batch
      appended == [w EXCEPT !.pc = "engine", !.mem = certs, !.batch = {}, !.unsaved = {}]
      failed == [w EXCEPT !.pc = "fail", !.mem = certs, !.batch = {}]
  IN /\ w.pc = "store"
     /\ w.todo = {}
     /\ \/ /\ AppendAccepted(id, w.unsaved)
           /\ AppendCertificates(id, certs)
           /\ \/ Goto(id, appended) /\ UNCHANGED dbErrors
              \/ Goto(id, [failed EXCEPT !.unsaved = {}]) /\ TransportError
        \/ /\ ~AppendAccepted(id, w.unsaved)
           /\ Goto(id, failed)
           /\ UNCHANGED <<tables, dbErrors>>
        \/ /\ Goto(id, failed)
           /\ TransportError
           /\ UNCHANGED tables
     /\ WorkerFrame /\ UNCHANGED listed

(* UpdateDiscovery with a status: Save, what it commits and whether the    *)
(* caller sees an error.                                                   *)
SaveStatus(id, status, onSuccess, onError) ==
  LET w == worker[id]
      committed == /\ SaveAccepted(id, w.name, w.mem, w.unsaved)
                   /\ SaveDiscovery(id, w.name, status, w.mem)
  IN /\ \/ /\ committed
           /\ \/ Goto(id, [w EXCEPT !.pc = onSuccess]) /\ UNCHANGED dbErrors
              \/ Goto(id, [w EXCEPT !.pc = onError]) /\ TransportError
        \/ /\ ~SaveAccepted(id, w.name, w.mem, w.unsaved)
           /\ Goto(id, [w EXCEPT !.pc = onError])
           /\ UNCHANGED <<tables, dbErrors>>
        \/ /\ Goto(id, [w EXCEPT !.pc = onError])
           /\ TransportError
           /\ UNCHANGED tables
     /\ WorkerFrame /\ UNCHANGED listed

(* No engine is left: the discovery is saved as completed, and as failed   *)
(* when that reports an error.                                             *)

\* Mutant: a completed discovery falls through to failDiscovery.
CompleteThenFail(id) ==
  /\ worker[id].pc = "engine"
  /\ ~EnginesLeft(worker[id])
  /\ SaveStatus(id, "COMPLETED", "fail", "fail")

Complete(id) ==
  /\ worker[id].pc = "engine"
  /\ ~EnginesLeft(worker[id])
  /\ SaveStatus(id, "COMPLETED", "done", "fail")

(* failDiscovery, and the two places that spell it out; an error of the    *)
(* Save is logged and forgotten.                                           *)
FailDiscovery(id) ==
  /\ worker[id].pc = "fail"
  /\ SaveStatus(id, "FAILED", "done", "done")

WorkerStep(id) ==
  \/ Login(id) \/ ListCerts(id) \/ ReadCerts(id)
  \/ FindCertificate(id) \/ CreateCertificate(id) \/ AppendBatch(id)
  \/ Complete(id) \/ FailDiscovery(id)

-----------------------------------------------------------------------------
(* GetDiscovery reads the discovery, counts its certificates, reads the    *)
(* discovery again and then a page of them, in independent queries.        *)

ClientFrame == UNCHANGED <<nextId, worker, crashes, listed>>

Free(c) == request[c].op \in {"idle", "answered"}

Reply(c, r, answer) ==
  request' = [request EXCEPT ![c] = [r EXCEPT !.op = "answered", !.answer = answer]]

Proceed(c, r) == request' = [request EXCEPT ![c] = r]

(* FindDiscoveryByUUID and the test of the status.  A 404 leaves no trace. *)
GetFind(c, id) ==
  LET row == discoveries[id]
      r == [NoRequest EXCEPT !.id = id, !.seen = row.status]
  IN /\ Free(c)
     /\ Exists(id)
     /\ IF row.status = "IN_PROGRESS" THEN Reply(c, r, "inProgress")
                                      ELSE Proceed(c, [r EXCEPT !.op = "count"])
     /\ ClientFrame /\ UNCHANGED <<tables, dbErrors, deleted>>

(* Association.Count: an error is dropped and counts as 0, and a total of  *)
(* 0 is answered at once.                                                  *)
GetCount(c) ==
  LET r == request[c]
      n == Cardinality(Joined(r.id))
      counted == IF n = 0 THEN Reply(c, r, "completed")
                          ELSE Proceed(c, [r EXCEPT !.op = "page", !.total = n])
  IN /\ r.op = "count"
     /\ \/ counted /\ UNCHANGED dbErrors
        \/ Reply(c, r, "completed") /\ TransportError
     /\ ClientFrame /\ UNCHANGED <<tables, deleted>>

(* First.  List's error is dropped by the handler, which then reads the    *)
(* rows of a nil pagination.                                               *)
GetFirst(c) ==
  LET r == request[c]
  IN /\ r.op = "page"
     /\ \/ Exists(r.id) /\ Proceed(c, [r EXCEPT !.op = "rows"]) /\ UNCHANGED dbErrors
        \/ ~Exists(r.id) /\ Reply(c, r, "panic") /\ UNCHANGED dbErrors
        \/ Reply(c, r, "panic") /\ TransportError
     /\ ClientFrame /\ UNCHANGED <<tables, deleted>>

\* Mutant: the page after the one that was asked for is served.
GetPageOffByOne(c) ==
  LET r == request[c]
  IN /\ r.op = "rows"
     /\ \/ Reply(c, [r EXCEPT !.rows = {}], "completed") /\ UNCHANGED dbErrors
        \/ Reply(c, r, "panic") /\ TransportError
     /\ ClientFrame /\ UNCHANGED <<tables, deleted>>

(* Preload, a query of its own: of the join rows, and then of certificates *)
(* that nobody changes.                                                    *)
GetPage(c) ==
  LET r == request[c]
  IN /\ r.op = "rows"
     /\ \/ Reply(c, [r EXCEPT !.rows = Joined(r.id)], "completed") /\ UNCHANGED dbErrors
        \/ Reply(c, r, "panic") /\ TransportError
     /\ ClientFrame /\ UNCHANGED <<tables, deleted>>

(* DeleteDiscovery: a read and then the transaction of the repository.     *)
DeleteFind(c, id) ==
  /\ Free(c)
  /\ Exists(id)
  /\ Proceed(c, [NoRequest EXCEPT !.op = "clear", !.id = id])
  /\ ClientFrame /\ UNCHANGED <<tables, dbErrors, deleted>>

DeleteClear(c) ==
  LET r == request[c]
  IN /\ r.op = "clear"
     /\ Proceed(c, [r EXCEPT !.op = "delete", !.rows = Joined(r.id)])
     /\ ClientFrame /\ UNCHANGED <<tables, dbErrors, deleted>>

DeleteCommit(c) ==
  LET r == request[c]
      removed == /\ DeleteAccepted(r.id, r.rows)
                 /\ RemoveDiscovery(r.id)
                 /\ deleted' = deleted \cup {r.id}
  IN /\ r.op = "delete"
     /\ \/ removed /\ Reply(c, r, "deleted") /\ UNCHANGED dbErrors
        \/ removed /\ Reply(c, r, "conflict") /\ TransportError
        \/ /\ ~DeleteAccepted(r.id, r.rows)
           /\ Reply(c, r, "conflict")
           /\ UNCHANGED <<tables, dbErrors, deleted>>
        \/ /\ Reply(c, r, "conflict")
           /\ TransportError
           /\ UNCHANGED <<tables, deleted>>
     /\ ClientFrame

ClientStep(c) ==
  \/ \E id \in Ids : GetFind(c, id) \/ DeleteFind(c, id)
  \/ GetCount(c) \/ GetFirst(c) \/ GetPage(c)
  \/ DeleteClear(c) \/ DeleteCommit(c)

-----------------------------------------------------------------------------
(* The process is killed and started again: goroutines and requests are    *)
(* gone, the tables stay, and start-up looks at no discovery.              *)
Crash ==
  /\ crashes < MaxCrashes
  /\ crashes' = crashes + 1
  /\ worker' = [id \in Ids |-> IF Live(id) THEN [worker[id] EXCEPT !.pc = "dead"]
                                           ELSE worker[id]]
  /\ request' = [c \in Clients |-> NoRequest]
  /\ UNCHANGED <<tables, nextId, dbErrors, listed, deleted>>

Next ==
  \/ \E name \in Names :
       \/ DiscoverCertificate(name)
       \/ DiscoverCertificateRefused(name)
       \/ DiscoverCertificateUnanswered(name)
  \/ \E id \in Ids : WorkerStep(id)
  \/ \E c \in Clients : ClientStep(c)
  \/ Crash

Spec == Init /\ [][Next]_vars

(* A call to the vault ends, at the latest, with the client's time-out and *)
(* a database call with its connection, so a goroutine never stops for     *)
(* good; nothing obliges a client to send a request.                       *)
FairSpec == Spec /\ \A id \in Ids : WF_vars(WorkerStep(id))

-----------------------------------------------------------------------------
(* Properties. *)

Status(id, status) == Exists(id) /\ discoveries[id].status = status

(* A discovery saved as COMPLETED is joined with every certificate the     *)
(* vault listed for it and with no other, although FirstOrCreate drops its *)
(* errors, other discoveries store the same serials at the same time and   *)
(* clients delete rows under the worker.                                   *)
CompletedIsComplete ==
  \A id \in Ids : Status(id, "COMPLETED") => Joined(id) = listed[id]

(* A Save that matches no row inserts it, so a deleted discovery can come *)
(* back; but what comes back never has a certificate.                      *)
ResurrectedIsEmpty == \A id \in deleted : Joined(id) = {}

(* Without database errors, a worker that ended leaves its row inProgress  *)
(* only when another discovery stored one of its serials between the two   *)
(* statements of FirstOrCreate.                                            *)
OnlyConflictStrands(id) ==
  dbErrors = 0 /\ worker[id].pc = "done" /\ Status(id, "inProgress")
    => ~LinksAccepted(worker[id].unsaved)

StrandedOnlyByConflict == \A id \in Ids : OnlyConflictStrands(id)

(* A discovery that is settled stays as it is until it is deleted, save    *)
(* for a completed one whose Save was committed but not answered: that is  *)
(* saved again, as FAILED.                                                 *)
SettledStays ==
  [][\A id \in Ids :
       Exists(id) /\ Exists(id)' =>
         \/ Status(id, "inProgress")
         \/ discoveries'[id] = discoveries[id]
         \/ dbErrors > 0 /\ Status(id, "COMPLETED") /\ Status(id, "FAILED")']_vars

(* GetDiscovery's queries agree for a discovery that had ended when the    *)
(* first ran, although they are not one transaction.  The total is the     *)
(* number of certificates served, unless a delete fell after the count and *)
(* before the rows were read, which leaves a total and no rows.  A         *)
(* completed discovery is served whole or empty and its total is that of   *)
(* what the vault listed or 0; it is empty in spite of certificates listed *)
(* only when it was deleted or the count failed.                           *)
FinishedAnswerIsWhole ==
  \A c \in Clients :
    LET r == request[c]
    IN r.answer = "completed" /\ r.seen # "inProgress" =>
         /\ r.total # Cardinality(r.rows) => r.id \in deleted /\ r.rows = {}
         /\ r.seen = "COMPLETED" =>
              /\ r.rows \in {listed[r.id], {}}
              /\ r.total \in {Cardinality(listed[r.id]), 0}
              /\ r.rows # listed[r.id] => r.id \in deleted \/ dbErrors > 0

(* GetDiscovery dereferences a nil page only when the discovery was        *)
(* deleted after it was found, or the database failed.                     *)
PanicOnlyIfDeleted ==
  \A c \in Clients :
    request[c].answer = "panic" /\ dbErrors = 0 => request[c].id \in deleted

(* What a reader of the tables sees is a DiscoveryLedger: no step of a     *)
(* worker, a client or a crash does anything else to a discovery, or       *)
(* anything to two of them, whatever fails and whoever comes in between.   *)
Stage(id) ==
  IF Exists(id) THEN discoveries[id].status
  ELSE IF id < nextId THEN "gone" ELSE "unused"

Entries == [id \in Ids |-> [stage |-> Stage(id), found |-> Joined(id)]]

Ledger == INSTANCE DiscoveryLedger
            WITH Discoveries <- Ids, Certificates <- Serials, ledger <- Entries

KeepsALedger == Ledger!Spec

(* Every goroutine ends: no outcome of the vault or of the database makes  *)
(* DiscoveryCertificates wait for ever.                                    *)
WorkerStops == \A id \in Ids : Live(id) ~> ~Live(id)

(* While no call to the database fails and the process lives, a running    *)
(* discovery gets a final status, unless it is deleted or stranded by a    *)
(* conflict over a certificate.                                            *)
RunningSettles ==
  \A id \in Ids :
    Status(id, "inProgress") /\ Live(id) ~>
      \/ ~Status(id, "inProgress")
      \/ dbErrors > 0 \/ worker[id].pc = "dead"
      \/ ~LinksAccepted(worker[id].unsaved)

(* GetDiscovery answers "completed" only for a discovery that has ended:   *)
(* it means to answer a running one with inProgress.                       *)
RunningIsNotAnsweredCompleted ==
  \A c \in Clients : request[c].answer = "completed" => request[c].seen # "inProgress"

(* failDiscovery "marks the discovery as failed and persists it": no       *)
(* goroutine that has ended leaves its row inProgress.                     *)
FailDiscoveryPersists ==
  \A id \in Ids : worker[id].pc = "done" => ~Status(id, "inProgress")

-----------------------------------------------------------------------------
(* The inductive invariant behind CompletedIsComplete, ResurrectedIsEmpty, *)
(* StrandedOnlyByConflict and SettledStays (proved in DiscoveryProofs): a  *)
(* part about requests and parts about each discovery.                     *)

\* A handler at work holds the key of a discovery that was handed out.
RequestsKnownIds ==
  \A c \in Clients :
    request[c].op \in {"count", "page", "rows", "clear", "delete"} =>
      request[c].id \in 1 .. nextId - 1

Settled == {"none", "done", "dead"}

InsertsACertificate(id) == worker[id].pc = "insert" => worker[id].cur # NoSerial

FreshIsUnused(id) ==
  id >= nextId => ~Exists(id) /\ worker[id].pc = "none" /\ id \notin deleted

NoRowNoLinks(id) == ~Exists(id) => Joined(id) = {}

\* Until it gives up, a worker has in memory what the vault listed.
MemoryIsListed(id) ==
  LET w == worker[id]
  IN /\ w.pc = "none" => listed[id] = {}
     /\ w.pc \in {"login", "engine"} => w.mem = listed[id]
     /\ w.pc \in {"read", "store", "insert"} => w.mem \cup w.batch = listed[id]

\* Until it gives up, what a worker has in memory is what its row has.
RowMirrorsMemory(id) ==
  Exists(id) /\ worker[id].pc \in Running \ {"fail"} =>
    Status(id, "inProgress") /\ Joined(id) = worker[id].mem

CompletedIsSettled(id) ==
  Status(id, "COMPLETED") =>
    /\ Joined(id) = listed[id]
    /\ \/ worker[id].pc \in Settled
       \/ worker[id].pc = "fail" /\ dbErrors > 0

FailedIsSettled(id) == Status(id, "FAILED") => worker[id].pc \in Settled

DeletedIsEmpty(id) ==
  id \in deleted =>
    /\ Joined(id) = {}
    /\ Exists(id) => \/ worker[id].pc \in Settled
                     \/ worker[id].pc = "fail" /\ worker[id].mem = {}

IdInv(id) ==
  /\ InsertsACertificate(id)
  /\ FreshIsUnused(id)
  /\ NoRowNoLinks(id)
  /\ MemoryIsListed(id)
  /\ RowMirrorsMemory(id)
  /\ CompletedIsSettled(id)
  /\ FailedIsSettled(id)
  /\ DeletedIsEmpty(id)
  /\ OnlyConflictStrands(id)

IInv == TypeOK /\ RequestsKnownIds /\ \A id \in Ids : IdInv(id)
=============================================================================
