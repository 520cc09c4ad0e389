# Specifications of the HashiCorp Vault connector

TLA+ modules that model the connector, TLC configurations that check them on small instances, and
proofs TLAPS checks for every instance.  The source is the reference: paths below are relative to
`src/`, and `PROJECT.json` maps every definition to the lines it stands for.

## The system

One Go process (`cmd/main.go`) serves HTTP operations over one PostgreSQL database and a set of
HashiCorp Vault servers, for the platform that calls it.  Three function groups share the process:

- the **authority provider** keeps *authority instances* (a vault address with credentials) in the
  database and issues, renews and revokes certificates with them;
- the **discovery provider** lists the certificates of the pki engines of an authority's vault and
  stores them, in a goroutine that outlives the request that started it;
- the **secret provider** keeps secrets in a vault's key-value engines.  It has no table: every
  request carries the address and the credentials.

Every request runs in a goroutine of its own under a background context (`logMiddleware`), so a
client that goes away cancels nothing.  Several replicas may share the database and the vaults.

### Components

| Component | Code | State | Operations and calls | What makes it correct | Status |
|---|---|---|---|---|---|
| Discovery repository | `internal/db/discovery.go`, `migrations/` | tables `discoveries`, `certificates`, `discovery_certificates` | Create, FirstOrCreate + Append, Save, Find, List, Delete | keys and foreign keys hold; a committed call leaves no half of its work | modelled |
| Discovery service | `internal/discovery/api_discovery_service.go` | one goroutine per discovery with the discovery struct in memory | DiscoverCertificate, DiscoveryCertificates, failDiscovery, GetDiscovery, DeleteDiscovery; calls both repositories and the vault | a completed discovery is complete, every discovery gets a final status, answers agree with what is stored | modelled |
| Secret manager | `internal/secret/vault/` | a lock per secret, in memory | Create, Update, Delete, Read, DetectKVVersion | requests for a secret take effect one at a time; a create replaces nothing; a lock is given back | modelled |
| Secret content | `internal/secret/vault/vault.go`, `read.go`, `model/payload.go` | none | ToPayload, FromPayload | what was stored is read back | modelled |
| Secret requests and attributes | `internal/secret/` handlers, `needs.go`, `helpers.go`, `const.go`, `problemjson.go` | the service account token, read at start | list attributes, check a connection, check attributes, log in, call the manager, map errors to problems | what is offered is accepted; what is refused is refused before anything is changed; a secret is read back from where the platform meant it to be | modelled |
| Authority registry | `internal/db/authority.go`, `internal/authority/api_authority_management_service.go`, `helpers.go`, `internal/vault/vault.go` | table `authority_instances` | create, update, remove, get, list, GetConnection, RAProfileCallback | a stored row is one request's work, was connected when it was new, and is changed only by who read it | modelled |
| Certificate operations | `internal/authority/api_certificate_management_service.go`, `internal/utils/` | none of its own, the pki engine's | issue, renew, revoke, identify, CA chain, CRL | the certificate answered is the one asked for; no more are issued than answers were lost; only what was asked for is revoked | modelled |
| Attribute model | `internal/model/attributes.go`, `model.go` | a constant catalogue | conversions of attributes from and to JSON | nothing that a login or an answer needs is lost | modelled |
| Attribute services | `*/api_connector_attributes_service.go`, `ra_profile_attributes.go`, `internal/vault/engines.go` | none | list definitions, callbacks; the services that read the form | what is offered is accepted, what is selected is used | modelled |
| Controllers and routing | `api_*.go`, `internal/model/routers.go`, `error.go`, `cmd/main.go` | the list of advertised endpoints | route, read, decode, check, answer | a request reaches its own handler; what is advertised is what is served | modelled |
| Transfer objects | `internal/model/` | none | required fields | | in part |
| Generated secret model | `internal/secret/model/model.gen.go` | none | unions of contents and attributes | | in part |
| Database connection | `internal/db/db.go`, `migrations/` | none | connect, migrate | | the constraints only |
| Health and information services | `internal/health/`, `internal/connectorInfo/` | none | constant answers, the list of endpoints | | in part |
| Metrics, logging, configuration, packaging | `internal/metrics/`, `internal/logger/`, `internal/config/`, build files | none | | | left out |

Components interact through the two databases, the table and the vault, and in one place through
memory: `DiscoverCertificate` hands its goroutine a copy of the authority row, which no later
update or removal reaches.

### What is hard

- **Steps of several actors.**  No handler opens a transaction over a read and a write (only
  `DeleteDiscovery` has one over two writes), and gorm's `FirstOrCreate` is a SELECT and an INSERT.
  Workers, readers, updates and deletes interleave between any two statements.
- **Save is not an update.**  gorm's `Save` inserts the row again when its UPDATE matches none.
- **Failure of one step of several.**  A statement may be committed and its answer lost, and the
  code that should record a failure may fail itself.
- **Restarts.**  A killed process forgets its goroutines; nothing at start-up looks for the
  discoveries they left.
- **Lost answers and retries.**  The vault client repeats a call that gets no answer, and a call
  that was given up may still be executed.
- **Locks in one process**, when the vault has other users and the connector other replicas.
- **Forms.**  The platform shows attributes, lets callbacks depend on a choice, and hands back
  loosely typed lists later, when mounts, rows and the token file may have changed; the handlers
  index and assert without checks.
- **Tables that must agree.**  Routes are registered in the order of Go maps and matched first
  come, first served; the attributes offered, their callbacks and the checks of a request are three
  pieces of code.

`PROJECT.json` lists each of these at the line where it bites (`hazards`), with the properties that
would catch it going wrong.

## Modules

| Module | Models | State ↔ code |
|---|---|---|
| `DiscoveryRepository` | the three tables and each repository call as the statements and transactions gorm issues | `discoveries`, `certificates`, `discovery_certificates` are the tables, `nextId` the serial, `dbErrors` a bound on failing calls |
| `DiscoveryService` (EXTENDS it) | workers, reading and deleting clients, crashes | `worker[id]` is the goroutine and the `Discovery` struct it holds (`mem` its Certificates, `unsaved` those without a key), `request[c]` what a handler has read so far; `listed` and `deleted` are histories; refines `DiscoveryLedger` by `ledger <- Entries` |
| `DiscoveryLedger` | what a reader of the tables may see of a discovery: started, finding, settled, removed, perhaps back | `ledger[d]` its stage and what it found |
| `SecretStore` | the abstract promise: each request happens at one instant, or is excused | `store` and `task` |
| `SharedStore` (EXTENDS it) | what is left of it when others change the same secrets: an update, and a create on version 1, is a look and a later write; a write that was given up may still land | `owed` what was sent and nobody waits for |
| `SecretManager` | the four operations with lock, version detection, reads, writes, retries, late calls, other users, crashes | `vault` the engines, `locks` the `RWMutexMap` of each process, `call[r]` the handler of a request, `late` calls nobody waits for; refines `SecretStore` by `store <- vault` and `task <- Tasks`, and `SharedStore` by these, `task <- SharedTasks` and `owed <- late` |
| `AuthorityRegistry` | the table of authorities and the handlers that change or use it | `authorities[id]` the row with that key, `lastId` the serial, `requests[r]` a handler with the row it read (`row`, `id`) and the login it obtained (`client`) |
| `CertificateManagement` | the handlers that issue, renew, revoke, identify and read chains, with lost answers and repeated calls, while authorities change | `rows` what an authority's row says, `issued` and `revoked` the pki engines, `request[r]` a handler: the vault it read, the calls it lost, the certificates made for it |
| `AttributeModel` | the catalogue of attributes and the conversions between Go values and JSON | no state: `AttributeList` is the catalogue, `Unmarshal...` and `Marshal...` the functions of the same names |
| `AttributeExchange` (EXTENDS it) | lists, callbacks and the services that read a filled-in form | `engines` the mounts, `tokenFile` the service account token, `table` the rows, `form` what the platform has open, `answer` the last one handed in |
| `Endpoints` | every route with its handler and the body it takes | no state: a table |
| `Connector` (EXTENDS it and `AttributeModel`) | start-up, the multiplexers and routers, and what a controller does before it calls its service | `step` the calls of `populateRoutes` done, `advertised` the list they make, `exchange` the request being served |
| `SecretContent` | ToPayload and FromPayload for each type of secret | no state: operators on contents and payloads |
| `SecretRequests` (EXTENDS it) | every handler of the secret interface behind its route: Needs, login, path, operation, status | `k8sToken` what the process read at start, `vault` the payloads, `form` what the platform has configured, `answer` the last request; `written` is a history |
| `MC...` | instances for TLC: symmetry and small definitions of constants | |
| `DiscoveryProofs`, `AnswerProofs`, `SecretProofs`, `AuthorityProofs`, `CertificateProofs`, `RequestProofs`, `ExchangeProofs`, `ConnectorProofs` | proofs | |

How they fit together: `Connector` ends where a service is called; `AttributeExchange` and
`SecretRequests` take a request from the form to its effect, one at a time, because their question
is what the data means; `DiscoveryService`, `AuthorityRegistry`, `CertificateManagement` and
`SecretManager` take the same operations apart into steps and interleave them, because theirs is who
comes in between.  `SecretRequests` has the manager act at once, which is what the refinement
`Atomic` of `SecretManager` allows for one process; `CertificateManagement` has authorities change as
`AuthorityRegistry` does, a row at a time.

One action is one statement or transaction of the database, or one call to the vault, with
everything the code does before the next one.  Each handler's answers, early returns and error paths
are in its actions.  Definitions whose comment starts with *Mutant* are faulty variants of the
definition after them; they are used by no specification, only to show that a property can fail.

Data is abstracted to what the properties tell apart: a certificate is its serial (in
`CertificateManagement`, where, for whom and for what it was issued), an attribute list in
`AuthorityRegistry` the fields that reach a column; the content of attributes and secrets is a tagged
value with its JSON form (a string, an object, a number, a PEM block or its base64). `DeterministicGUID`
is taken to be injective (it keeps 64 bits of an MD5). `DiscoveryRepository` has one page hold all
certificates.

What is external is modelled from how the code uses it: gorm (Save, FirstOrCreate, the association
of `Append`), PostgreSQL's constraints from `migrations/`, the key-value engines (a 404 for what is
not there, cas 0 for what must not be), the pki engines, the retries of the vault client, gorilla/mux and
`http.ServeMux` (the first route that matches, the longest pattern), and the platform, which fills
forms in as their definitions say, sends them back as objects or as strings, and takes one answer
at a time.

## What TLC checks

| Run | Instance | Shows |
|---|---|---|
| `DiscoveryWorkers` | two discoveries that share a certificate, two clients, one database error, one crash | the type invariant; `CompletedIsComplete`: a completed discovery is joined with exactly what was listed; `ResurrectedIsEmpty`; `StrandedOnlyByConflict`: without errors only a conflict over a certificate leaves an ended discovery inProgress; `SettledStays`; `FinishedAnswerIsWhole`: GetDiscovery's queries add up, but for a delete between the last two; `PanicOnlyIfDeleted` |
| `DiscoveryLiveness` | two discoveries that share a certificate, one client, one database error, one crash | under fairness `WorkerStops` and `RunningSettles`; `KeepsALedger`: the service implements `DiscoveryLedger` |
| `SecretAtomic` | one process, three requests, a secret of each version, one retry, one crash | the type invariant; `Atomic`: the manager implements `SecretStore` |
| `SecretShared` | two processes, two requests, a secret of each version, one change by others, one late call, one crash | `ChangesAreAlone`; `AtomicAmongOthers`: the manager implements `SharedStore`; and under fairness `RequestsAreAnswered` |
| `SecretInterface` | secrets in every shape the conversions tell apart, two names, one of them with relative segments, a prefix or none, so that four paths meet at two places, requests sent as asked and in seven other ways, a restart, three changes of the vault, another user | the type invariant; `OfferedIsAccepted`: what the attribute lists ask for is enough for a login; `ReadsBack`: a secret comes back as it was last sent for the place the reader means, however its path is split |
| `AuthorityRequests` | two requests at a time, for ever; two names, three values of the serial, one error | the type invariant; `RowsAreWhole`: a row is one body's work and logs in as its attributes say; `CreateStoresConnected`; `OnlyReadRowsChange`: a stale update or removal never touches an authority created since under the same uuid |
| `AttributeForms` | two authorities, a plain, a nested and a refused engine, a role of each kind, any choice of engines in any order, content as objects or as strings, an attribute of the platform before or after the others | the type invariant; `OfferedIsAccepted`: a form filled in as offered ends no handler in a panic; `StoredIsAnswered`: what was typed is stored and answered; `SelectionIsUsed`: what was selected is used, although the mounts have changed |
| `Certificates` | two requests of any kind, two vaults, one change of the authority, one repetition | the type invariant; `OrphansOnlyByLostAnswers`, `AnsweredAsAsked`, `RevokedAsAnswered`, `RevokedWasAsked`: of a revocation nobody was told, an answer was lost; and under fairness `RequestsEnd` |
| `ConnectorEndpoints` | every route there is, every body its controller tells apart, an engine at the root and a nested one | the type invariant; `ReachesItsHandler`; `AdvertisesEveryRoute`; `CertificateServicesSeeAttributes`: no certificate operation starts with attributes its lookups would panic on |

Three runs end in a violation, each a disagreement between the code and what the repository says of
it (`findings` in `PROJECT.json` quotes both):

- `DiscoveryRunningAnswered`: GetDiscovery compares the stored `inProgress` with `IN_PROGRESS`, so it
  answers every discovery it finds with `completed`.
- `DiscoveryStranded`: after a conflict over a certificate, failDiscovery saves the same struct,
  fails for the same reason, and the row stays inProgress.
- `RotateShadowed`: the route for the attributes of a rotation, which is to answer 501, is registered
  after one that also matches its path, and is never reached.

Other disagreements are in the models and need no run of their own:

- A failed discovery is answered `completed` like every other (`api_discovery_service.go:166`).
- `Save` brings a deleted discovery back, and a removed authority; `ResurrectedIsEmpty`,
  `RowsAreWhole` and `OnlyReadRowsChange` are checked with it.
- A broken connection is answered as an authority that is not there, by a removal even with 204
  (`internal/authority/helpers.go:74`); the test at `internal/authority/bugfix_test.go:15` wants the former.
- The comment at `internal/authority/helpers.go:66` says that GetConnection and
  UpdateAuthorityInstance keep an inline check that answers an internal error; both call
  `findAuthority` and answer 404, as `internal/authority/bugfix_test.go:17` expects.
- The constraints of a stored attribute are written as `constraints` and looked for as `constrains`
  (`internal/model/attributes.go:224`), so an answer has lost them.
- The comment at `internal/secret/needs.go:61` says that only v3 attributes are accepted; nothing
  compares the version.
- A key store of an unknown type is stored and cannot be read (`internal/secret/vault/vault.go:101`);
  `ReadsBack` states this exception.

### Bounds

Each bound is a CONSTANT.  Two discoveries with a shared certificate are what a conflict needs; a
third adds no new kind of step, for a conflict is between the SELECT of one and the INSERT of
another.  One engine per discovery gives a loop of two turns (one that reads, one that finds no
engine left).  One database error is enough for the failure of failDiscovery's own Save together
with a conflict, one crash for every split of a handler.  Three requests for secrets are two that
conflict and a reader between them; `RetryMax` is 1 where the client has 2, because the second
repeat meets the state the first one met.  The registry bounds nothing but the serial and the
errors: two goroutines serve requests for ever, so removal, creation under the old name and a stale
write occur in every order; at the end of the serial an INSERT fails, as it does in PostgreSQL.

`Certificates` has one engine, role and CSR: the handlers pass them on, and the two requests differ
in what they ask; one change is enough to point the authority elsewhere, or to remove it, between any
two steps, and one repetition to have a certificate made whose answer is lost.  `AttributeForms` and
`ConnectorEndpoints` bound nothing but their constants and run for ever.  `SecretInterface` bounds the
changes of the vault by three (a secret, a second one elsewhere or over it, and another user's) and
the restarts by one, which is enough to gain or to lose the token.

Symmetry is used for requests, processes, clients, names and values only in runs without liveness.
`CHECK_DEADLOCK FALSE` stands in the runs in which clients may have no further request to send or
the bounded number of discoveries is used up; the other runs check for deadlock.

### Fairness

`DiscoveryService!FairSpec` has weak fairness of each worker's step: its calls end, the vault's with the
30 s time-out of `vault.GetClient`, the database's with the connection, and the goroutine takes no lock.
`SecretManager!FairSpec` has weak fairness of each request's step: a call to the vault ends with the
client's time-out and every return runs the deferred Unlock; there are finitely many requests, so
whoever waits for a lock gets it. `CertificateManagement!FairSpec` has the same for its handlers, which
wait for no one but the database and the vault. No client is obliged to send anything, and no fairness
is assumed of crashes, errors, late calls or other users.

## What TLAPS proves

The theorems hold for every value of the constants that satisfies the named assumptions (`ASSUME`):
bounds are naturals, sentinels differ from values, the sets fit together.

- `DiscoveryProofs`: `IInv` is inductive (`Inductive`), and `TypeCorrect`, `CompletedCorrect`,
  `ResurrectedCorrect`, `StrandedCorrect` and `SettledCorrect` follow.  `CompletedIsComplete` alone is
  not inductive: one needs that a worker has in memory what the vault listed (`MemoryIsListed`), that
  its row mirrors its memory until it gives up (`RowMirrorsMemory`), and what a settled row may still
  see (`CompletedIsSettled`, `DeletedIsEmpty`).
- `AnswerProofs`: `AnswerInv` adds to `IInv` what a request of GetDiscovery has read (`Followed`): its
  worker has ended, or is about to save once more what the discovery already has (`FailKept`), so the
  certificates are all there or deleted, the latter also between the count and the page. `AnswerCorrect`
  and `PanicCorrect` follow, and `LedgerCorrect`, the refinement of `DiscoveryLedger`: each step enters
  something about one discovery at most. `FailKept` is needed there too: the second Save of a completed
  discovery must add nothing.
- `SecretProofs`: `Shape` (type, lock discipline, what a call at each place is) is inductive for any
  number of processes, other users and late calls, and gives `ChangesCorrect` and the refinement of
  `SharedStore` (`AtomicAmongOthersCorrect`), each step of the manager a step of that store or a stutter.
  `AtomicCorrect` proves the refinement of `SecretStore` under `Alone`: one process, no other users, no
  late calls. Its invariant adds `StillTrue`: what a call has read still holds when it writes, because it
  has the lock alone. Without `Alone` the refinement is false: an update reads and then writes without
  cas.
- `AuthorityProofs`: `IInv` says what a handler holds at each place (`Good`), that no row is stored
  above the serial (`NoneAbove`) and that all copies of an id have one uuid (`OneUUID`); the last is
  what makes a re-inserted row keep its uuid.  `TypeCorrect`, `WholeCorrect`, `ConnectedCorrect` and
  `ReadRowsCorrect` follow.
- `CertificateProofs`: `IInv` says what a request is at each place (`AtWork`, `Answered`): it never has
  more certificates than lost answers while its call is open, which also keeps the numbers of the
  certificates in range. `TypeCorrect`, `OrphansCorrect`, `AnsweredCorrect` and `RevokedCorrect` follow, for
  any number of repetitions. `RevokedAskedCorrect` has an induction of its own over `IInv`: the request
  that revoked a certificate answers for it (`AskedFor`) through every later step.
- `RequestProofs`: first `ContentReadsBack`, the round trip of `SecretContent`: `FromPayload` gives back
  what `ToPayload` took, for any values and every type. Then `RequestInv` is inductive: `TypeOK`, what
  the platform has configured came from the attribute lists (`FormInv`), what was `written` is in the
  vault and can be read (`WrittenInv`), and a request that is with the manager goes to the place the
  platform meant (`AnswerInv`). `OfferedIsAccepted` is one of its parts, since an answer outlives the
  form it was for. `RequestTypes`, `AcceptedAsOffered` and `SecretsReadBack` follow, for any mounts,
  prefixes, names and secrets, any way the vault resolves paths (`Resolved`), and any number of changes
  and restarts. Assumed are that what is configured is none of the model's marks for nothing, blank and
  refused (`SendableAssumption`), that the secrets of an approle login are of the types its list is
  filtered by, and not empty (`RoleSecretsAssumption`), and that the secrets are of the kinds the
  conversions tell apart (`SecretsAssumption`).
- `ExchangeProofs`: `ExchangeInv` is inductive: `TypeOK`, what an open form offers came from its list
  and, after a choice, from its callback (`FormInv`), the row an answer is about (`ResultInv`),
  `OfferedIsAccepted` and `StoredIsAnswered`.  The way there is one lemma for each step data takes: a list
  handed in has each field once, the required ones among them (`FilledOfForm`); a lookup finds the field,
  misses it, or panics, the last only with an attribute of the platform before it (`GotField`); content
  is converted without loss in every form it is sent in (`Conversions`); the columns of a row hold what
  was typed (`AuthorityRow`) and the row reads back (`ReadBack`); a profile and a discovery are read as
  they were selected (`ProfileEngine`, `ProfileRole`, `DiscoveryUuid`, `DiscoverySearch`).  `ExchangeTypes`,
  `OfferedAccepted`, `StoredAnswered` and `SelectionUsed` follow, for any authorities, engines and
  roles.  Assumed is that the marks the model uses for a panic and for an error are no names of engines,
  roles or authorities (`PanicAssumption`, `InvalidAssumption`).
- `ConnectorProofs`: `StartInv` says what is collected after each call of `populateRoutes`, and gives
  `ConnectorTypes` and `AdvertisedCorrect`: that the routes of the authority provider are collected twice
  is harmless only because the list of the group is emptied first.  For the requests, each table of
  routes is first summed up by what tells its rows apart (`AuthorityManagementRow`, `CertificateRow`,
  `SecretRow` and so on).  A route with no wide variable matches the URL of another exactly when its path
  `Covers` that one's path (`PlainMatch`); so two routes of one table that could serve one request have
  the same row, and the first hit is the right one whatever the order in the table (`FirstHit`).  The top
  multiplexer hands a URL to the longest of its mounts (`LongestMount`), and the two paths that take the
  name of an engine, whose length is not known, are treated on their own (`RolesServed`, `InfoServed` for
  `/v2/`).  `ExchangeInv` adds that a request fits the route it asks for, and that a service was called
  for what its controller let through.  `EachReachesItsHandler` and `ServicesSeeAttributes` follow, the
  second because a certificate operation is then asked for at its own route, whose controller looks at
  every attribute.  Assumed (`NamesAssumption`) is that a name of an engine has at least one segment,
  as Vault's mounts do, and that no value of a path variable is a word of the paths: a uuid, a kind or a
  type of secrets is not called `authorities` or `rotate`.  Without it requests would go
  astray: a GET of an authority with the uuid `attributes` is served by the route of the attributes of a
  kind, which is registered before it.

Only model-checked: `WorkerStops`, `RunningSettles`, `RequestsAreAnswered` and `RequestsEnd`, which are
liveness under fairness and, with ENABLED, out of the prover's reach, and the disagreements that the
violated runs show.  What recursive definitions compute for every input cannot be proved either; the
modules declare none.

## What is not modelled, and limits

- There is no recovery of discoveries after a crash in the code, so `RunningSettles` excludes those
  of a killed process.
- `Atomic` and `SecretStore` take every 400 of a version 2 create for the refusal of cas, as the code
  does (`internal/secret/vault/create.go:56`).
- The lock's name has neither the vault's address nor its namespace: requests for secrets of the
  same name in two vaults exclude each other, which delays and breaks nothing.
- `AuthorityRegistry` has no malformed attribute lists: they are refused or end the handler before it
  touches the table, which `AttributeExchange` models.  A credential type without a login method is
  in its `Bodies`, and so is an address `vault.New` makes no client for (`Malformed`): an update stores
  either, and `GetClient` then panics (`LoginPanics`); in a discovery's goroutine that is a `Crash`.
- `AttributeExchange` and `SecretRequests` serve one request at a time (see above), and their vaults
  answer.
- A list of discovered certificates is one page; the page arithmetic of `internal/db` is left out.
- `CreateDiscoveryAndAssociateCertificates` and `DeleteAuthorityInstanceByUUID` have no caller.
- The validation handlers change nothing and end in `Connector`.  Those of a profile, of issue and of
  revoke accept whatever passes their controller; that of an authority answers 422 for another kind.
  ValidateAttributes of a discovery (`internal/discovery/api_connector_attributes_service.go:65`)
  answers 422 for another kind and for an authority it does not find, and it indexes and asserts
  without a check: a list without that attribute, without content or with content of another type
  ends it in a panic.
- The secret interface joins prefix, path and name and neither refuses nor cleans relative segments
  (`internal/secret/helpers.go:23`).  Whether a request with `..` leaves the prefix of its profile is
  up to the vault, so no property promises that secrets stay below it; `Resolved` stands for whatever
  the vault makes of a path.
- An update stores an authority without logging in; nothing promises that it can
  (`CreateStoresConnected` is about creates).
- `SharedStore` lets a late update come over a later request, as the code does: nothing there
  prevents it.
- Left out for good: records without behaviour, connection and migration, metrics, logging,
  configuration, packaging.

## Plan

Done, in this order: discovery repository and service with their proofs and their ledger; the secret
manager with its abstract store and the refinement; the authority registry with its proofs;
certificate operations with their proofs; endpoints and routing; the attribute model and its
exchange; the secret interface and its contents, with the proof of the round trip; the proofs about
requests, forms and the connector.

Not planned: a composition of registry and discovery.  They meet in one call, which hands the
goroutine a copy of the authority's row; no step of one can disturb the other after that, so the
composition would say no more than its parts.

Next: `Followed` and `LostToDelete` for a page that does not hold all certificates, once
`DiscoveryRepository` has page arithmetic.
