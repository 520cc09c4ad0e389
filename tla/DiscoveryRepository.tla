------------------------- MODULE DiscoveryRepository -------------------------
(***************************************************************************)
(* The discovery tables and the repository over them (internal/db, the     *)
(* migration that creates the tables, and gorm as the repository uses it). *)
(*                                                                         *)
(* A discovery's uuid is DeterministicGUID of its name and a certificate's *)
(* uuid is DeterministicGUID of its serial number, so the unique uuid      *)
(* columns identify a row by its name and by its serial: Names and Serials *)
(* stand for both.  One repository call is one committed transaction, so   *)
(* it is one step; calls that issue several independent statements are     *)
(* several operators here and several steps in DiscoveryService.           *)
(***************************************************************************)
EXTENDS Naturals, FiniteSets

CONSTANTS
  Names,            \* names the platform gives its discoveries
  Serials,          \* serial numbers of the certificates in the vault
  MaxDiscoveries,   \* bound: primary keys the discoveries sequence hands out
  MaxDbErrors,      \* bound: database calls that report an error of transport
  NoRow             \* the value of a primary key that has no row

Ids == 1 .. MaxDiscoveries

Statuses == {"inProgress", "COMPLETED", "FAILED"}

Row == [name : Names, status : Statuses]

ASSUME NamesAssumption == Names # {}
ASSUME BoundsAssumption == MaxDiscoveries \in Nat /\ MaxDbErrors \in Nat
ASSUME SerialsAssumption == IsFiniteSet(Serials)
ASSUME NoRowAssumption == NoRow \notin Row

VARIABLES
  discoveries,             \* table: primary key -> row
  certificates,            \* table: the serials that have a row
  discovery_certificates,  \* join table: pairs <<discovery id, serial>>
  nextId,                  \* the sequence behind discoveries.id
  dbErrors                 \* transport errors so far

tables == <<discoveries, certificates, discovery_certificates>>

RepositoryTypeOK ==
  /\ discoveries \in [Ids -> Row \cup {NoRow}]
  /\ certificates \subseteq Serials
  /\ discovery_certificates \subseteq Ids \X Serials
  /\ nextId \in 1 .. MaxDiscoveries + 1
  /\ dbErrors \in 0 .. MaxDbErrors

RepositoryInit ==
  /\ discoveries = [id \in Ids |-> NoRow]
  /\ certificates = {}
  /\ discovery_certificates = {}
  /\ nextId = 1
  /\ dbErrors = 0

Exists(id) == discoveries[id] # NoRow

NameTaken(name) == \E id \in Ids : Exists(id) /\ discoveries[id].name = name

\* The certificates a discovery is joined with.
Joined(id) == {s \in Serials : <<id, s>> \in discovery_certificates}

-----------------------------------------------------------------------------
(* A call that reports an error because the connection failed. *)
TransportError ==
  /\ dbErrors < MaxDbErrors
  /\ dbErrors' = dbErrors + 1

(* INSERT of a new discovery with the next key of the sequence. *)
InsertDiscovery(name, status) ==
  /\ nextId \in Ids
  /\ ~NameTaken(name)
  /\ discoveries' = [discoveries EXCEPT ![nextId] = [name |-> name, status |-> status]]
  /\ nextId' = nextId + 1
  /\ UNCHANGED <<certificates, discovery_certificates, dbErrors>>

(* FirstOrCreate is a SELECT and, when that finds nothing, an INSERT: two  *)
(* statements with no transaction around them.  The INSERT breaks the      *)
(* unique uuid when another discovery stored the serial in between, and    *)
(* its error is dropped.                                                   *)
CertificateFound(s) == s \in certificates

InsertCertificate(s) ==
  /\ s \notin certificates
  /\ certificates' = certificates \cup {s}
  /\ UNCHANGED <<discoveries, discovery_certificates>>

(* gorm saves the certificates of a discovery with two INSERTs that do     *)
(* nothing on conflict: the certificates, then the join rows.  A struct    *)
(* in memory whose key is unset (unsaved) gets a key only if its           *)
(* certificate was not stored yet; if it was, the join row is written with *)
(* key 0 and breaks the foreign key.                                       *)
LinksAccepted(unsaved) == unsaved \cap certificates = {}

Link(id, certs) ==
  /\ certificates' = certificates \cup certs
  /\ discovery_certificates' = discovery_certificates \cup ({id} \X certs)

(* Association("Certificates").Append: certs is the whole of the           *)
(* discovery's Certificates field after the append.                        *)
\* Mutant: the migration does not declare the foreign key to discoveries.
AppendWithoutForeignKey(id, unsaved) == LinksAccepted(unsaved)

AppendAccepted(id, unsaved) == Exists(id) /\ LinksAccepted(unsaved)

AppendCertificates(id, certs) == Link(id, certs) /\ UNCHANGED discoveries

(* Save of a discovery whose key is set: UPDATE by key and the             *)
(* certificates; when the UPDATE finds no row, and nothing failed, an      *)
(* INSERT with the same key.  With certificates in memory and no row, the  *)
(* join rows break the foreign key and the transaction is rolled back.     *)
\* Mutant: the migration does not declare the foreign key to discoveries.
SaveWithoutForeignKey(id, name, certs, unsaved) ==
  LinksAccepted(unsaved) /\ (Exists(id) \/ ~NameTaken(name))

SaveAccepted(id, name, certs, unsaved) ==
  IF Exists(id) THEN LinksAccepted(unsaved)
                ELSE certs = {} /\ ~NameTaken(name)

\* Mutant: the certificates are saved and the discovery's columns are not.
SaveLinksOnly(id, name, status, certs) ==
  /\ discoveries' = IF Exists(id) THEN discoveries
                    ELSE [discoveries EXCEPT ![id] = [name |-> name, status |-> status]]
  /\ Link(id, certs)

SaveDiscovery(id, name, status, certs) ==
  /\ discoveries' = [discoveries EXCEPT ![id] = [name |-> name, status |-> status]]
  /\ Link(id, certs)

(* DeleteDiscovery's transaction removes the join rows it saw (Clear) and  *)
(* then the discovery; a join row committed in between breaks the foreign  *)
(* key and the whole transaction is rolled back.                           *)
DeleteAccepted(id, cleared) == Joined(id) \subseteq cleared

\* Mutant: the DELETE has lost its condition on the key.
RemoveEveryDiscovery(id) ==
  /\ discoveries' = [i \in Ids |-> NoRow]
  /\ discovery_certificates' = {}
  /\ UNCHANGED certificates

RemoveDiscovery(id) ==
  /\ discoveries' = [discoveries EXCEPT ![id] = NoRow]
  /\ discovery_certificates' = discovery_certificates \ ({id} \X Serials)
  /\ UNCHANGED certificates
=============================================================================
