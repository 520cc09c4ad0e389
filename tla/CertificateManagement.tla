----------------------- MODULE CertificateManagement -----------------------
(***************************************************************************)
(* Certificate operations (internal/authority): issue, renew, revoke and   *)
(* identify certificates, read the CA chain and the CRL.  A request is     *)
(* checked, its authority looked up, a client logged in, and then one call *)
(* made to a PKI engine, which the vault client repeats when no answer     *)
(* comes.  Meanwhile other handlers change and remove authorities.         *)
(*                                                                         *)
(* An authority is what the row says of it here: the vault it points to.   *)
(* The engine is modelled from how these handlers use it.                  *)
(***************************************************************************)
EXTENDS Naturals

CONSTANTS
  Requests, Authorities, Vaults, Engines, Roles, Inputs,
  None,        \* missing or not decodable
  RetryMax,    \* times the vault client repeats a call
  MaxChanges   \* bound: changes of the table of authorities

ASSUME RetryAssumption == RetryMax \in Nat /\ MaxChanges \in Nat
ASSUME NoneAssumption ==
  /\ None \notin Vaults /\ None \notin Engines /\ None \notin Roles /\ None \notin Inputs

VARIABLES
  rows,      \* authority -> vault, or None
  issued,    \* certificates the vaults have issued
  revoked,   \* certificates that are revoked
  request,   \* request -> how far it is
  changes

vars == <<rows, issued, revoked, request, changes>>

(* A certificate: where it was issued, for which CSR, and for which        *)
(* request, the nr-th it got; the last two stand for the serial number.    *)
Certificate ==
  [vault : Vaults, engine : Engines, role : Roles, csr : Inputs,
   by : Requests, nr : 1 .. RetryMax + 1]

Signs == {"issue", "renew"}
OnCertificate == {"revoke", "identify"}
Reads == {"chain", "crl"}
Ops == Signs \cup OnCertificate \cup Reads

(* What a request asks: format and role count for Signs, the csr or the    *)
(* certificate for the others that have one.                               *)
Ask ==
  [op : Ops, pkcs10 : BOOLEAN, authority : Authorities, engine : Engines \cup {None},
   role : Roles \cup {None}, csr : Inputs \cup {None},
   certificate : Certificate \cup {None}]

Idle == [pc |-> "idle"]

(* made counts the certificates the vault issued for the request, lost the *)
(* calls that got no answer.                                               *)
Call == [pc : {"find", "connect", "call"}, ask : Ask, vault : Vaults \cup {None},
         made : Nat, lost : 0 .. RetryMax]

Answers == {"ok", "badRequest", "notFound", "error", "panic"}

Done == [pc : {"done"}, ask : Ask, vault : Vaults \cup {None}, answer : Answers,
         result : Certificate \cup {None}, made : Nat, lost : 0 .. RetryMax + 1]

TypeOK ==
  /\ rows \in [Authorities -> Vaults \cup {None}]
  /\ issued \subseteq Certificate
  /\ revoked \subseteq Certificate
  /\ request \in [Requests -> {Idle} \cup Call \cup Done]
  /\ changes \in 0 .. MaxChanges

Init ==
  /\ rows \in [Authorities -> Vaults \cup {None}]
  /\ issued = {}
  /\ revoked = {}
  /\ request = [r \in Requests |-> Idle]
  /\ changes = 0

-----------------------------------------------------------------------------
Goto(r, pc) == request' = [request EXCEPT ![r].pc = pc]

Answer(r, answer, result) ==
  request' = [request EXCEPT ![r] =
    [pc |-> "done", ask |-> @.ask, vault |-> @.vault, answer |-> answer,
     result |-> result, made |-> @.made, lost |-> @.lost]]

Frame == UNCHANGED <<rows, issued, revoked, changes>>

(* A certificate operation comes in with attributes the controllers have   *)
(* looked at.  The format, the engine and the role are checked at once.    *)
Acceptable(ask) ==
  /\ ask.op \in Signs => ask.pkcs10
  /\ ask.engine # None
  /\ ask.op \in Signs => ask.role # None

Begin(r, ask) ==
  request' = [request EXCEPT ![r] =
    IF Acceptable(ask)
    THEN [pc |-> "find", ask |-> ask, vault |-> None, made |-> 0, lost |-> 0]
    ELSE [pc |-> "done", ask |-> ask, vault |-> None, answer |-> "badRequest",
          result |-> None, made |-> 0, lost |-> 0]]

\* The certificate of a request that has one, the csr of one that has that.
Given(op) == IF op \in OnCertificate THEN issued \cup {None} ELSE {None}
Csrs(op) == IF op \in Signs THEN Inputs \cup {None} ELSE {None}

Receive(r) ==
  /\ request[r] = Idle
  /\ \E op \in Ops, pkcs10 \in BOOLEAN, a \in Authorities, e \in Engines \cup {None},
        x \in Roles \cup {None} : \E csr \in Csrs(op), c \in Given(op) :
       Begin(r, [op |-> op, pkcs10 |-> pkcs10, authority |-> a, engine |-> e, role |-> x,
                 csr |-> csr, certificate |-> c])
  /\ Frame

(* findAuthority: a lookup that fails answers as one that finds nothing.   *)
FindAuthority(r) ==
  /\ request[r].pc = "find"
  /\ \/ /\ rows[request[r].ask.authority] # None
        /\ request' = [request EXCEPT ![r].pc = "connect",
                         ![r].vault = rows[request[r].ask.authority]]
     \/ Answer(r, "notFound", None)
  /\ Frame

\* base64 and, but for the CSR of a role, the certificate or CSR in it.
Undecodable(ask) ==
  \/ ask.op \in Signs /\ ask.csr = None
  \/ ask.op \in OnCertificate /\ ask.certificate = None

(* The row is the one read before; the client may fail to log in, or panic *)
(* where the row has no login method (LoginPanics of AuthorityRegistry).   *)
ConnectVault(r) ==
  /\ request[r].pc = "connect"
  /\ \/ /\ ~Undecodable(request[r].ask)
        /\ Goto(r, "call")
     \/ \E failure \in {"error", "panic"} : Answer(r, failure, None)
  /\ Frame

-----------------------------------------------------------------------------
(* The call to the engine.                                                 *)

\* Mutant: the authority is looked up again for the call.
SignedWhereRowPoints(r) ==
  [vault |-> rows[request[r].ask.authority], engine |-> request[r].ask.engine,
   role |-> request[r].ask.role, csr |-> request[r].ask.csr,
   by |-> r, nr |-> request[r].made + 1]

Signed(r) ==
  [vault |-> request[r].vault, engine |-> request[r].ask.engine,
   role |-> request[r].ask.role, csr |-> request[r].ask.csr,
   by |-> r, nr |-> request[r].made + 1]

\* A vault knows the certificates its engine has issued.
Knows(r) ==
  /\ request[r].ask.certificate \in issued
  /\ request[r].ask.certificate.vault = request[r].vault
  /\ request[r].ask.certificate.engine = request[r].ask.engine

\* Mutant: the engine of the RA profile is not part of the call.
RevokesAnywhere(r) ==
  /\ request[r].ask.op = "revoke"
  /\ revoked' = revoked \cup {c \in issued : c.engine = request[r].ask.engine}
  /\ UNCHANGED issued

\* Mutant: a refusal to revoke is taken for an answer.
RevokingOrNot(r) ==
  /\ request[r].ask.op = "revoke"
  /\ revoked' = revoked \cup (IF Knows(r) THEN {request[r].ask.certificate} ELSE {})
  /\ UNCHANGED issued

Signing(r) ==
  /\ request[r].ask.op \in Signs
  /\ issued' = issued \cup {Signed(r)}
  /\ UNCHANGED revoked

Revoking(r) ==
  /\ request[r].ask.op = "revoke"
  /\ Knows(r)
  /\ revoked' = revoked \cup {request[r].ask.certificate}
  /\ UNCHANGED issued

Looking(r) ==
  /\ request[r].ask.op = "identify" => Knows(r)
  /\ request[r].ask.op \in {"identify"} \cup Reads
  /\ UNCHANGED <<issued, revoked>>

Executes(r) == Signing(r) \/ Revoking(r) \/ Looking(r)

Made(r) == request[r].made + IF request[r].ask.op \in Signs THEN 1 ELSE 0

\* The vault has issued a certificate and answers with something else.
Finish(r, answer, result) ==
  request' = [request EXCEPT ![r] =
    [pc |-> "done", ask |-> @.ask, vault |-> @.vault, answer |-> answer,
     result |-> result, made |-> Made(r), lost |-> @.lost]]

\* Mutant: a sign response without a PEM block is asked for again.
CallAnsweredTriesAgain(r) ==
  /\ request[r].pc = "call"
  /\ Executes(r)
  /\ \/ Finish(r, "ok", IF request[r].ask.op \in Signs THEN Signed(r) ELSE None)
     \/ /\ request[r].ask.op \in Signs /\ request[r].made < RetryMax
        /\ request' = [request EXCEPT ![r].made = Made(r)]
     \/ request[r].ask.op \in Reads /\ Finish(r, "error", None)
  /\ UNCHANGED <<rows, changes>>

(* Executed and answered.  A sign response without a PEM block is only     *)
(* refused for the error of an earlier call, which is nil: the block is    *)
(* dereferenced.  A chain or a CRL that does not parse is an error.        *)
CallAnswered(r) ==
  /\ request[r].pc = "call"
  /\ Executes(r)
  /\ \/ Finish(r, "ok", IF request[r].ask.op \in Signs THEN Signed(r) ELSE None)
     \/ request[r].ask.op \in Signs /\ Finish(r, "panic", None)
     \/ request[r].ask.op \in Reads /\ Finish(r, "error", None)
  /\ UNCHANGED <<rows, changes>>

Refusal(op) == IF op = "crl" THEN "error" ELSE "badRequest"

CallRefused(r) ==
  /\ request[r].pc = "call"
  /\ Answer(r, Refusal(request[r].ask.op), None)
  /\ Frame

\* Mutant: the handler logs in and calls again, however often it has.
RepeatForEver(r, made) == request' = [request EXCEPT ![r].pc = "connect"]

\* Mutant: one repetition too many.
RepeatOnceMore(r, made) ==
  IF request[r].lost <= RetryMax
  THEN request' = [request EXCEPT ![r].made = made, ![r].lost = @ + 1]
  ELSE Answer(r, Refusal(request[r].ask.op), None)

(* No answer: the call is sent again, or given up after RetryMax times.    *)
Repeat(r, made) ==
  IF request[r].lost < RetryMax
  THEN request' = [request EXCEPT ![r].made = made, ![r].lost = @ + 1]
  ELSE request' = [request EXCEPT ![r] =
         [pc |-> "done", ask |-> @.ask, vault |-> @.vault,
          answer |-> Refusal(@.ask.op), result |-> None, made |-> made,
          lost |-> @.lost + 1]]

CallUnanswered(r) ==
  /\ request[r].pc = "call"
  /\ \/ Executes(r) /\ Repeat(r, Made(r))
     \/ UNCHANGED <<issued, revoked>> /\ Repeat(r, request[r].made)
  /\ UNCHANGED <<rows, changes>>

\* Other handlers create, point elsewhere and remove authorities.
ChangeAuthority ==
  /\ changes < MaxChanges
  /\ changes' = changes + 1
  /\ \E a \in Authorities, v \in Vaults \cup {None} :
       rows' = [rows EXCEPT ![a] = v]
  /\ UNCHANGED <<issued, revoked, request>>

Step(r) ==
  \/ FindAuthority(r) \/ ConnectVault(r)
  \/ CallAnswered(r) \/ CallRefused(r) \/ CallUnanswered(r)

Next == ChangeAuthority \/ \E r \in Requests : Receive(r) \/ Step(r)

Spec == Init /\ [][Next]_vars

(* A handler runs on, whatever others do, and the vault client waits for   *)
(* no call for ever: a time-out is an answer that does not come.           *)
FairSpec == Spec /\ \A r \in Requests : WF_vars(Step(r))

-----------------------------------------------------------------------------
Ended(r) == request[r].pc = "done"

(* A certificate nobody was given exists only because a call got no answer *)
(* or one without a certificate in it: a request leaves at most one more   *)
(* than the answers it lost, none when it was refused before its call.     *)
OrphansOnlyByLostAnswers ==
  \A r \in Requests : Ended(r) =>
    request[r].made <= request[r].lost
                       + IF request[r].answer \in {"ok", "panic"} THEN 1 ELSE 0

(* The certificate a request answers is one that the vault its authority   *)
(* pointed to at the lookup has issued for it, in the engine and with the  *)
(* role of its RA profile and for its CSR, however often the call was      *)
(* repeated and whoever changed the authority meanwhile.                   *)
AnsweredAsAsked ==
  \A r \in Requests :
    Ended(r) /\ request[r].ask.op \in Signs /\ request[r].answer = "ok" =>
      /\ request[r].result \in issued
      /\ request[r].result.vault = request[r].vault
      /\ request[r].result.engine = request[r].ask.engine
      /\ request[r].result.role = request[r].ask.role
      /\ request[r].result.csr = request[r].ask.csr

(* A request answered as a success has revoked its certificate.            *)
RevokedAsAnswered ==
  \A r \in Requests :
    Ended(r) /\ request[r].ask.op = "revoke" /\ request[r].answer = "ok" =>
      request[r].ask.certificate \in revoked

\* The request names the certificate, reads the vault that issued it, has the
\* engine that did, and is answered a success or has lost an answer.
AskedFor(q, c) ==
  /\ q.pc \in {"call", "done"}
  /\ q.ask.op = "revoke"
  /\ q.ask.certificate = c
  /\ q.ask.engine = c.engine
  /\ q.vault = c.vault
  /\ \/ q.pc = "done" /\ q.answer = "ok"
     \/ q.lost > 0

(* For whatever is revoked a request has come that asked for it at the     *)
(* vault and in the engine that issued it; and if none was told of a       *)
(* success, then because an answer of that request was lost: one that was  *)
(* refused, or not, at its only call has revoked nothing.                  *)
RevokedWasAsked ==
  \A c \in revoked : \E r \in Requests : AskedFor(request[r], c)

(* Every request is answered, or ends in a panic.                          *)
RequestsEnd == \A r \in Requests : request[r].pc # "idle" ~> request[r].pc = "done"
=============================================================================
