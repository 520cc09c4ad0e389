-------------------------- MODULE CertificateProofs --------------------------
(***************************************************************************)
(* Proofs about the certificate operations, for any requests, vaults,      *)
(* inputs and numbers of repetitions.                                      *)
(***************************************************************************)
EXTENDS CertificateManagement, TLAPS

-----------------------------------------------------------------------------
(* The inductive invariant: what a request is at each place, given the     *)
(* certificates issued and revoked so far.                                 *)

(* At work: no more certificates than lost answers, so that the next one   *)
(* has a number; the row that was read, the input that was checked.        *)
AtWork(q) ==
  /\ q \in Call
  /\ q.made <= q.lost
  /\ Acceptable(q.ask)
  /\ q.pc # "find" => q.vault \in Vaults
  /\ q.pc = "call" => ~Undecodable(q.ask)

Answered(q, certificates, revocations) ==
  /\ q \in Done
  /\ q.made <= q.lost + IF q.answer \in {"ok", "panic"} THEN 1 ELSE 0
  /\ q.answer = "ok" /\ q.ask.op \in Signs =>
       /\ q.result \in certificates
       /\ q.result.vault = q.vault
       /\ q.result.engine = q.ask.engine
       /\ q.result.role = q.ask.role
       /\ q.result.csr = q.ask.csr
  /\ q.answer = "ok" /\ q.ask.op = "revoke" => q.ask.certificate \in revocations

Sound(q, certificates, revocations) ==
  q = Idle \/ AtWork(q) \/ Answered(q, certificates, revocations)

IInv ==
  /\ rows \in [Authorities -> Vaults \cup {None}]
  /\ issued \subseteq Certificate
  /\ revoked \subseteq Certificate
  /\ changes \in 0 .. MaxChanges
  /\ DOMAIN request = Requests
  /\ request = [r \in Requests |-> request[r]]
  /\ \A r \in Requests : Sound(request[r], issued, revoked)
-----------------------------------------------------------------------------
(* Facts about the parts of the invariant.                                 *)

LEMMA Places ==
  ASSUME NEW q, NEW C, NEW R, Sound(q, C, R)
  PROVE  /\ q.pc \in {"find", "connect", "call"} => AtWork(q)
         /\ q.pc = "done" => Answered(q, C, R)
         /\ q \in {Idle} \cup Call \cup Done
BY DEF Sound, AtWork, Answered, Idle, Call, Done

LEMMA SoundGrows ==
  ASSUME NEW q, NEW C, NEW R, NEW C2, NEW R2, C \subseteq C2, R \subseteq R2,
         Sound(q, C, R)
  PROVE  Sound(q, C2, R2)
<1>1. CASE q = Idle
  BY <1>1 DEF Sound
<1>2. CASE AtWork(q)
  BY <1>2 DEF Sound
<1>3. CASE Answered(q, C, R)
  BY <1>3 DEF Sound, Answered
<1> QED
  BY <1>1, <1>2, <1>3 DEF Sound

LEMMA InvariantType == IInv => TypeOK
<1> SUFFICES ASSUME IInv PROVE TypeOK
  OBVIOUS
<1>1. \A r \in Requests : request[r] \in {Idle} \cup Call \cup Done
  BY Places DEF IInv
<1> QED
  BY <1>1 DEF IInv, TypeOK

\* One request moves, certificates are only added.
LEMMA OneMoves ==
  ASSUME IInv, NEW r \in Requests, NEW q,
         request' = [request EXCEPT ![r] = q],
         Sound(q, issued', revoked'),
         issued \subseteq issued', issued' \subseteq Certificate,
         revoked \subseteq revoked', revoked' \subseteq Certificate,
         UNCHANGED <<rows, changes>>
  PROVE  IInv'
<1>1. ASSUME NEW s \in Requests PROVE Sound(request[s], issued', revoked')
  BY SoundGrows DEF IInv
<1>2. ASSUME NEW s \in Requests PROVE Sound(request'[s], issued', revoked')
  BY <1>1 DEF IInv
<1>3. DOMAIN request' = Requests /\ request' = [s \in Requests |-> request'[s]]
  BY DEF IInv
<1> QED
  BY <1>2, <1>3 DEF IInv

-----------------------------------------------------------------------------
(* The steps of a request.                                                 *)

LEMMA InitSound == Init => IInv
BY RetryAssumption DEF Init, IInv, Sound

LEMMA ReceiveKeeps ==
  ASSUME IInv, NEW r \in Requests, Receive(r)
  PROVE  IInv'
<1>1. PICK op \in Ops, pkcs10 \in BOOLEAN, a \in Authorities, e \in Engines \cup {None},
           x \in Roles \cup {None} : \E csr \in Csrs(op), c \in Given(op) :
         Begin(r, [op |-> op, pkcs10 |-> pkcs10, authority |-> a, engine |-> e, role |-> x,
                   csr |-> csr, certificate |-> c])
  BY DEF Receive
<1>2. PICK csr \in Csrs(op), c \in Given(op) :
         Begin(r, [op |-> op, pkcs10 |-> pkcs10, authority |-> a, engine |-> e, role |-> x,
                   csr |-> csr, certificate |-> c])
  BY <1>1
<1> DEFINE ask == [op |-> op, pkcs10 |-> pkcs10, authority |-> a, engine |-> e, role |-> x,
                   csr |-> csr, certificate |-> c]
<1>3. ask \in Ask
  BY DEF Ask, Csrs, Given, IInv
<1>4. UNCHANGED <<rows, issued, revoked, changes>>
  BY DEF Receive, Frame
<1> HIDE DEF ask
<1>5. CASE Acceptable(ask)
  <2> DEFINE q == [pc |-> "find", ask |-> ask, vault |-> None, made |-> 0, lost |-> 0]
  <2>1. request' = [request EXCEPT ![r] = q]
    BY <1>2, <1>5 DEF Begin, ask
  <2>2. AtWork(q)
    BY <1>3, <1>5, RetryAssumption DEF AtWork, Call
  <2>3. Sound(q, issued', revoked')
    BY <2>2 DEF Sound
  <2> HIDE DEF q
  <2> QED
    BY <1>4, <2>1, <2>3, OneMoves DEF IInv
<1>6. CASE ~Acceptable(ask)
  <2> DEFINE q == [pc |-> "done", ask |-> ask, vault |-> None, answer |-> "badRequest",
                   result |-> None, made |-> 0, lost |-> 0]
  <2>1. request' = [request EXCEPT ![r] = q]
    BY <1>2, <1>6 DEF Begin, ask
  <2>2. Answered(q, issued', revoked')
    BY <1>3, RetryAssumption DEF Answered, Done, Answers
  <2>3. Sound(q, issued', revoked')
    BY <2>2 DEF Sound
  <2> HIDE DEF q
  <2> QED
    BY <1>4, <2>1, <2>3, OneMoves DEF IInv
<1> QED
  BY <1>5, <1>6

\* A refusal, with no result, wherever the request is.
LEMMA RefusedIsSound ==
  ASSUME NEW q, AtWork(q), NEW C, NEW R, NEW answer \in {"badRequest", "notFound", "error", "panic"}
  PROVE  Sound([pc |-> "done", ask |-> q.ask, vault |-> q.vault, answer |-> answer,
                result |-> None, made |-> q.made, lost |-> q.lost], C, R)
<1> DEFINE p == [pc |-> "done", ask |-> q.ask, vault |-> q.vault, answer |-> answer,
                 result |-> None, made |-> q.made, lost |-> q.lost]
<1>1. /\ q.ask \in Ask /\ q.vault \in Vaults \cup {None} /\ q.made \in Nat
      /\ q.lost \in 0 .. RetryMax /\ q.made <= q.lost
  BY DEF AtWork, Call
<1>2. q.lost \in 0 .. RetryMax + 1
  BY <1>1, RetryAssumption
<1>3. p \in Done
  BY <1>1, <1>2 DEF Done, Answers
<1>4. q.made <= q.lost + IF answer \in {"ok", "panic"} THEN 1 ELSE 0
  BY <1>1, RetryAssumption
<1>5. Answered(p, C, R)
  BY <1>3, <1>4 DEF Answered
<1> QED
  BY <1>5 DEF Sound

LEMMA AnswerKeeps ==
  ASSUME IInv, NEW r \in Requests, AtWork(request[r]), Frame,
         NEW answer \in {"badRequest", "notFound", "error", "panic"}, Answer(r, answer, None)
  PROVE  IInv'
<1> DEFINE q == [pc |-> "done", ask |-> request[r].ask, vault |-> request[r].vault,
                 answer |-> answer, result |-> None, made |-> request[r].made,
                 lost |-> request[r].lost]
<1>1. request' = [request EXCEPT ![r] = q]
  BY DEF Answer
<1>2. Sound(q, issued', revoked')
  BY RefusedIsSound
<1> HIDE DEF q
<1> QED
  BY <1>1, <1>2, OneMoves DEF IInv, Frame

LEMMA FindAuthorityKeeps ==
  ASSUME IInv, NEW r \in Requests, FindAuthority(r)
  PROVE  IInv'
<1>1. AtWork(request[r]) /\ request[r].pc = "find" /\ Frame
  BY Places DEF FindAuthority, IInv
<1>2. CASE /\ rows[request[r].ask.authority] # None
           /\ request' = [request EXCEPT ![r].pc = "connect",
                            ![r].vault = rows[request[r].ask.authority]]
  <2> DEFINE q == [request[r] EXCEPT !.pc = "connect",
                                     !.vault = rows[request[r].ask.authority]]
  <2>1. request' = [request EXCEPT ![r] = q]
    BY <1>2
  <2>2. rows[request[r].ask.authority] \in Vaults
    BY <1>1, <1>2 DEF AtWork, Call, Ask, IInv
  <2>3. q \in Call
    BY <1>1, <2>2 DEF AtWork, Call
  <2>4. q.vault \in Vaults /\ q.pc = "connect" /\ q.made = request[r].made
        /\ q.lost = request[r].lost /\ q.ask = request[r].ask
    BY <1>1, <2>2 DEF AtWork, Call
  <2> HIDE DEF q
  <2>5. Sound(q, issued', revoked')
    BY <1>1, <2>3, <2>4 DEF AtWork, Sound
  <2> QED
    BY <1>1, <2>1, <2>5, OneMoves DEF IInv, Frame
<1>3. CASE Answer(r, "notFound", None)
  BY <1>1, <1>3, AnswerKeeps
<1> QED
  BY <1>2, <1>3 DEF FindAuthority

LEMMA ConnectVaultKeeps ==
  ASSUME IInv, NEW r \in Requests, ConnectVault(r)
  PROVE  IInv'
<1>1. AtWork(request[r]) /\ request[r].pc = "connect" /\ Frame
  BY Places DEF ConnectVault, IInv
<1>2. CASE ~Undecodable(request[r].ask) /\ Goto(r, "call")
  <2> DEFINE q == [request[r] EXCEPT !.pc = "call"]
  <2>1. request' = [request EXCEPT ![r] = q]
    BY <1>2 DEF Goto
  <2>2. q \in Call
    BY <1>1 DEF AtWork, Call
  <2>3. q.vault = request[r].vault /\ q.pc = "call" /\ q.made = request[r].made
        /\ q.lost = request[r].lost /\ q.ask = request[r].ask
    BY <1>1 DEF AtWork, Call
  <2> HIDE DEF q
  <2>4. Sound(q, issued', revoked')
    BY <1>1, <1>2, <2>2, <2>3 DEF AtWork, Sound
  <2> QED
    BY <1>1, <2>1, <2>4, OneMoves DEF IInv, Frame
<1>3. CASE \E failure \in {"error", "panic"} : Answer(r, failure, None)
  BY <1>1, <1>3, AnswerKeeps
<1> QED
  BY <1>2, <1>3 DEF ConnectVault

LEMMA CallRefusedKeeps ==
  ASSUME IInv, NEW r \in Requests, CallRefused(r)
  PROVE  IInv'
<1>1. AtWork(request[r]) /\ Frame
  BY Places DEF CallRefused, IInv
<1> QED
  BY <1>1, AnswerKeeps DEF CallRefused, Refusal

-----------------------------------------------------------------------------
(* The call to the engine.                                                 *)

LEMMA SignedIsCertificate ==
  ASSUME NEW r \in Requests, AtWork(request[r]), request[r].pc = "call",
         request[r].ask.op \in Signs
  PROVE  Signed(r) \in Certificate
<1>1. /\ request[r].ask \in Ask /\ request[r].vault \in Vaults /\ request[r].made \in Nat
      /\ request[r].lost \in 0 .. RetryMax /\ request[r].made <= request[r].lost
  BY DEF AtWork, Call
<1>2. request[r].made + 1 \in 1 .. RetryMax + 1
  BY <1>1, RetryAssumption
<1>3. /\ request[r].ask.engine \in Engines /\ request[r].ask.role \in Roles
      /\ request[r].ask.csr \in Inputs
  BY <1>1 DEF AtWork, Acceptable, Undecodable, Ask
<1> QED
  BY <1>1, <1>2, <1>3 DEF Signed, Certificate

\* What the engine does adds certificates and revocations: the one that was
\* asked for.
LEMMA ExecutesAdds ==
  ASSUME IInv, NEW r \in Requests, AtWork(request[r]), request[r].pc = "call", Executes(r)
  PROVE  /\ issued \subseteq issued' /\ issued' \subseteq Certificate
         /\ revoked \subseteq revoked' /\ revoked' \subseteq Certificate
         /\ request[r].ask.op \in Signs => Signed(r) \in issued'
         /\ request[r].ask.op = "revoke" => request[r].ask.certificate \in revoked'
<1>1. issued \subseteq Certificate /\ revoked \subseteq Certificate
  BY DEF IInv
<1>2. CASE Signing(r)
  <2>1. Signed(r) \in Certificate
    BY <1>2, SignedIsCertificate DEF Signing
  <2> QED
    BY <1>1, <1>2, <2>1 DEF Signing, Signs
<1>3. CASE Revoking(r)
  BY <1>1, <1>3 DEF Revoking, Knows, Signs
<1>4. CASE Looking(r)
  BY <1>1, <1>4 DEF Looking, Reads, Signs
<1> QED
  BY <1>2, <1>3, <1>4 DEF Executes

LEMMA MadeBounds ==
  ASSUME NEW r \in Requests, AtWork(request[r])
  PROVE  /\ Made(r) \in Nat
         /\ Made(r) <= request[r].lost + 1
         /\ request[r].ask.op \notin Signs => Made(r) = request[r].made
BY RetryAssumption DEF Made, AtWork, Call

LEMMA CallAnsweredKeeps ==
  ASSUME IInv, NEW r \in Requests, CallAnswered(r)
  PROVE  IInv'
<1>1. AtWork(request[r]) /\ request[r].pc = "call" /\ Executes(r) /\ UNCHANGED <<rows, changes>>
  BY Places DEF CallAnswered, IInv
<1>2. /\ issued \subseteq issued' /\ issued' \subseteq Certificate
      /\ revoked \subseteq revoked' /\ revoked' \subseteq Certificate
      /\ request[r].ask.op \in Signs => Signed(r) \in issued'
      /\ request[r].ask.op = "revoke" => request[r].ask.certificate \in revoked'
  BY <1>1, ExecutesAdds
<1>3. PICK answer \in {"ok", "panic", "error"}, result \in {Signed(r), None} :
        /\ Finish(r, answer, result)
        /\ answer = "ok" /\ request[r].ask.op \in Signs => result = Signed(r)
        /\ result = Signed(r) => request[r].ask.op \in Signs \/ result = None
        /\ answer = "error" => request[r].ask.op \in Reads
  BY DEF CallAnswered
<1> DEFINE q == [pc |-> "done", ask |-> request[r].ask, vault |-> request[r].vault,
                 answer |-> answer, result |-> result, made |-> Made(r),
                 lost |-> request[r].lost]
<1>4. request' = [request EXCEPT ![r] = q]
  BY <1>3 DEF Finish
<1>5. /\ request[r].ask \in Ask /\ request[r].vault \in Vaults
      /\ request[r].lost \in 0 .. RetryMax + 1 /\ request[r].lost \in Nat
      /\ request[r].made <= request[r].lost
  BY <1>1, RetryAssumption DEF AtWork, Call
<1>6. result \in Certificate \cup {None}
  BY <1>1, <1>3, SignedIsCertificate
<1>7. q \in Done
  BY <1>1, <1>5, <1>6, MadeBounds DEF Done, Answers
<1>8. Made(r) <= request[r].lost + IF answer \in {"ok", "panic"} THEN 1 ELSE 0
  <2>1. CASE answer = "error"
    BY <1>1, <1>3, <1>5, <2>1, MadeBounds DEF Reads, Signs
  <2>2. CASE answer \in {"ok", "panic"}
    BY <1>1, <2>2, MadeBounds
  <2> QED
    BY <2>1, <2>2
<1>9. answer = "ok" /\ request[r].ask.op \in Signs =>
        /\ result \in issued'
        /\ result.vault = request[r].vault
        /\ result.engine = request[r].ask.engine
        /\ result.role = request[r].ask.role
        /\ result.csr = request[r].ask.csr
  BY <1>2, <1>3 DEF Signed
<1>10. Answered(q, issued', revoked')
  BY <1>2, <1>7, <1>8, <1>9 DEF Answered
<1>11. Sound(q, issued', revoked')
  BY <1>10 DEF Sound
<1> HIDE DEF q
<1> QED
  BY <1>1, <1>2, <1>4, <1>11, OneMoves

\* A lost answer is counted before what the engine made of the call is.
LEMMA RepeatKeeps ==
  ASSUME IInv, NEW r \in Requests, AtWork(request[r]), request[r].pc = "call",
         NEW made \in Nat, made <= request[r].lost + 1, Repeat(r, made),
         issued \subseteq issued', issued' \subseteq Certificate,
         revoked \subseteq revoked', revoked' \subseteq Certificate,
         UNCHANGED <<rows, changes>>
  PROVE  IInv'
<1>1. /\ request[r] \in Call /\ request[r].ask \in Ask /\ request[r].vault \in Vaults
      /\ request[r].lost \in 0 .. RetryMax
  BY DEF AtWork, Call
<1>2. CASE request[r].lost < RetryMax
  <2> DEFINE q == [request[r] EXCEPT !.made = made, !.lost = @ + 1]
  <2>1. request' = [request EXCEPT ![r] = q]
    BY <1>2 DEF Repeat
  <2>2. request[r].lost + 1 \in 0 .. RetryMax
    BY <1>1, <1>2, RetryAssumption
  <2>3. q \in Call
    BY <1>1, <2>2 DEF Call
  <2>4. q.vault = request[r].vault /\ q.pc = "call" /\ q.made = made
        /\ q.lost = request[r].lost + 1 /\ q.ask = request[r].ask
    BY <1>1 DEF Call
  <2> HIDE DEF q
  <2>5. Sound(q, issued', revoked')
    BY <2>3, <2>4 DEF AtWork, Sound
  <2> QED
    BY <2>1, <2>5, OneMoves
<1>3. CASE ~(request[r].lost < RetryMax)
  <2> DEFINE q == [pc |-> "done", ask |-> request[r].ask, vault |-> request[r].vault,
                   answer |-> Refusal(request[r].ask.op), result |-> None, made |-> made,
                   lost |-> request[r].lost + 1]
  <2>1. request' = [request EXCEPT ![r] = q]
    BY <1>3 DEF Repeat
  <2>2. request[r].lost + 1 \in 0 .. RetryMax + 1
    BY <1>1, RetryAssumption
  <2>3. Refusal(request[r].ask.op) \in {"error", "badRequest"}
    BY DEF Refusal
  <2>4. q \in Done
    BY <1>1, <2>2, <2>3 DEF Done, Answers
  <2>5. made <= request[r].lost + 1 + 0
    BY <1>1, RetryAssumption
  <2>6. Answered(q, issued', revoked')
    BY <2>3, <2>4, <2>5 DEF Answered
  <2>7. Sound(q, issued', revoked')
    BY <2>6 DEF Sound
  <2> HIDE DEF q
  <2> QED
    BY <2>1, <2>7, OneMoves
<1> QED
  BY <1>2, <1>3

LEMMA CallUnansweredKeeps ==
  ASSUME IInv, NEW r \in Requests, CallUnanswered(r)
  PROVE  IInv'
<1>1. AtWork(request[r]) /\ request[r].pc = "call" /\ UNCHANGED <<rows, changes>>
  BY Places DEF CallUnanswered, IInv
<1>2. CASE Executes(r) /\ Repeat(r, Made(r))
  BY <1>1, <1>2, ExecutesAdds, MadeBounds, RepeatKeeps
<1>3. CASE UNCHANGED <<issued, revoked>> /\ Repeat(r, request[r].made)
  <2>1. request[r].made \in Nat /\ request[r].made <= request[r].lost + 1
    BY <1>1, RetryAssumption DEF AtWork, Call
  <2>2. issued \subseteq Certificate /\ revoked \subseteq Certificate
    BY DEF IInv
  <2> QED
    BY <1>1, <1>3, <2>1, <2>2, RepeatKeeps
<1> QED
  BY <1>2, <1>3 DEF CallUnanswered

-----------------------------------------------------------------------------
(* Every step.                                                             *)

LEMMA StepKeeps ==
  ASSUME IInv, NEW r \in Requests, Step(r)
  PROVE  IInv'
BY FindAuthorityKeeps, ConnectVaultKeeps, CallAnsweredKeeps, CallRefusedKeeps,
   CallUnansweredKeeps DEF Step

LEMMA ChangeAuthorityKeeps == IInv /\ ChangeAuthority => IInv'
<1> SUFFICES ASSUME IInv, ChangeAuthority PROVE IInv'
  OBVIOUS
<1>1. rows' \in [Authorities -> Vaults \cup {None}] /\ changes' \in 0 .. MaxChanges
  BY RetryAssumption DEF ChangeAuthority, IInv
<1>2. UNCHANGED <<issued, revoked, request>>
  BY DEF ChangeAuthority
<1> QED
  BY <1>1, <1>2 DEF IInv

LEMMA NextKeeps == IInv /\ [Next]_vars => IInv'
<1> SUFFICES ASSUME IInv, [Next]_vars PROVE IInv'
  OBVIOUS
<1>1. CASE ChangeAuthority
  BY <1>1, ChangeAuthorityKeeps
<1>2. CASE \E r \in Requests : Receive(r) \/ Step(r)
  BY <1>2, ReceiveKeeps, StepKeeps
<1>3. CASE UNCHANGED vars
  BY <1>3 DEF vars, IInv
<1> QED
  BY <1>1, <1>2, <1>3 DEF Next

-----------------------------------------------------------------------------
(* The theorems.                                                           *)

\* The invariant is inductive: what a request is at each place of its handler
\* holds after any steps of any requests and changes of the authorities.
THEOREM Inductive == Spec => []IInv
BY InitSound, NextKeeps, PTL DEF Spec

\* Every variable keeps its type.
THEOREM TypeCorrect == Spec => []TypeOK
BY Inductive, InvariantType, PTL

LEMMA InvariantEnded ==
  ASSUME IInv, NEW r \in Requests, Ended(r)
  PROVE  Answered(request[r], issued, revoked)
BY Places DEF IInv, Ended

\* signOrRenewCertificate leaves no certificate behind that nobody was given,
\* but those whose answer was lost, and one when the answer holds no PEM block.
THEOREM OrphansCorrect == Spec => []OrphansOnlyByLostAnswers
<1>1. IInv => OrphansOnlyByLostAnswers
  BY InvariantEnded DEF OrphansOnlyByLostAnswers, Answered
<1> QED
  BY <1>1, Inductive, PTL

\* The certificate a request answers was issued as the request asked, by the
\* vault its authority pointed to when the handler read the row.
THEOREM AnsweredCorrect == Spec => []AnsweredAsAsked
<1>1. IInv => AnsweredAsAsked
  BY InvariantEnded DEF AnsweredAsAsked, Answered
<1> QED
  BY <1>1, Inductive, PTL

\* RevokeCertificate answers a success only for a certificate that is revoked.
THEOREM RevokedCorrect == Spec => []RevokedAsAnswered
<1>1. IInv => RevokedAsAnswered
  BY InvariantEnded DEF RevokedAsAnswered, Answered
<1> QED
  BY <1>1, Inductive, PTL

-----------------------------------------------------------------------------
(* What is revoked was asked for.                                          *)

\* A request that revoked a certificate keeps answering for it.
LEMMA AskedForStays ==
  ASSUME IInv, NEW r \in Requests, NEW c, AskedFor(request[r], c), Receive(r) \/ Step(r)
  PROVE  AskedFor(request'[r], c)
<1>1. /\ request[r] # Idle /\ r \in DOMAIN request
      /\ request[r].pc \notin {"find", "connect"}
  BY DEF AskedFor, Idle, IInv
<1>2. request[r].pc = "call"
  BY <1>1 DEF Receive, Step, FindAuthority, ConnectVault, CallAnswered, CallRefused,
              CallUnanswered
<1>3. /\ request[r] \in Call /\ request[r].lost \in Nat /\ request[r].lost > 0
      /\ request[r].ask.op = "revoke"
  BY <1>2, Places, RetryAssumption DEF IInv, AtWork, Call, AskedFor
<1>4. \/ CallAnswered(r) \/ CallRefused(r) \/ CallUnanswered(r)
  BY <1>1, <1>2 DEF Receive, Step, FindAuthority, ConnectVault
<1>5. CASE CallAnswered(r)
  <2>1. PICK result : Finish(r, "ok", result)
    BY <1>3, <1>5 DEF CallAnswered, Signs, Reads
  <2> QED
    BY <1>1, <1>3, <2>1 DEF Finish, AskedFor
<1>6. CASE CallRefused(r)
  BY <1>1, <1>3, <1>6 DEF CallRefused, Answer, AskedFor
<1>7. CASE CallUnanswered(r)
  <2>1. PICK made : Repeat(r, made)
    BY <1>7 DEF CallUnanswered
  <2>2. CASE request[r].lost < RetryMax
    <3> DEFINE q == [request[r] EXCEPT !.made = made, !.lost = @ + 1]
    <3>1. request'[r] = q
      BY <1>1, <2>1, <2>2 DEF Repeat
    <3>2. q.pc = "call" /\ q.ask = request[r].ask /\ q.vault = request[r].vault
          /\ q.lost = request[r].lost + 1
      BY <1>2, <1>3 DEF Call
    <3> HIDE DEF q
    <3> QED
      BY <1>3, <3>1, <3>2 DEF AskedFor
  <2>3. CASE ~(request[r].lost < RetryMax)
    BY <1>1, <1>3, <2>1, <2>3 DEF Repeat, AskedFor
  <2> QED
    BY <2>2, <2>3
<1> QED
  BY <1>4, <1>5, <1>6, <1>7

\* What a step adds to the revoked certificates, its request answers for.
LEMMA RevokingIsAsked ==
  ASSUME IInv, NEW r \in Requests, Receive(r) \/ Step(r), NEW c \in revoked' \ revoked
  PROVE  AskedFor(request'[r], c)
<1>1. /\ CallAnswered(r) \/ CallUnanswered(r)
      /\ Revoking(r)
  BY DEF Receive, Step, FindAuthority, ConnectVault, CallAnswered, CallRefused,
         CallUnanswered, Frame, Executes, Signing, Looking
<1>2. /\ request[r].ask.op = "revoke" /\ request[r].ask.certificate = c
      /\ request[r].ask.engine = c.engine /\ request[r].vault = c.vault
  BY <1>1 DEF Revoking, Knows
<1>3. /\ request[r].pc = "call" /\ r \in DOMAIN request
      /\ request[r] \in Call /\ request[r].lost \in Nat
  BY <1>1, Places, RetryAssumption
     DEF CallAnswered, CallUnanswered, IInv, AtWork, Call
<1>4. CASE CallAnswered(r)
  <2>1. PICK result : Finish(r, "ok", result)
    BY <1>2, <1>4 DEF CallAnswered, Signs, Reads
  <2> QED
    BY <1>2, <1>3, <2>1 DEF Finish, AskedFor
<1>5. CASE CallUnanswered(r)
  <2>1. PICK made : Repeat(r, made)
    BY <1>5 DEF CallUnanswered
  <2>2. CASE request[r].lost < RetryMax
    <3> DEFINE q == [request[r] EXCEPT !.made = made, !.lost = @ + 1]
    <3>1. request'[r] = q
      BY <1>3, <2>1, <2>2 DEF Repeat
    <3>2. q.pc = "call" /\ q.ask = request[r].ask /\ q.vault = request[r].vault
          /\ q.lost = request[r].lost + 1
      BY <1>3 DEF Call
    <3> HIDE DEF q
    <3> QED
      BY <1>2, <1>3, <3>1, <3>2 DEF AskedFor
  <2>3. CASE ~(request[r].lost < RetryMax)
    BY <1>2, <1>3, <2>1, <2>3 DEF Repeat, AskedFor
  <2> QED
    BY <2>2, <2>3
<1> QED
  BY <1>1, <1>4, <1>5

LEMMA OthersStay ==
  ASSUME NEW r \in Requests, Receive(r) \/ Step(r), NEW s \in Requests, s # r, IInv
  PROVE  request'[s] = request[s]
<1>1. s \in DOMAIN request
  BY DEF IInv
<1>2. CASE Receive(r)
  <2>1. PICK ask : Begin(r, ask)
    BY <1>2 DEF Receive
  <2> QED
    BY <1>1, <2>1 DEF Begin
<1>3. CASE FindAuthority(r)
  BY <1>1, <1>3 DEF FindAuthority, Answer
<1>4. CASE ConnectVault(r)
  BY <1>1, <1>4 DEF ConnectVault, Goto, Answer
<1>5. CASE CallAnswered(r)
  <2>1. PICK answer, result : Finish(r, answer, result)
    BY <1>5 DEF CallAnswered
  <2> QED
    BY <1>1, <2>1 DEF Finish
<1>6. CASE CallRefused(r)
  BY <1>1, <1>6 DEF CallRefused, Answer
<1>7. CASE CallUnanswered(r)
  <2>1. PICK made : Repeat(r, made)
    BY <1>7 DEF CallUnanswered
  <2> QED
    BY <1>1, <2>1 DEF Repeat
<1> QED
  BY <1>2, <1>3, <1>4, <1>5, <1>6, <1>7 DEF Step

LEMMA NextKeepsAsked == IInv /\ RevokedWasAsked /\ [Next]_vars => RevokedWasAsked'
<1> SUFFICES ASSUME IInv, RevokedWasAsked, [Next]_vars, NEW c \in revoked'
             PROVE  \E s \in Requests : AskedFor(request'[s], c)
  BY DEF RevokedWasAsked, AskedFor
<1>1. CASE ChangeAuthority \/ UNCHANGED vars
  BY <1>1 DEF ChangeAuthority, vars, RevokedWasAsked
<1>2. CASE \E r \in Requests : Receive(r) \/ Step(r)
  <2>1. PICK r \in Requests : Receive(r) \/ Step(r)
    BY <1>2
  <2>2. CASE c \in revoked
    <3>1. PICK s \in Requests : AskedFor(request[s], c)
      BY <2>2 DEF RevokedWasAsked
    <3>2. AskedFor(request'[s], c)
      BY <2>1, <3>1, AskedForStays, OthersStay
    <3> QED
      BY <3>2
  <2>3. CASE c \notin revoked
    BY <2>1, <2>3, RevokingIsAsked
  <2> QED
    BY <2>2, <2>3
<1> QED
  BY <1>1, <1>2 DEF Next

\* RevokeCertificate revokes only what was asked for, where it was issued, and
\* of a revocation nobody was told the answer was lost.
THEOREM RevokedAskedCorrect == Spec => []RevokedWasAsked
<1>1. Init => RevokedWasAsked
  BY DEF Init, RevokedWasAsked
<1> QED
  BY <1>1, NextKeepsAsked, Inductive, PTL DEF Spec
=============================================================================
