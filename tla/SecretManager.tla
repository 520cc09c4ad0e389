--------------------------- MODULE SecretManager ---------------------------
(***************************************************************************)
(* The secret manager (internal/secret/vault): create, update, delete and  *)
(* read of a secret in the key-value engine of a vault.  A request holds   *)
(* the lock of its secret, one of the process that serves it, from before  *)
(* the mounts are looked up until its last call to the vault; everything   *)
(* before (the attributes, the login) and after (the answer) touches       *)
(* nothing that is shared.                                                 *)
(*                                                                         *)
(* A path stands for a mount and a path below it, which the manager        *)
(* concatenates into the name of the lock.  The engine is modelled from    *)
(* how the manager uses it, the vault client from its retries: a call that *)
(* gets no answer is sent again.                                           *)
(***************************************************************************)
EXTENDS Naturals, FiniteSets

CONSTANTS
  Processes,    \* processes of the connector that serve requests
  Requests, Paths, Versioned, Values, Absent, Hidden,   \* as in SecretStore
  RetryMax,     \* times the vault client repeats a call
  MaxOutside,   \* bound: changes made by other users of the vault
  MaxLate,      \* bound: calls the vault executes after they were given up
  MaxCrashes    \* bound: times a process is killed and started again

ASSUME BoundsAssumption ==
  RetryMax \in Nat /\ MaxOutside \in Nat /\ MaxLate \in Nat /\ MaxCrashes \in Nat
ASSUME ContentsAssumption == Absent # Hidden /\ {Absent, Hidden} \cap Values = {}
ASSUME VersionedAssumption == Versioned \subseteq Paths

VARIABLES
  vault,     \* path -> contents of the secret
  locks,     \* process -> path -> the requests that hold the lock
  call,      \* request -> the call that serves it
  late,      \* calls on their way to the vault that nobody waits for
  changes,   \* changes by others so far
  crashes    \* crashes so far

vars == <<vault, locks, call, late, changes, crashes>>

Contents(p) == Values \cup {Absent} \cup (IF p \in Versioned THEN {Hidden} ELSE {})

Ops == {"create", "update", "delete", "read"}

\* What a request asks to leave at its path; a read asks for nothing.
Leaves(op) == IF op \in {"create", "update"} THEN Values ELSE {Absent}

Refusals == {"error", "forbidden"}

Answers == {"ok", "exists", "notFound", "noMount", "lost"} \cup Refusals \cup Values

(* A call that is done keeps its answer; a read that succeeds answers what *)
(* it read.  applied is a history of whether one of its writes took place. *)

AtWork == {"detect", "check", "write"}

Call == [pc : {"lock"} \cup AtWork, op : Ops, path : Paths,
         value : Values \cup {Absent},
         process : Processes, retries : 0 .. RetryMax, applied : BOOLEAN]

Done == [pc : {"done"}, answer : Answers]

Idle == [pc |-> "idle"]

Delayed == [op : {"create", "update", "delete"}, path : Paths,
            value : Values \cup {Absent}]

TypeOK ==
  /\ vault \in [Paths -> Values \cup {Absent, Hidden}]
  /\ \A p \in Paths : vault[p] \in Contents(p)
  /\ locks \in [Processes -> [Paths -> SUBSET Requests]]
  /\ call \in [Requests -> {Idle} \cup Call \cup Done]
  /\ late \subseteq Delayed
  /\ changes \in 0 .. MaxOutside
  /\ crashes \in 0 .. MaxCrashes

Init ==
  /\ vault \in [Paths -> Values \cup {Absent, Hidden}]
  /\ \A p \in Paths : vault[p] \in Contents(p)
  /\ locks = [i \in Processes |-> [p \in Paths |-> {}]]
  /\ call = [r \in Requests |-> Idle]
  /\ late = {}
  /\ changes = 0
  /\ crashes = 0

-----------------------------------------------------------------------------
(* The handlers createSecret, updateSecret, deleteSecret, getSecretValue.  *)

Begin(r) ==
  /\ call[r] = Idle
  /\ \E op \in Ops, p \in Paths, i \in Processes : \E v \in Leaves(op) :
       call' = [call EXCEPT ![r] = [pc |-> "lock", op |-> op, path |-> p, value |-> v,
                                    process |-> i, retries |-> 0, applied |-> FALSE]]
  /\ UNCHANGED <<vault, locks, late, changes, crashes>>

Frame == UNCHANGED <<late, changes, crashes>>

Goto(r, pc) == call' = [call EXCEPT ![r].pc = pc]

Holders(r) == locks[call[r].process][call[r].path]

(* Lock and RLock: a read shares the lock with reads.                      *)

Holding(op) == {q \in Requests : call[q].pc \in AtWork /\ call[q].op = op}

\* Mutant: a create takes the lock for reading.
LockableWithRLock(r) ==
  Holders(r) \subseteq (IF call[r].op \in {"read", "create"}
                       THEN Holding("read") \cup Holding("create") ELSE {})

\* Mutant: whoever waits lets another one that waits go first.
LockableAfterYou(r) ==
  /\ Holders(r) \subseteq (IF call[r].op = "read" THEN Holding("read") ELSE {})
  /\ \A q \in Requests \ {r} :
       ~(call[q].pc = "lock" /\ call[q].process = call[r].process
                             /\ call[q].path = call[r].path)

Lockable(r) ==
  Holders(r) \subseteq (IF call[r].op = "read" THEN Holding("read") ELSE {})

Lock(r) ==
  /\ call[r].pc = "lock"
  /\ Lockable(r)
  /\ locks' = [locks EXCEPT ![call[r].process][call[r].path] = @ \cup {r}]
  /\ Goto(r, "detect")
  /\ Frame /\ UNCHANGED vault

(* The deferred Unlock and the answer of handleOpError.                    *)
Return(r, answer) ==
  /\ locks' = [locks EXCEPT ![call[r].process][call[r].path] = @ \ {r}]
  /\ call' = [call EXCEPT ![r] = [pc |-> "done", answer |-> answer]]

(* DetectKVVersion and, for a create or an update, ToPayload.  Both may    *)
(* fail; a mount that the token cannot see, or that is gone, is answered   *)
(* 404 like a secret that is not there, and told apart here for the        *)
(* properties.                                                             *)
Detect(r) ==
  /\ call[r].pc = "detect"
  /\ \/ /\ \/ call[r].op \in {"update", "read"} /\ Goto(r, "check")
           \/ call[r].op = "delete" /\ Goto(r, "write")
           \/ call[r].op = "create" /\ Goto(r, IF call[r].path \in Versioned THEN "write"
                                                                           ELSE "check")
        /\ UNCHANGED locks
     \/ \E answer \in Refusals \cup {"noMount"} : Return(r, answer)
  /\ Frame /\ UNCHANGED vault

-----------------------------------------------------------------------------
(* KvV1Read and KvV2Read before a write, and for a read.  A secret with    *)
(* all its versions deleted reads as 404.                                  *)

Readable(p) == vault[p] \in Values

\* Mutant: any error of the read counts as 404.
CreateReadIgnoresErrors(r) ==
  /\ call[r].pc = "check" /\ call[r].op = "create"
  /\ \/ Readable(call[r].path) /\ Return(r, "exists")
     \/ Goto(r, "write") /\ UNCHANGED locks
  /\ Frame /\ UNCHANGED vault

(* Version 1 has no compare-and-set: Create looks before it writes.        *)
CreateRead(r) ==
  /\ call[r].pc = "check" /\ call[r].op = "create"
  /\ \/ Readable(call[r].path) /\ Return(r, "exists")
     \/ ~Readable(call[r].path) /\ Goto(r, "write") /\ UNCHANGED locks
     \/ \E answer \in Refusals : Return(r, answer)
  /\ Frame /\ UNCHANGED vault

UpdateRead(r) ==
  /\ call[r].pc = "check" /\ call[r].op = "update"
  /\ \/ Readable(call[r].path) /\ Goto(r, "write") /\ UNCHANGED locks
     \/ ~Readable(call[r].path) /\ Return(r, "notFound")
     \/ \E answer \in Refusals \cup {"noMount"} : Return(r, answer)
  /\ Frame /\ UNCHANGED vault

(* FromPayload may find that the secret is not of the type asked for.      *)
Read(r) ==
  /\ call[r].pc = "check" /\ call[r].op = "read"
  /\ \/ Readable(call[r].path) /\ Return(r, vault[call[r].path])
     \/ ~Readable(call[r].path) /\ Return(r, "notFound")
     \/ \E answer \in Refusals \cup {"noMount"} : Return(r, answer)
  /\ Frame /\ UNCHANGED vault

-----------------------------------------------------------------------------
(* The last call: KvV1Write, KvV2Write or one of the two deletes.  Of the  *)
(* writes only a create on version 2 carries an option, cas 0, with which  *)
(* the engine refuses it when the secret has any version.  Create takes    *)
(* every 400 for that refusal, and the engine is taken to have no other    *)
(* reason to answer 400.                                                   *)

\* Mutant: the option cas is not sent.
ExecutesWithoutCas(w) == TRUE

Executes(w) == w.op = "create" /\ w.path \in Versioned => vault[w.path] = Absent

\* Mutant: the delete of version 2 only hides the secret.
EffectHides(w) ==
  vault' = [vault EXCEPT ![w.path] = IF w.op = "delete" THEN Hidden ELSE w.value]

Effect(w) == vault' = [vault EXCEPT ![w.path] = w.value]

Write(r) ==
  /\ call[r].pc = "write"
  /\ Executes(call[r])
  /\ Effect(call[r])
  /\ Return(r, "ok")
  /\ Frame

WriteRefused(r) ==
  /\ call[r].pc = "write"
  /\ \/ ~Executes(call[r]) /\ Return(r, "exists")
     \/ \E answer \in Refusals \cup {"noMount"} : Return(r, answer)
  /\ Frame /\ UNCHANGED vault

(* The call gets no answer, before or after it was executed, or while it   *)
(* is still under way; it is sent again, or the time for it is over.       *)
WriteUnanswered(r) ==
  LET w == call[r]
      again(applied) ==
        \/ /\ w.retries < RetryMax
           /\ call' = [call EXCEPT ![r].retries = @ + 1, ![r].applied = applied]
           /\ UNCHANGED locks
        \/ Return(r, "error")
  IN /\ w.pc = "write"
     /\ \/ Executes(w) /\ Effect(w) /\ again(TRUE) /\ UNCHANGED late
        \/ again(w.applied) /\ UNCHANGED <<vault, late>>
        \/ /\ Cardinality(late) < MaxLate
           /\ late' = late \cup {[op |-> w.op, path |-> w.path, value |-> w.value]}
           /\ again(w.applied) /\ UNCHANGED vault
     /\ UNCHANGED <<changes, crashes>>

Step(r) ==
  \/ Lock(r) \/ Detect(r) \/ CreateRead(r) \/ UpdateRead(r) \/ Read(r)
  \/ Write(r) \/ WriteRefused(r) \/ WriteUnanswered(r)

-----------------------------------------------------------------------------
(* What happens around the manager.                                        *)

Arrive(w) ==
  /\ late' = late \ {w}
  /\ IF Executes(w) THEN Effect(w) ELSE UNCHANGED vault
  /\ UNCHANGED <<locks, call, changes, crashes>>

(* Another user of the vault writes, deletes or hides a secret.            *)
Outside(p) ==
  /\ changes < MaxOutside
  /\ changes' = changes + 1
  /\ \E c \in Contents(p) : /\ c = Hidden => Readable(p)
                            /\ vault' = [vault EXCEPT ![p] = c]
  /\ UNCHANGED <<locks, call, late, crashes>>

Crash(i) ==
  /\ crashes < MaxCrashes
  /\ crashes' = crashes + 1
  /\ locks' = [locks EXCEPT ![i] = [p \in Paths |-> {}]]
  /\ call' = [r \in Requests |->
                IF call[r].pc \in {"lock"} \cup AtWork /\ call[r].process = i
                THEN [pc |-> "done", answer |-> "lost"] ELSE call[r]]
  /\ UNCHANGED <<vault, late, changes>>

Next ==
  \/ \E r \in Requests : Begin(r) \/ Step(r)
  \/ \E w \in late : Arrive(w)
  \/ \E p \in Paths : Outside(p)
  \/ \E i \in Processes : Crash(i)

Spec == Init /\ [][Next]_vars

(* A call to the vault ends within the time-out of the client, and a       *)
(* deferred Unlock hands the lock on.  Whoever waits gets it in the end:   *)
(* there are finitely many requests.                                       *)
FairSpec == Spec /\ \A r \in Requests : WF_vars(Step(r))

-----------------------------------------------------------------------------
(* Properties. *)

(* The lock does its work: its holders are the calls at work on the secret *)
(* in the process, and a change is alone there from before it looks until  *)
(* its last write, whatever way the handlers return.                       *)
Working(i, p) ==
  {r \in Requests : call[r].pc \in AtWork /\ call[r].process = i /\ call[r].path = p}

ChangesAreAlone ==
  \A i \in Processes, p \in Paths :
    /\ locks[i][p] = Working(i, p)
    /\ \A r, q \in Working(i, p) : r # q => call[r].op = "read" /\ call[q].op = "read"

(* What the platform sees of one process is what SecretStore promises:     *)
(* every request takes place at one instant, or is excused, although a     *)
(* change takes up to three calls to the vault and a lost answer repeats   *)
(* one of them.                                                            *)
Task(r) ==
  CASE call[r].pc = "idle" -> [state |-> "idle"]
    [] call[r].pc = "done" -> [state |-> "answered", answer |-> call[r].answer]
    [] OTHER -> [state |-> IF call[r].applied THEN "applied" ELSE "open",
                 op |-> call[r].op, path |-> call[r].path, value |-> call[r].value]

Tasks == [r \in Requests |-> Task(r)]

Store == INSTANCE SecretStore WITH store <- vault, task <- Tasks

Atomic == Store!Spec

(* What any number of processes keep of that, when others change the same  *)
(* secrets too and a call comes through after it was given up, is what     *)
(* SharedStore promises: nothing is written but what a request asked for   *)
(* after it found the secret fit, no create on version 2 replaces a secret *)
(* at the instant it takes place, and an answer is true of an instant of   *)
(* its request.                                                            *)
LooksFirst(c) == c.op = "update" \/ (c.op = "create" /\ c.path \notin Versioned)

SharedTask(r) ==
  CASE call[r].pc = "idle" -> [state |-> "idle"]
    [] call[r].pc = "done" -> [state |-> "answered", answer |-> call[r].answer]
    [] OTHER -> [state |-> IF call[r].applied THEN "applied"
                           ELSE IF call[r].pc = "write" /\ LooksFirst(call[r]) THEN "found"
                           ELSE "open",
                 op |-> call[r].op, path |-> call[r].path, value |-> call[r].value]

SharedTasks == [r \in Requests |-> SharedTask(r)]

Shared == INSTANCE SharedStore WITH store <- vault, task <- SharedTasks, owed <- late

\* The manager implements SharedStore.
AtomicAmongOthers == Shared!SharedSpec

(* Every request is answered: no way through the manager keeps a lock or   *)
(* repeats a call for ever.                                                *)
RequestsAreAnswered ==
  \A r \in Requests : call[r].pc = "lock" ~> call[r].pc = "done"

-----------------------------------------------------------------------------
(* The inductive invariants.  Shape holds whatever the bounds; IInv, which *)
(* Atomic rests on, for one process that alone changes the vault: what a   *)
(* call has found out still holds when it writes, and what it has written  *)
(* is still there when it writes again.                                    *)

CallOK(r) ==
  LET c == call[r]
  IN /\ c.pc \in {"lock"} \cup AtWork => c.value \in Leaves(c.op)
     /\ c.pc \in {"lock", "detect", "check"} => ~c.applied
     /\ c.pc = "check" => c.op # "delete" /\ (c.op = "create" => c.path \notin Versioned)
     /\ c.pc = "write" => c.op # "read"

Shape == TypeOK /\ ChangesAreAlone /\ \A r \in Requests : CallOK(r)

StillTrue(r) ==
  LET c == call[r]
  IN c.pc = "write" =>
       /\ c.applied => vault[c.path] = c.value
       /\ ~c.applied /\ c.op = "create" /\ c.path \notin Versioned => ~Readable(c.path)
       /\ ~c.applied /\ c.op = "update" => Readable(c.path)

IInv == Shape /\ late = {} /\ \A r \in Requests : StillTrue(r)
=============================================================================
