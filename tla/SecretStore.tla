---------------------------- MODULE SecretStore ----------------------------
(***************************************************************************)
(* What the secret provider promises its clients: each create, update,     *)
(* delete and read of a secret happens at one instant between its request  *)
(* and its answer, on the secret as it is at that instant.  A request may  *)
(* also end with an excuse, which does not say whether it happened.        *)
(***************************************************************************)
CONSTANTS
  Requests,    \* requests, each sent once
  Paths,       \* secrets: a mount and a path below it
  Versioned,   \* those on a mount of version 2
  Values,      \* contents of a secret
  Absent,      \* there is no secret
  Hidden       \* its versions were deleted and its metadata was not

VARIABLES
  store,   \* path -> contents
  task     \* request -> what it asks for and how far it is

Contents(p) == Values \cup {Absent} \cup (IF p \in Versioned THEN {Hidden} ELSE {})

Ops == {"create", "update", "delete", "read"}

\* What a request asks to leave at its path; a read asks for nothing.
Leaves(op) == IF op \in {"create", "update"} THEN Values ELSE {Absent}

Idle == [state |-> "idle"]

Init ==
  /\ store \in [Paths -> Values \cup {Absent, Hidden}]
  /\ \A p \in Paths : store[p] \in Contents(p)
  /\ task = [r \in Requests |-> Idle]

Invoke(r) ==
  /\ task[r] = Idle
  /\ \E op \in Ops, p \in Paths : \E v \in Leaves(op) :
       task' = [task EXCEPT ![r] = [state |-> "open", op |-> op, path |-> p, value |-> v]]
  /\ UNCHANGED store

Answer(r, answer) == task' = [task EXCEPT ![r] = [state |-> "answered", answer |-> answer]]

\* The secret is one that t may change.
Allows(t) ==
  \/ t.op = "create" /\ store[t.path] = Absent
  \/ t.op = "update" /\ store[t.path] \in Values
  \/ t.op = "delete"

(* The change happens, and is answered, excused or neither yet.            *)
Perform(r) ==
  /\ task[r].state = "open"
  /\ Allows(task[r])
  /\ store' = [store EXCEPT ![task[r].path] = task[r].value]
  /\ \/ \E answer \in {"ok", "error"} : Answer(r, answer)
     \/ task' = [task EXCEPT ![r].state = "applied"]

Look(r) ==
  /\ task[r].state = "open"
  /\ task[r].op = "read"
  /\ store[task[r].path] \in Values
  /\ Answer(r, store[task[r].path])
  /\ UNCHANGED store

(* The secret is not one the request may change or read. *)
Reject(r) ==
  /\ task[r].state = "open"
  /\ \/ task[r].op = "create" /\ store[task[r].path] # Absent /\ Answer(r, "exists")
     \/ /\ task[r].op \in {"update", "read"}
        /\ store[task[r].path] \notin Values
        /\ Answer(r, "notFound")
  /\ UNCHANGED store

(* A change that happened without its answer is tried again, which finds   *)
(* the change done: with version 2, a create then finds its own secret.    *)
Conclude(r) ==
  /\ task[r].state = "applied"
  /\ \/ Answer(r, "ok")
     \/ task[r].op = "create" /\ task[r].path \in Versioned /\ Answer(r, "exists")
  /\ UNCHANGED store

Begun(r) == task[r].state \in {"open", "found", "applied"}

GiveUp(r) ==
  /\ Begun(r)
  /\ \E excuse \in {"error", "forbidden", "noMount"} : Answer(r, excuse)
  /\ UNCHANGED store

(* The answers of some requests are lost, at once.                         *)
Lose(lost) ==
  /\ \A r \in lost : Begun(r)
  /\ task' = [r \in Requests |-> IF r \in lost THEN [state |-> "answered", answer |-> "lost"]
                                               ELSE task[r]]
  /\ UNCHANGED store

Next ==
  \/ \E r \in Requests :
       Invoke(r) \/ Perform(r) \/ Look(r) \/ Reject(r) \/ Conclude(r) \/ GiveUp(r)
  \/ \E lost \in SUBSET Requests : Lose(lost)

Spec == Init /\ [][Next]_<<store, task>>
=============================================================================
