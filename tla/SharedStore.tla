---------------------------- MODULE SharedStore ----------------------------
(***************************************************************************)
(* What is left of the promises of SecretStore when others change the same *)
(* secrets: other processes of the connector, other users of the vault,    *)
(* and calls that were given up and still arrive.  An update is a look and *)
(* a write, and so is a create on a mount of version 1: both find a fit    *)
(* secret once, and write whatever has become of it.  A create on version  *)
(* 2 and a delete are still one instant.  A call that was given up changes *)
(* what it was sent for, later or never.                                   *)
(***************************************************************************)
EXTENDS SecretStore

VARIABLE owed   \* changes that were sent, that nobody waits for

SharedInit == Init /\ owed = {}

Await(r) == Invoke(r) /\ UNCHANGED owed

\* What must be found before it is written over.
Sought(t) == t.op = "update" \/ (t.op = "create" /\ t.path \notin Versioned)

Find(r) ==
  /\ task[r].state = "open"
  /\ Sought(task[r])
  /\ (task[r].op = "update") <=> (store[task[r].path] \in Values)
  /\ task' = [task EXCEPT ![r].state = "found"]
  /\ UNCHANGED <<store, owed>>

\* A change that may be sent now.
Due(t) ==
  \/ t.state \in {"found", "applied"}
  \/ t.state = "open" /\ t.op # "read" /\ ~Sought(t)

Takes(t) == t.op = "create" /\ t.path \in Versioned => store[t.path] = Absent

Change(r) ==
  /\ Due(task[r]) /\ Takes(task[r])
  /\ store' = [store EXCEPT ![task[r].path] = task[r].value]
  /\ \/ \E answer \in {"ok", "error"} : Answer(r, answer)
     \/ task' = [task EXCEPT ![r].state = "applied"]
  /\ UNCHANGED owed

\* The change is under way; it is sent again, or the request is excused.
Postpone(r) ==
  /\ Due(task[r])
  /\ owed' = owed \cup {[op |-> task[r].op, path |-> task[r].path, value |-> task[r].value]}
  /\ Answer(r, "error") \/ UNCHANGED task
  /\ UNCHANGED store

\* A repeated create finds a secret, its own or another.
FindOwn(r) ==
  /\ task[r].state = "applied"
  /\ task[r].op = "create" /\ task[r].path \in Versioned
  /\ store[task[r].path] # Absent
  /\ Answer(r, "exists")
  /\ UNCHANGED <<store, owed>>

Settle(w) ==
  /\ owed' = owed \ {w}
  /\ store' = IF Takes(w) THEN [store EXCEPT ![w.path] = w.value] ELSE store
  /\ UNCHANGED task

Others(p) ==
  /\ \E c \in Contents(p) : store' = [store EXCEPT ![p] = c]
  /\ UNCHANGED <<task, owed>>

SharedNext ==
  \/ \E r \in Requests :
       \/ Await(r) \/ Find(r) \/ Change(r) \/ Postpone(r) \/ FindOwn(r)
       \/ (Look(r) \/ Reject(r) \/ GiveUp(r)) /\ UNCHANGED owed
  \/ \E lost \in SUBSET Requests : Lose(lost) /\ UNCHANGED owed
  \/ \E w \in owed : Settle(w)
  \/ \E p \in Paths : Others(p)

SharedSpec == SharedInit /\ [][SharedNext]_<<store, task, owed>>
=============================================================================
