-------------------------- MODULE DiscoveryLedger --------------------------
(***************************************************************************)
(* What a reader of the tables may see of each discovery over time: it is  *)
(* started once, finds certificates while it is inProgress, is settled,    *)
(* and is removed with all it found.  Nothing happens to two discoveries   *)
(* in one step.                                                            *)
(***************************************************************************)
CONSTANTS
  Discoveries,   \* keys of discoveries
  Certificates   \* serial numbers of certificates

VARIABLE ledger   \* discovery -> its stage and the certificates it found

Entry == [stage : {"unused", "inProgress", "COMPLETED", "FAILED", "gone"},
          found : SUBSET Certificates]

Init == ledger = [d \in Discoveries |-> [stage |-> "unused", found |-> {}]]

Enter(d, stage, found) ==
  ledger' = [ledger EXCEPT ![d] = [stage |-> stage, found |-> found]]

(* A discovery that can ask no vault has failed from the start.            *)
Start(d) ==
  /\ ledger[d].stage = "unused"
  /\ \E stage \in {"inProgress", "FAILED"} : Enter(d, stage, {})

Find(d) ==
  /\ ledger[d].stage = "inProgress"
  /\ \E more \in SUBSET Certificates : Enter(d, "inProgress", ledger[d].found \cup more)

(* Completing a discovery adds nothing to what it has found.               *)
Complete(d) ==
  /\ ledger[d].stage = "inProgress"
  /\ Enter(d, "COMPLETED", ledger[d].found)

(* A failure may still record the certificates at hand.                    *)
Fail(d) ==
  /\ ledger[d].stage = "inProgress"
  /\ \E more \in SUBSET Certificates : Enter(d, "FAILED", ledger[d].found \cup more)

(* COMPLETED was recorded without its worker being told.                   *)
Withdraw(d) ==
  /\ ledger[d].stage = "COMPLETED"
  /\ Enter(d, "FAILED", ledger[d].found)

Remove(d) ==
  /\ ledger[d].stage \in {"inProgress", "COMPLETED", "FAILED"}
  /\ Enter(d, "gone", {})

(* The worker of a removed discovery settles it: it is back, and empty.    *)
Return(d) ==
  /\ ledger[d].stage = "gone"
  /\ \E stage \in {"COMPLETED", "FAILED"} : Enter(d, stage, {})

Next ==
  \E d \in Discoveries :
    \/ Start(d) \/ Find(d) \/ Complete(d) \/ Fail(d)
    \/ Withdraw(d) \/ Remove(d) \/ Return(d)

Spec == Init /\ [][Next]_ledger
=============================================================================
