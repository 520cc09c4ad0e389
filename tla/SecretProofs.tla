---------------------------- MODULE SecretProofs ----------------------------
(***************************************************************************)
(* Proofs about the secret manager, for any requests, paths, values and    *)
(* bounds: what it promises among others, and for one process that alone   *)
(* changes the vault.                                                      *)
(***************************************************************************)
EXTENDS SecretManager, FiniteSetTheorems, TLAPS

-----------------------------------------------------------------------------
(* The three shapes a call has are told apart by its pc. *)

Begun == {"lock"} \cup AtWork

CallState == {Idle} \cup Call \cup Done

LEMMA BegunCall ==
  ASSUME NEW c \in CallState, c.pc \in Begun
  PROVE  c \in Call
  BY DEF CallState, Begun, AtWork, Idle, Done

LEMMA CallFields ==
  ASSUME NEW c \in Call
  PROVE  /\ c.pc \in Begun /\ c.op \in Ops /\ c.path \in Paths
         /\ c.value \in Values \cup {Absent} /\ c.process \in Processes
         /\ c.retries \in 0 .. RetryMax /\ c.applied \in BOOLEAN
  BY DEF Call, Begun

LEMMA CallWith ==
  ASSUME NEW c \in Call
  PROVE  /\ \A pc \in Begun : [c EXCEPT !.pc = pc] \in Call
         /\ \A n \in 0 .. RetryMax, b \in BOOLEAN :
              [c EXCEPT !.retries = n, !.applied = b] \in Call
  BY DEF Call, Begun

LEMMA DoneType ==
  ASSUME NEW answer \in Answers
  PROVE  [pc |-> "done", answer |-> answer] \in Done
  BY DEF Done

-----------------------------------------------------------------------------
(* What a step of a request does to its call and to its lock: it takes the *)
(* lock, goes on at work under it, or returns.                             *)

Continue(r) ==
  /\ call[r].pc \in AtWork
  /\ UNCHANGED locks
  /\ \E c \in Call :
       /\ c.pc \in AtWork
       /\ c.op = call[r].op /\ c.path = call[r].path /\ c.process = call[r].process
       /\ call' = [call EXCEPT ![r] = c]

Ends(r) == call[r].pc \in AtWork /\ \E answer \in Answers : Return(r, answer)

LEMMA GotoContinues ==
  ASSUME TypeOK, NEW r \in Requests, call[r].pc \in AtWork, NEW pc \in AtWork,
         Goto(r, pc), UNCHANGED locks
  PROVE  Continue(r)
<1>1. call[r] \in Call
  BY BegunCall DEF TypeOK, Begun, CallState
<1> DEFINE c == [call[r] EXCEPT !.pc = pc]
<1>2. c \in Call
  BY <1>1, CallWith DEF Begun
<1>3. c.pc \in AtWork /\ c.op = call[r].op /\ c.path = call[r].path
        /\ c.process = call[r].process
  BY <1>1 DEF Call
<1>4. call' = [call EXCEPT ![r] = c]
  BY DEF Goto
<1> HIDE DEF c
<1>. QED
  BY <1>2, <1>3, <1>4 DEF Continue

LEMMA RefusalsAnswers == Refusals \subseteq Answers
  BY DEF Refusals, Answers

LEMMA StepKinds ==
  ASSUME TypeOK, NEW r \in Requests, Step(r)
  PROVE  Lock(r) \/ Continue(r) \/ Ends(r)
<1>1. CASE Lock(r)
  BY <1>1
<1>2. CASE Detect(r)
  <2>1. call[r].pc \in AtWork
    BY <1>2 DEF Detect, AtWork
  <2>2. CASE \E answer \in Refusals \cup {"noMount"} : Return(r, answer)
    BY <2>1, <2>2 DEF Ends, Refusals, Answers
  <2>3. CASE UNCHANGED locks /\ \E pc \in AtWork : Goto(r, pc)
    BY <2>1, <2>3, GotoContinues
  <2>4. (UNCHANGED locks /\ \E pc \in AtWork : Goto(r, pc))
          \/ \E answer \in Refusals \cup {"noMount"} : Return(r, answer)
    BY <1>2 DEF Detect, AtWork
  <2>. QED
    BY <2>2, <2>3, <2>4
<1>3. CASE CreateRead(r) \/ UpdateRead(r) \/ Read(r)
  <2>1. call[r].pc \in AtWork
    BY <1>3 DEF CreateRead, UpdateRead, Read, AtWork
  <2>2. "write" \in AtWork
    BY DEF AtWork
  <2>3. (UNCHANGED locks /\ Goto(r, "write")) \/ \E answer \in Answers : Return(r, answer)
    BY <1>3 DEF CreateRead, UpdateRead, Read, Readable, Refusals, Answers
  <2>. QED
    BY <2>1, <2>2, <2>3, GotoContinues DEF Ends
<1>4. CASE Write(r) \/ WriteRefused(r)
  BY <1>4 DEF Write, WriteRefused, Ends, AtWork, Refusals, Answers
<1>5. CASE WriteUnanswered(r)
  <2>1. call[r].pc \in AtWork
    BY <1>5 DEF WriteUnanswered, AtWork
  <2>2. call[r] \in Call
    BY <2>1, BegunCall DEF TypeOK, Begun, CallState
  <2>3. call[r].retries \in 0 .. RetryMax /\ call[r].applied \in BOOLEAN
    BY <2>2, CallFields
  <2>4. CASE \E b \in BOOLEAN :
               /\ call[r].retries < RetryMax
               /\ call' = [call EXCEPT ![r].retries = @ + 1, ![r].applied = b]
               /\ UNCHANGED locks
    <3>1. PICK b \in BOOLEAN :
               /\ call[r].retries < RetryMax
               /\ call' = [call EXCEPT ![r].retries = @ + 1, ![r].applied = b]
               /\ UNCHANGED locks
      BY <2>4
    <3> DEFINE c == [call[r] EXCEPT !.retries = call[r].retries + 1, !.applied = b]
    <3>2. call[r].retries + 1 \in 0 .. RetryMax
      BY <2>3, <3>1, BoundsAssumption
    <3>3. c \in Call
      BY <2>2, <3>2, CallWith
    <3>4. /\ c.pc = call[r].pc /\ c.op = call[r].op /\ c.path = call[r].path
          /\ c.process = call[r].process
      BY <2>2 DEF Call
    <3>5. call' = [call EXCEPT ![r] = c]
      BY <3>1 DEF TypeOK
    <3> HIDE DEF c
    <3>. QED
      BY <2>1, <3>1, <3>3, <3>4, <3>5 DEF Continue
  <2>5. CASE Return(r, "error")
    BY <2>1, <2>5 DEF Ends, Answers, Refusals
  <2>6. Return(r, "error") \/ \E b \in BOOLEAN :
               /\ call[r].retries < RetryMax
               /\ call' = [call EXCEPT ![r].retries = @ + 1, ![r].applied = b]
               /\ UNCHANGED locks
    BY <1>5, <2>3 DEF WriteUnanswered
  <2>. QED
    BY <2>4, <2>5, <2>6
<1>. QED
  BY <1>1, <1>2, <1>3, <1>4, <1>5 DEF Step
-----------------------------------------------------------------------------
(* Type correctness. *)

\* The calls and the locks, which the kinds of steps keep typed.
CallsOK ==
  /\ locks \in [Processes -> [Paths -> SUBSET Requests]]
  /\ call \in [Requests -> CallState]

\* The vault and the calls on their way to it.
VaultOK ==
  /\ vault \in [Paths -> Values \cup {Absent, Hidden}]
  /\ \A p \in Paths : vault[p] \in Contents(p)
  /\ late \subseteq Delayed
  /\ changes \in 0 .. MaxOutside
  /\ crashes \in 0 .. MaxCrashes

LEMMA TypeParts == TypeOK <=> CallsOK /\ VaultOK
  BY DEF TypeOK, CallsOK, VaultOK, CallState

LEMMA TypePartsNext == (TypeOK <=> CallsOK /\ VaultOK)'
  BY TypeParts, PTL

LEMMA LocksType ==
  ASSUME locks \in [Processes -> [Paths -> SUBSET Requests]],
         NEW i \in Processes, NEW p \in Paths, NEW h \in SUBSET Requests
  PROVE  /\ [locks EXCEPT ![i][p] = h] \in [Processes -> [Paths -> SUBSET Requests]]
         /\ \A j \in Processes, q \in Paths :
              [locks EXCEPT ![i][p] = h][j][q] = IF j = i /\ q = p THEN h ELSE locks[j][q]
  OBVIOUS

\* What a step leaves of the locks, one lock at a time.
LEMMA LockSet ==
  ASSUME locks \in [Processes -> [Paths -> SUBSET Requests]],
         NEW i \in Processes, NEW p \in Paths, NEW h \in SUBSET Requests,
         locks' = [locks EXCEPT ![i][p] = h],
         NEW j \in Processes, NEW o \in Paths
  PROVE  locks'[j][o] = IF j = i /\ o = p THEN h ELSE locks[j][o]
  OBVIOUS

LEMMA ReturnCall ==
  ASSUME TypeOK, NEW r \in Requests, call[r].pc \in Begun
  PROVE  /\ call[r] \in Call
         /\ call[r].process \in Processes /\ call[r].path \in Paths
  BY BegunCall, CallFields DEF TypeOK, CallState

LEMMA KindsType ==
  ASSUME TypeOK, NEW r \in Requests, Lock(r) \/ Continue(r) \/ Ends(r)
  PROVE  CallsOK'
<1>. USE DEF CallsOK
<1>1. CallsOK
  BY TypeParts
<1>2. call[r].pc \in Begun
  BY DEF Lock, Continue, Ends, Begun
<1>3. /\ call[r] \in Call
      /\ call[r].process \in Processes /\ call[r].path \in Paths
  BY <1>2, ReturnCall
<1>4. CASE Lock(r)
  <2>1. locks' \in [Processes -> [Paths -> SUBSET Requests]]
    BY <1>1, <1>3, <1>4, LocksType DEF Lock
  <2>2. [call[r] EXCEPT !.pc = "detect"] \in Call
    BY <1>3, CallWith DEF Begun, AtWork
  <2>3. call' = [call EXCEPT ![r] = [call[r] EXCEPT !.pc = "detect"]]
    BY <1>1, <1>4 DEF Lock, Goto
  <2>. QED
    BY <1>1, <2>1, <2>2, <2>3 DEF CallState
<1>5. CASE Continue(r)
  BY <1>1, <1>5 DEF Continue, CallState
<1>6. CASE Ends(r)
  <2>1. PICK answer \in Answers : Return(r, answer)
    BY <1>6 DEF Ends
  <2>2. locks' \in [Processes -> [Paths -> SUBSET Requests]]
    BY <1>1, <1>3, <2>1, LocksType DEF Return
  <2>3. [pc |-> "done", answer |-> answer] \in CallState
    BY DoneType DEF CallState
  <2>. QED
    BY <1>1, <2>1, <2>2, <2>3 DEF Return
<1>. QED
  BY <1>4, <1>5, <1>6

\* A write leaves at its path what may be there.
LEMMA EffectType ==
  ASSUME VaultOK, NEW w, w.path \in Paths, w.value \in Values \cup {Absent}, Effect(w)
  PROVE  /\ vault' \in [Paths -> Values \cup {Absent, Hidden}]
         /\ \A p \in Paths : vault'[p] \in Contents(p)
  BY DEF VaultOK, Effect, Contents

LEMMA StepVaultType ==
  ASSUME TypeOK, NEW r \in Requests, CallOK(r), Step(r)
  PROVE  VaultOK'
<1>1. VaultOK
  BY TypeParts
<1>2. CASE UNCHANGED <<vault, late, changes, crashes>>
  BY <1>1, <1>2 DEF VaultOK, Contents
<1>3. CASE Write(r) \/ WriteUnanswered(r)
  <2>1. call[r] \in Call
    BY <1>3, ReturnCall DEF Write, WriteUnanswered, Begun, AtWork
  <2>2. /\ call[r].path \in Paths /\ call[r].value \in Values \cup {Absent}
        /\ call[r].op \in Ops
    BY <2>1, CallFields
  <2>3. UNCHANGED vault \/ Effect(call[r])
    BY <1>3 DEF Write, WriteUnanswered
  <2>4. /\ vault' \in [Paths -> Values \cup {Absent, Hidden}]
        /\ \A p \in Paths : vault'[p] \in Contents(p)
    BY <1>1, <2>2, <2>3, EffectType DEF VaultOK
  <2>5. late' \subseteq late \cup
           {[op |-> call[r].op, path |-> call[r].path, value |-> call[r].value]}
    BY <1>3 DEF Write, WriteUnanswered, Frame
  <2>6. late' # late => call[r].op # "read"
    BY <1>3 DEF Write, WriteUnanswered, Frame, CallOK
  <2>. QED
    BY <1>1, <1>3, <2>2, <2>4, <2>5, <2>6
       DEF VaultOK, Contents, Delayed, Ops, Write, WriteUnanswered, Frame
<1>. QED
  BY <1>2, <1>3
     DEF Step, Lock, Detect, CreateRead, UpdateRead, Read, WriteRefused, Frame
LEMMA BeginType ==
  ASSUME TypeOK, NEW r \in Requests, Begin(r)
  PROVE  TypeOK'
<1>1. PICK op \in Ops, p \in Paths, i \in Processes, v \in Values \cup {Absent} :
        /\ v \in Leaves(op)
        /\ call' = [call EXCEPT ![r] = [pc |-> "lock", op |-> op, path |-> p, value |-> v,
                                        process |-> i, retries |-> 0, applied |-> FALSE]]
  BY DEF Begin, Leaves
<1> DEFINE c == [pc |-> "lock", op |-> op, path |-> p, value |-> v,
                 process |-> i, retries |-> 0, applied |-> FALSE]
<1>2. v \in Values \cup {Absent}
  BY DEF Leaves
<1>3. c \in Call
  BY <1>2, BoundsAssumption DEF Call
<1>4. call' = [call EXCEPT ![r] = c]
  BY <1>1
<1> HIDE DEF c
<1>5. CallsOK'
  BY <1>3, <1>4, TypeParts DEF CallsOK, CallState, Begin
<1>. QED
  BY <1>5, TypeParts, TypePartsNext DEF VaultOK, Contents, Begin

LEMMA AroundType ==
  ASSUME TypeOK,
         \/ \E w \in late : Arrive(w)
         \/ \E p \in Paths : Outside(p)
         \/ \E i \in Processes : Crash(i)
  PROVE  TypeOK'
<1>1. CallsOK /\ VaultOK
  BY TypeParts
<1>2. ASSUME NEW w \in late, Arrive(w)
      PROVE  TypeOK'
  <2>1. w.path \in Paths /\ w.value \in Values \cup {Absent}
    BY <1>1 DEF VaultOK, Delayed
  <2>2. /\ vault' \in [Paths -> Values \cup {Absent, Hidden}]
        /\ \A p \in Paths : vault'[p] \in Contents(p)
    BY <1>1, <1>2, <2>1, EffectType DEF Arrive, VaultOK
  <2>3. CallsOK' /\ VaultOK'
    BY <1>1, <1>2, <2>2 DEF Arrive, CallsOK, VaultOK, Contents
  <2>. QED
    BY <2>3, TypePartsNext
<1>3. ASSUME NEW p \in Paths, Outside(p)
      PROVE  TypeOK'
  <2>1. changes' \in 0 .. MaxOutside
    BY <1>1, <1>3, BoundsAssumption DEF VaultOK, Outside
  <2>2. PICK c \in Contents(p) : vault' = [vault EXCEPT ![p] = c]
    BY <1>3 DEF Outside
  <2>3. /\ vault' \in [Paths -> Values \cup {Absent, Hidden}]
        /\ \A q \in Paths : vault'[q] \in Contents(q)
    BY <1>1, <2>2 DEF VaultOK, Contents
  <2>4. CallsOK' /\ VaultOK'
    BY <1>1, <1>3, <2>1, <2>3 DEF Outside, CallsOK, VaultOK, Contents
  <2>. QED
    BY <2>4, TypePartsNext
<1>4. ASSUME NEW i \in Processes, Crash(i)
      PROVE  TypeOK'
  <2>1. crashes' \in 0 .. MaxCrashes
    BY <1>1, <1>4, BoundsAssumption DEF VaultOK, Crash
  <2>2. [pc |-> "done", answer |-> "lost"] \in CallState
    BY DoneType DEF CallState, Answers
  <2>3. call' \in [Requests -> CallState]
    BY <1>1, <1>4, <2>2 DEF Crash, CallsOK
  <2>4. locks' \in [Processes -> [Paths -> SUBSET Requests]]
    BY <1>1, <1>4 DEF Crash, CallsOK
  <2>5. CallsOK' /\ VaultOK'
    BY <1>1, <1>4, <2>1, <2>3, <2>4 DEF Crash, CallsOK, VaultOK, Contents
  <2>. QED
    BY <2>5, TypePartsNext
<1>. QED
  BY <1>2, <1>3, <1>4

LEMMA TypeStep ==
  ASSUME TypeOK, \A r \in Requests : CallOK(r), [Next]_vars
  PROVE  TypeOK'
<1>1. ASSUME NEW r \in Requests, Step(r)
      PROVE  TypeOK'
  BY <1>1, StepKinds, KindsType, StepVaultType, TypePartsNext
<1>2. CASE UNCHANGED vars
  BY <1>2 DEF vars, TypeOK, Contents
<1>. QED
  BY <1>1, <1>2, BeginType, AroundType DEF Next

-----------------------------------------------------------------------------
(* Shape is inductive. *)

LEMMA ShapeInit == Init => Shape
<1> SUFFICES ASSUME Init PROVE Shape
  OBVIOUS
<1>1. \A r \in Requests : call[r].pc = "idle"
  BY DEF Init, Idle
<1>2. TypeOK
  BY BoundsAssumption DEF Init, TypeOK, Contents
<1>3. ChangesAreAlone
  BY <1>1 DEF Init, ChangesAreAlone, Working, AtWork
<1>4. \A r \in Requests : CallOK(r)
  BY <1>1 DEF CallOK, AtWork
<1>. QED
  BY <1>2, <1>3, <1>4 DEF Shape

\* Steps of a request leave the calls of the others alone.
LEMMA Others ==
  ASSUME TypeOK, NEW r \in Requests, Begin(r) \/ Lock(r) \/ Continue(r) \/ Ends(r)
  PROVE  \A q \in Requests \ {r} : call'[q] = call[q]
  BY DEF TypeOK, Begin, Lock, Goto, Continue, Ends, Return

LEMMA BeginShape ==
  ASSUME Shape, NEW r \in Requests, Begin(r)
  PROVE  ChangesAreAlone' /\ \A q \in Requests : CallOK(q)'
<1>1. TypeOK
  BY DEF Shape
<1>2. call[r].pc = "idle"
  BY DEF Begin, Idle
<1>3. PICK op \in Ops, p \in Paths, i \in Processes, v \in Values \cup {Absent} :
        /\ v \in Leaves(op)
        /\ call' = [call EXCEPT ![r] = [pc |-> "lock", op |-> op, path |-> p, value |-> v,
                                        process |-> i, retries |-> 0, applied |-> FALSE]]
  BY DEF Begin, Leaves
<1>4. call'[r].pc = "lock" /\ call'[r].value \in Leaves(call'[r].op) /\ ~call'[r].applied
  BY <1>1, <1>3 DEF TypeOK
<1>5. CallOK(r)'
  BY <1>4 DEF CallOK, AtWork, Leaves
<1>6. \A q \in Requests : CallOK(q)'
  BY <1>1, <1>5, Others DEF Shape, CallOK, Leaves
<1>7. \A j \in Processes, q \in Paths : Working(j, q)' = Working(j, q)
  BY <1>1, <1>2, <1>4, Others DEF Working, AtWork
<1>8. \A j \in Processes, o \in Paths : \A q \in Working(j, o) : call'[q] = call[q]
  BY <1>1, <1>2, Others DEF Working, AtWork
<1>9. UNCHANGED locks
  BY DEF Begin
<1>10. ChangesAreAlone'
  BY <1>7, <1>8, <1>9 DEF Shape, ChangesAreAlone
<1>. QED
  BY <1>6, <1>10
LEMMA LockShape ==
  ASSUME Shape, NEW r \in Requests, Lock(r)
  PROVE  ChangesAreAlone' /\ \A q \in Requests : CallOK(q)'
<1>1. TypeOK /\ CallOK(r) /\ ChangesAreAlone
  BY DEF Shape
<1>2. call[r].pc = "lock"
  BY DEF Lock
<1>3. call[r] \in Call /\ call[r].process \in Processes /\ call[r].path \in Paths
  BY <1>1, <1>2, ReturnCall DEF Begun
<1> DEFINE i == call[r].process
           p == call[r].path
<1>4. call'[r] = [call[r] EXCEPT !.pc = "detect"]
  BY <1>1 DEF Lock, Goto, TypeOK
<1>5. /\ call'[r].pc = "detect" /\ call'[r].op = call[r].op /\ call'[r].path = call[r].path
      /\ call'[r].value = call[r].value /\ call'[r].process = call[r].process
      /\ call'[r].applied = call[r].applied
  BY <1>3, <1>4 DEF Call
<1>6. \A q \in Requests \ {r} : call'[q] = call[q]
  BY <1>1, Others
<1>7. \A q \in Requests : CallOK(q)'
  BY <1>1, <1>2, <1>5, <1>6 DEF Shape, CallOK, Leaves
<1>8. \A j \in Processes, o \in Paths :
        Working(j, o)' = IF j = i /\ o = p THEN Working(j, o) \cup {r} ELSE Working(j, o)
  BY <1>2, <1>5, <1>6 DEF Working, AtWork
<1>9. \A j \in Processes, o \in Paths :
        locks'[j][o] = IF j = i /\ o = p THEN locks[i][p] \cup {r} ELSE locks[j][o]
  <2>1. locks' = [locks EXCEPT ![i][p] = locks[i][p] \cup {r}]
    BY DEF Lock
  <2>2. locks \in [Processes -> [Paths -> SUBSET Requests]]
    BY <1>1 DEF TypeOK
  <2>3. locks[i][p] \cup {r} \in SUBSET Requests
    BY <1>3, <2>2
  <2> HIDE DEF i, p
  <2>. QED
    BY <1>3, <2>1, <2>2, <2>3, LockSet DEF i, p
<1>10. \A j \in Processes, o \in Paths : locks'[j][o] = Working(j, o)'
  <2>1. \A j \in Processes, o \in Paths : locks[j][o] = Working(j, o)
    BY <1>1 DEF ChangesAreAlone
  <2>. QED
    BY <1>3, <1>8, <1>9, <2>1
<1>11. locks[i][p] = Working(i, p)
  BY <1>1, <1>3 DEF ChangesAreAlone
<1>12. \A q \in Working(i, p) : call[r].op = "read" /\ call[q].op = "read"
  BY <1>11 DEF Lock, Lockable, Holders, Holding
<1>13. \A j \in Processes, o \in Paths :
         \A q1, q2 \in Working(j, o)' : q1 # q2 => call'[q1].op = "read" /\ call'[q2].op = "read"
  <2> SUFFICES ASSUME NEW j \in Processes, NEW o \in Paths,
                      NEW q1 \in Working(j, o)', NEW q2 \in Working(j, o)', q1 # q2
               PROVE  call'[q1].op = "read" /\ call'[q2].op = "read"
    OBVIOUS
  <2>1. q1 \in Requests /\ q2 \in Requests
    BY DEF Working
  <2>2. \A q \in Requests : call'[q].op = call[q].op
    BY <1>5, <1>6
  <2>3. CASE q1 \in Working(j, o) /\ q2 \in Working(j, o)
    BY <1>1, <2>1, <2>2, <2>3 DEF ChangesAreAlone
  <2>4. CASE (q1 = r \/ q2 = r) /\ j = i /\ o = p
    BY <1>8, <1>12, <2>1, <2>2, <2>4
  <2>. QED
    BY <1>8, <2>3, <2>4
<1>14. ChangesAreAlone'
  BY <1>10, <1>13 DEF ChangesAreAlone
<1>. QED
  BY <1>7, <1>14

LEMMA ContinueAlone ==
  ASSUME Shape, NEW r \in Requests, Continue(r)
  PROVE  ChangesAreAlone'
<1>1. TypeOK /\ ChangesAreAlone
  BY DEF Shape
<1>2. \A q \in Requests \ {r} : call'[q] = call[q]
  BY <1>1, Others
<1>3. PICK c \in Call :
       /\ c.pc \in AtWork
       /\ c.op = call[r].op /\ c.path = call[r].path /\ c.process = call[r].process
       /\ call' = [call EXCEPT ![r] = c]
  BY DEF Continue
<1>4. /\ call[r].pc \in AtWork /\ call'[r].pc \in AtWork
      /\ call'[r].op = call[r].op
      /\ call'[r].path = call[r].path /\ call'[r].process = call[r].process
  BY <1>1, <1>3 DEF Continue, TypeOK
<1>5. \A j \in Processes, o \in Paths : Working(j, o)' = Working(j, o)
  BY <1>2, <1>4 DEF Working
<1>6. \A q \in Requests : call'[q].op = call[q].op
  BY <1>2, <1>4
<1>7. \A j \in Processes, o \in Paths : \A q \in Working(j, o) : q \in Requests
  BY DEF Working
<1>8. UNCHANGED locks
  BY DEF Continue
<1>. QED
  BY <1>1, <1>5, <1>6, <1>7, <1>8 DEF ChangesAreAlone

LEMMA EndsShape ==
  ASSUME Shape, NEW r \in Requests, Ends(r)
  PROVE  ChangesAreAlone' /\ \A q \in Requests : CallOK(q)'
<1>1. TypeOK /\ ChangesAreAlone
  BY DEF Shape
<1>2. \A q \in Requests \ {r} : call'[q] = call[q]
  BY <1>1, Others
<1>3. PICK answer \in Answers : Return(r, answer)
  BY DEF Ends
<1>4. call[r].pc \in AtWork /\ call'[r].pc = "done"
  BY <1>1, <1>3 DEF Ends, Return, TypeOK
<1>5. call[r] \in Call /\ call[r].process \in Processes /\ call[r].path \in Paths
  BY <1>1, <1>4, ReturnCall DEF Begun
<1>6. \A q \in Requests : CallOK(q)'
  BY <1>2, <1>4 DEF Shape, CallOK, Leaves, AtWork
<1>7. \A j \in Processes, o \in Paths : Working(j, o)' = Working(j, o) \ {r}
  BY <1>2, <1>4 DEF Working, AtWork
<1>8. \A j \in Processes, o \in Paths :
        locks'[j][o] = IF j = call[r].process /\ o = call[r].path
                       THEN locks[call[r].process][call[r].path] \ {r} ELSE locks[j][o]
  <2> DEFINE i == call[r].process
             p == call[r].path
  <2>1. locks' = [locks EXCEPT ![i][p] = locks[i][p] \ {r}]
    BY <1>3 DEF Return
  <2>2. locks \in [Processes -> [Paths -> SUBSET Requests]]
    BY <1>1 DEF TypeOK
  <2>3. locks[i][p] \ {r} \in SUBSET Requests
    BY <1>5, <2>2
  <2> HIDE DEF i, p
  <2>. QED
    BY <1>5, <2>1, <2>2, <2>3, LockSet DEF i, p
<1>9. \A j \in Processes, o \in Paths :
        ~(j = call[r].process /\ o = call[r].path) => r \notin Working(j, o)
  BY DEF Working
<1>10. \A j \in Processes, o \in Paths : locks'[j][o] = Working(j, o)'
  <2>1. \A j \in Processes, o \in Paths : locks[j][o] = Working(j, o)
    BY <1>1 DEF ChangesAreAlone
  <2> SUFFICES ASSUME NEW j \in Processes, NEW o \in Paths
               PROVE  locks'[j][o] = Working(j, o)'
    OBVIOUS
  <2>2. CASE j = call[r].process /\ o = call[r].path
    BY <1>7, <1>8, <2>1, <2>2
  <2>3. CASE ~(j = call[r].process /\ o = call[r].path)
    <3>1. locks'[j][o] = Working(j, o) /\ r \notin Working(j, o)
      BY <1>8, <1>9, <2>1, <2>3
    <3>2. Working(j, o)' = Working(j, o) \ {r}
      BY <1>7
    <3>. QED
      BY <3>1, <3>2
  <2>. QED
    BY <2>2, <2>3
<1>11. \A j \in Processes, o \in Paths : \A q \in Working(j, o)' :
         q \in Working(j, o) /\ call'[q] = call[q]
  BY <1>2, <1>7 DEF Working
<1>12. ChangesAreAlone'
  BY <1>1, <1>10, <1>11 DEF ChangesAreAlone
<1>. QED
  BY <1>6, <1>12
\* A call that goes on is one the rest of the handler may make.
LEMMA GotoCallOK ==
  ASSUME TypeOK, NEW r \in Requests, CallOK(r), call[r].pc \in AtWork, NEW pc \in AtWork,
         Goto(r, pc),
         call[r].pc \in {"detect", "check"},
         pc = "check" =>
           call[r].op # "delete" /\ (call[r].op = "create" => call[r].path \notin Versioned),
         pc = "write" => call[r].op # "read"
  PROVE  CallOK(r)'
<1>1. call[r] \in Call
  BY ReturnCall DEF Begun
<1>2. call'[r] = [call[r] EXCEPT !.pc = pc]
  BY DEF Goto, TypeOK
<1>3. /\ call'[r].pc = pc /\ call'[r].op = call[r].op /\ call'[r].path = call[r].path
      /\ call'[r].value = call[r].value /\ call'[r].applied = call[r].applied
  BY <1>1, <1>2 DEF Call
<1>. QED
  BY <1>3 DEF CallOK, AtWork, Leaves

LEMMA StepCallOK ==
  ASSUME Shape, NEW r \in Requests, Step(r)
  PROVE  \A q \in Requests : CallOK(q)'
<1>1. TypeOK /\ CallOK(r)
  BY DEF Shape
<1>2. Lock(r) \/ Continue(r) \/ Ends(r)
  BY <1>1, StepKinds
<1>3. \A q \in Requests \ {r} : CallOK(q)'
  BY <1>1, <1>2, Others DEF Shape, CallOK, Leaves
<1>4. CASE Lock(r) \/ Ends(r)
  BY <1>4, LockShape, EndsShape
<1>5. CASE Detect(r) /\ Continue(r)
  <2>1. call[r].pc = "detect" /\ call[r].pc \in AtWork /\ call[r].op \in Ops
    BY <1>1, <1>5, ReturnCall, CallFields DEF Detect, AtWork, Begun
  <2>2. call'[r].pc # "done"
    BY <1>1, <1>5 DEF Continue, AtWork, TypeOK
  <2>3. ~\E answer \in Refusals \cup {"noMount"} : Return(r, answer)
    BY <1>1, <2>2 DEF Return, TypeOK
  <2>4. \E pc \in {"check", "write"} :
          /\ Goto(r, pc)
          /\ pc = "check" => call[r].op # "delete" /\
               (call[r].op = "create" => call[r].path \notin Versioned)
          /\ pc = "write" => call[r].op # "read"
    BY <1>5, <2>3 DEF Detect
  <2>5. CallOK(r)'
    BY <1>1, <2>1, <2>4, GotoCallOK DEF AtWork
  <2>. QED
    BY <1>3, <2>5
<1>6. CASE (CreateRead(r) \/ UpdateRead(r) \/ Read(r)) /\ Continue(r)
  <2>1. call[r].pc = "check" /\ call[r].pc \in AtWork
    BY <1>6 DEF CreateRead, UpdateRead, Read, AtWork
  <2>2. call'[r].pc # "done"
    BY <1>1, <1>6 DEF Continue, AtWork, TypeOK
  <2>3. ~\E answer \in Answers : Return(r, answer)
    BY <1>1, <2>2 DEF Return, TypeOK
  <2>4. Goto(r, "write") /\ call[r].op # "read"
    BY <1>6, <2>3 DEF CreateRead, UpdateRead, Read, Readable, Refusals, Answers
  <2>5. CallOK(r)'
    BY <1>1, <2>1, <2>4, GotoCallOK DEF AtWork
  <2>. QED
    BY <1>3, <2>5
<1>7. CASE (Write(r) \/ WriteRefused(r) \/ WriteUnanswered(r)) /\ Continue(r)
  <2>1. call[r].pc = "write" /\ call[r] \in Call
    BY <1>1, <1>7, ReturnCall DEF Write, WriteRefused, WriteUnanswered, Begun, AtWork
  <2>2. call'[r].pc # "done"
    BY <1>1, <1>7 DEF Continue, AtWork, TypeOK
  <2>3. ~\E answer \in Answers : Return(r, answer)
    BY <1>1, <2>2 DEF Return, TypeOK
  <2>4. \E b \in BOOLEAN : call' = [call EXCEPT ![r].retries = @ + 1, ![r].applied = b]
    BY <1>7, <2>1, <2>3, CallFields
       DEF Write, WriteRefused, WriteUnanswered, Refusals, Answers
  <2>5. /\ call'[r].pc = call[r].pc /\ call'[r].op = call[r].op
        /\ call'[r].path = call[r].path /\ call'[r].value = call[r].value
    BY <1>1, <2>1, <2>4 DEF TypeOK, Call
  <2>6. CallOK(r)'
    BY <1>1, <2>1, <2>5 DEF CallOK, AtWork, Leaves
  <2>. QED
    BY <1>3, <2>6
<1>. QED
  BY <1>2, <1>4, <1>5, <1>6, <1>7 DEF Step

LEMMA CrashShape ==
  ASSUME Shape, NEW i \in Processes, Crash(i)
  PROVE  ChangesAreAlone' /\ \A q \in Requests : CallOK(q)'
<1>1. TypeOK /\ ChangesAreAlone
  BY DEF Shape
<1>2. \A q \in Requests :
        \/ call'[q].pc = "done"
        \/ call'[q] = call[q] /\ ~(call[q].pc \in AtWork /\ call[q].process = i)
  BY DEF Crash
<1>3. \A q \in Requests : CallOK(q)'
  BY <1>2 DEF Shape, CallOK, Leaves, AtWork
<1>4. \A q \in Requests :
        call[q].pc \in AtWork /\ call[q].process # i => call'[q] = call[q]
  BY DEF Crash
<1>5. \A j \in Processes, o \in Paths : Working(j, o)' = IF j = i THEN {} ELSE Working(j, o)
  BY <1>2, <1>4 DEF Working, AtWork
<1>6. \A j \in Processes, o \in Paths : locks'[j][o] = IF j = i THEN {} ELSE locks[j][o]
  BY <1>1 DEF Crash, TypeOK
<1>7. \A j \in Processes, o \in Paths : locks'[j][o] = Working(j, o)'
  <2>1. \A j \in Processes, o \in Paths : locks[j][o] = Working(j, o)
    BY <1>1 DEF ChangesAreAlone
  <2>. QED
    BY <1>5, <1>6, <2>1
<1>8. \A j \in Processes, o \in Paths : \A q \in Working(j, o)' :
        q \in Working(j, o) /\ call'[q] = call[q]
  BY <1>4, <1>5 DEF Working
<1>9. ChangesAreAlone'
  BY <1>1, <1>7, <1>8 DEF ChangesAreAlone
<1>. QED
  BY <1>3, <1>9

LEMMA ShapeStep == Shape /\ [Next]_vars => Shape'
<1> SUFFICES ASSUME Shape, [Next]_vars PROVE Shape'
  OBVIOUS
<1>1. TypeOK'
  BY TypeStep DEF Shape
<1>2. ASSUME NEW r \in Requests, Step(r)
      PROVE  Shape'
  BY <1>1, <1>2, StepKinds, StepCallOK, LockShape, ContinueAlone, EndsShape DEF Shape
<1>3. CASE UNCHANGED <<call, locks>>
  BY <1>1, <1>3 DEF Shape, ChangesAreAlone, Working, CallOK, Leaves
<1>4. CASE \E r \in Requests : Begin(r)
  BY <1>1, <1>4, BeginShape DEF Shape
<1>5. CASE \E i \in Processes : Crash(i)
  BY <1>1, <1>5, CrashShape DEF Shape
<1>. QED
  BY <1>2, <1>3, <1>4, <1>5 DEF Next, Arrive, Outside, vars

(* Every variable keeps its type, and the lock does its work, for any      *)
(* number of processes and whatever others do to the vault.                *)
THEOREM ShapeCorrect == Spec => []Shape
  BY ShapeInit, ShapeStep, PTL DEF Spec

(* The type invariant of the secret manager (internal/secret/vault).       *)
THEOREM TypeCorrect == Spec => []TypeOK
<1>1. Shape => TypeOK
  BY DEF Shape
<1>. QED
  BY <1>1, ShapeCorrect, PTL

(* The locks of a process are held by its calls at work, and a change has  *)
(* its lock alone (Lock, RLock and the deferred unlocks of the manager).   *)
THEOREM ChangesCorrect == Spec => []ChangesAreAlone
<1>1. Shape => ChangesAreAlone
  BY DEF Shape
<1>. QED
  BY <1>1, ShapeCorrect, PTL

-----------------------------------------------------------------------------
(* One process that alone changes the vault: what a call has found out     *)
(* still holds when it writes.                                             *)

Alone == /\ \E i : Processes = {i}
         /\ MaxOutside = 0
         /\ MaxLate = 0

\* Two calls at work on one secret are reads.
LEMMA AloneAtWork ==
  ASSUME Alone, Shape, NEW r \in Requests, NEW q \in Requests, r # q,
         call[r].pc \in AtWork, call[q].pc \in AtWork, call[r].path = call[q].path
  PROVE  call[r].op = "read" /\ call[q].op = "read"
<1>1. /\ call[r].process \in Processes /\ call[q].process \in Processes
      /\ call[r].path \in Paths
  BY ReturnCall DEF Shape, Begun
<1>2. call[r].process = call[q].process
  BY <1>1 DEF Alone
<1>3. /\ r \in Working(call[r].process, call[r].path)
      /\ q \in Working(call[r].process, call[r].path)
  BY <1>2 DEF Working
<1>. QED
  BY <1>1, <1>3 DEF Shape, ChangesAreAlone

\* A step that changes no secret, or the one its call is alone at work on.
LEMMA OthersStillTrue ==
  ASSUME Alone, IInv, NEW r \in Requests, Step(r), NEW q \in Requests \ {r}
  PROVE  StillTrue(q)'
<1>1. TypeOK /\ CallOK(r) /\ CallOK(q) /\ StillTrue(q) /\ Shape
  BY DEF IInv, Shape
<1>2. call'[q] = call[q]
  BY <1>1, StepKinds, Others
<1>3. CASE UNCHANGED vault
  BY <1>1, <1>2, <1>3 DEF StillTrue, Readable
<1>4. CASE ~(UNCHANGED vault)
  <2>1. call[r].pc = "write" /\ Effect(call[r])
    BY <1>4 DEF Step, Lock, Detect, CreateRead, UpdateRead, Read, WriteRefused,
                Write, WriteUnanswered
  <2>2. CASE call[q].pc # "write"
    BY <1>2, <2>2 DEF StillTrue
  <2>3. CASE call[q].pc = "write"
    <3>1. call[q].path # call[r].path
      BY <1>1, <2>1, <2>3, AloneAtWork DEF CallOK, AtWork
    <3>2. vault'[call[q].path] = vault[call[q].path]
      BY <1>1, <2>1, <3>1 DEF Effect, TypeOK
    <3>. QED
      BY <1>1, <1>2, <3>2 DEF StillTrue, Readable
  <2>. QED
    BY <2>2, <2>3
<1>. QED
  BY <1>3, <1>4

LEMMA OwnStillTrue ==
  ASSUME Alone, IInv, NEW r \in Requests, Step(r)
  PROVE  StillTrue(r)'
<1>1. TypeOK /\ CallOK(r) /\ StillTrue(r) /\ Shape
  BY DEF IInv, Shape
<1>2. call[r].pc \in Begun
  BY DEF Step, Lock, Detect, CreateRead, UpdateRead, Read, WriteRefused,
         Write, WriteUnanswered, Begun, AtWork
<1>3. call[r] \in Call /\ call[r].path \in Paths
  BY <1>1, <1>2, ReturnCall
<1>4. CASE call'[r].pc # "write"
  BY <1>4 DEF StillTrue
<1>5. CASE call'[r].pc = "write"
  <2>1. \A answer \in Answers : ~Return(r, answer)
    BY <1>1, <1>5 DEF Return, TypeOK
  <2>2. CASE Lock(r)
    BY <1>1, <1>3, <1>5, <2>2 DEF Lock, Goto, TypeOK, Call
  <2>3. CASE Detect(r)
    <3>1. Goto(r, "write") /\ UNCHANGED vault /\ call[r].op \in {"create", "delete"}
          /\ (call[r].op = "create" => call[r].path \in Versioned) /\ ~call[r].applied
      BY <1>1, <1>3, <1>5, <2>1, <2>3
         DEF Detect, Goto, TypeOK, Call, CallOK, Refusals, Answers, Frame
    <3>2. /\ call'[r].op = call[r].op /\ call'[r].path = call[r].path
          /\ call'[r].applied = call[r].applied
      BY <1>1, <1>3, <3>1 DEF Goto, TypeOK, Call
    <3>. QED
      BY <3>1, <3>2 DEF StillTrue
  <2>4. CASE CreateRead(r) \/ UpdateRead(r) \/ Read(r)
    <3>1. /\ Goto(r, "write") /\ UNCHANGED vault /\ ~call[r].applied
          /\ \/ call[r].op = "create" /\ ~Readable(call[r].path)
             \/ call[r].op = "update" /\ Readable(call[r].path)
      <4>1. ~call[r].applied /\ UNCHANGED vault
        BY <1>1, <2>4 DEF CreateRead, UpdateRead, Read, CallOK, Frame
      <4>2. /\ \A answer \in Refusals \cup {"noMount"} : ~Return(r, answer)
            /\ ~Return(r, "exists") /\ ~Return(r, "notFound")
        BY <2>1 DEF Refusals, Answers
      <4>3. Readable(call[r].path) => ~Return(r, vault[call[r].path])
        BY <2>1 DEF Readable, Answers
      <4>4. ~Read(r)
        BY <4>2, <4>3 DEF Read
      <4>. QED
        BY <2>4, <4>1, <4>2, <4>4 DEF CreateRead, UpdateRead
    <3>2. /\ call'[r].op = call[r].op /\ call'[r].path = call[r].path
          /\ call'[r].applied = call[r].applied
      BY <1>1, <1>3, <3>1 DEF Goto, TypeOK, Call
    <3>. QED
      BY <3>1, <3>2 DEF StillTrue, Readable
  <2>5. CASE Write(r) \/ WriteRefused(r)
    BY <2>1, <2>5 DEF Write, WriteRefused, Refusals, Answers
  <2>6. CASE WriteUnanswered(r)
    <3>1. call[r].pc = "write" /\ call[r].applied \in BOOLEAN
      BY <1>3, <2>6, CallFields DEF WriteUnanswered
    <3>2. PICK b \in BOOLEAN :
            /\ call' = [call EXCEPT ![r].retries = @ + 1, ![r].applied = b]
            /\ \/ b = TRUE /\ Effect(call[r])
               \/ b = call[r].applied /\ UNCHANGED vault
      <4>1. ~Return(r, "error")
        BY <2>1 DEF Answers, Refusals
      <4>2. CASE /\ Effect(call[r])
                 /\ call' = [call EXCEPT ![r].retries = @ + 1, ![r].applied = TRUE]
        <5>. WITNESS TRUE \in BOOLEAN
        <5>. QED
          BY <4>2
      <4>3. CASE /\ UNCHANGED vault
                 /\ call' = [call EXCEPT ![r].retries = @ + 1, ![r].applied = call[r].applied]
        BY <3>1, <4>3
      <4>. QED
        BY <2>6, <4>1, <4>2, <4>3 DEF WriteUnanswered
    <3>3. /\ call'[r].op = call[r].op /\ call'[r].path = call[r].path
          /\ call'[r].value = call[r].value /\ call'[r].applied = b
      BY <1>1, <1>3, <3>2 DEF TypeOK, Call
    <3>4. CASE b = TRUE /\ Effect(call[r])
      BY <1>1, <1>3, <3>3, <3>4 DEF StillTrue, Effect, TypeOK
    <3>5. CASE b = call[r].applied /\ UNCHANGED vault
      BY <1>1, <3>1, <3>3, <3>5 DEF StillTrue, Readable
    <3>. QED
      BY <3>2, <3>4, <3>5
  <2>. QED
    BY <2>2, <2>3, <2>4, <2>5, <2>6 DEF Step
<1>. QED
  BY <1>4, <1>5

LEMMA InductiveStep ==
  ASSUME Alone
  PROVE  IInv /\ [Next]_vars => IInv'
<1> SUFFICES ASSUME IInv, [Next]_vars PROVE IInv'
  OBVIOUS
<1>1. Shape'
  BY ShapeStep DEF IInv
<1>2. TypeOK
  BY DEF IInv, Shape
<1>3. ASSUME NEW r \in Requests, Step(r)
      PROVE  \A q \in Requests : StillTrue(q)'
  BY <1>3, OwnStillTrue, OthersStillTrue
<1>4. ASSUME NEW r \in Requests, Begin(r)
      PROVE  \A q \in Requests : StillTrue(q)'
  <2>1. \A q \in Requests \ {r} : call'[q] = call[q]
    BY <1>2, <1>4, Others
  <2>2. call'[r].pc = "lock"
    BY <1>2, <1>4 DEF Begin, TypeOK
  <2>. QED
    BY <1>4, <2>1, <2>2 DEF IInv, StillTrue, Readable, Begin
<1>5. ASSUME NEW i \in Processes, Crash(i)
      PROVE  \A q \in Requests : StillTrue(q)'
  <2>1. \A q \in Requests : call'[q] = call[q] \/ call'[q].pc = "done"
    BY <1>5 DEF Crash
  <2>. QED
    BY <1>5, <2>1 DEF IInv, StillTrue, Readable, Crash
<1>6. late = {}
  BY DEF IInv
<1>7. late' = {}
  <2>1. ~(Cardinality(late) < MaxLate)
    BY <1>6, FS_EmptySet, SMT DEF Alone
  <2>2. ASSUME NEW r \in Requests, WriteUnanswered(r)
        PROVE  UNCHANGED late
    BY <2>1, <2>2 DEF WriteUnanswered
  <2>3. ASSUME NEW r \in Requests, Step(r)
        PROVE  UNCHANGED late
    BY <2>2, <2>3 DEF Step, Lock, Detect, CreateRead, UpdateRead, Read, WriteRefused,
                      Write, Frame
  <2>. QED
    BY <1>6, <2>3 DEF Next, Begin, Crash, Outside, vars
<1>8. ASSUME NEW p \in Paths, Outside(p)
      PROVE  FALSE
  BY <1>2, <1>8, SMT DEF Outside, TypeOK, Alone
<1>9. CASE UNCHANGED vars
  <2>1. \A q \in Requests : StillTrue(q)'
    BY <1>9 DEF IInv, StillTrue, Readable, vars
  <2>. QED
    BY <1>1, <1>7, <2>1 DEF IInv
<1>. QED
  BY <1>1, <1>3, <1>4, <1>5, <1>6, <1>7, <1>8, <1>9 DEF IInv, Next
-----------------------------------------------------------------------------
(* Every step of the manager is a step of SecretStore, or none.            *)

\* A step that changes one call changes one task.
LEMMA OneTask ==
  ASSUME NEW r \in Requests, \A q \in Requests \ {r} : call'[q] = call[q]
  PROVE  Tasks' = [Tasks EXCEPT ![r] = Task(r)']
<1>1. \A q \in Requests \ {r} : Task(q)' = Task(q)
  BY DEF Task
<1>. QED
  BY <1>1 DEF Tasks

LEMMA AtWorkTask ==
  ASSUME NEW r \in Requests, call[r].pc \in Begun
  PROVE  Task(r) = [state |-> IF call[r].applied THEN "applied" ELSE "open",
                    op |-> call[r].op, path |-> call[r].path, value |-> call[r].value]
  BY DEF Task, Begun, AtWork

LEMMA AtWorkTaskNext ==
  ASSUME NEW r \in Requests, call'[r].pc \in Begun
  PROVE  Task(r)' = [state |-> IF call'[r].applied THEN "applied" ELSE "open",
                     op |-> call'[r].op, path |-> call'[r].path, value |-> call'[r].value]
  BY DEF Task, Begun, AtWork

LEMMA ReturnTask ==
  ASSUME TypeOK, NEW r \in Requests, NEW answer, Return(r, answer)
  PROVE  /\ Task(r)' = [state |-> "answered", answer |-> answer]
         /\ Tasks' = [Tasks EXCEPT ![r] = [state |-> "answered", answer |-> answer]]
<1>1. call'[r] = [pc |-> "done", answer |-> answer]
  BY DEF Return, TypeOK
<1>2. \A q \in Requests \ {r} : call'[q] = call[q]
  BY DEF Return, TypeOK
<1>3. Task(r)' = [state |-> "answered", answer |-> answer]
  BY <1>1 DEF Task
<1>. QED
  BY <1>2, <1>3, OneTask

LEMMA AtomicInit == Init => Store!Init
<1> SUFFICES ASSUME Init PROVE Store!Init
  OBVIOUS
<1>1. \A r \in Requests : Task(r) = [state |-> "idle"]
  BY DEF Init, Task, Idle
<1>. QED
  BY <1>1 DEF Init, Contents, Tasks, Store!Init, Store!Contents, Store!Idle

\* The steps that neither change the vault nor answer.
LEMMA QuietStutters ==
  ASSUME TypeOK, NEW r \in Requests, CallOK(r), NEW pc \in Begun,
         call[r].pc \in Begun, Goto(r, pc), UNCHANGED vault
  PROVE  UNCHANGED <<vault, Tasks>>
<1>1. call[r] \in Call
  BY ReturnCall
<1>2. call'[r] = [call[r] EXCEPT !.pc = pc]
  BY DEF Goto, TypeOK
<1>3. /\ call'[r].pc = pc /\ call'[r].op = call[r].op /\ call'[r].path = call[r].path
      /\ call'[r].value = call[r].value /\ call'[r].applied = call[r].applied
  BY <1>1, <1>2 DEF Call
<1>4. Task(r)' = Task(r)
  BY <1>3, AtWorkTask, AtWorkTaskNext
<1>5. \A q \in Requests \ {r} : call'[q] = call[q]
  BY DEF Goto, TypeOK
<1>6. Tasks' = [Tasks EXCEPT ![r] = Task(r)]
  BY <1>4, <1>5, OneTask
<1>. QED
  BY <1>6 DEF Tasks
LEMMA TaskFields ==
  ASSUME NEW r \in Requests, call[r].pc \in Begun
  PROVE  /\ Tasks[r] = Task(r)
         /\ Tasks[r].state = IF call[r].applied THEN "applied" ELSE "open"
         /\ Tasks[r].op = call[r].op
         /\ Tasks[r].path = call[r].path
         /\ Tasks[r].value = call[r].value
  BY AtWorkTask DEF Tasks

\* A call that returns an excuse gives its request up.
LEMMA ReturnGivesUp ==
  ASSUME TypeOK, NEW r \in Requests, call[r].pc \in Begun, UNCHANGED vault,
         NEW answer \in Refusals \cup {"noMount"}, Return(r, answer)
  PROVE  Store!GiveUp(r)
  BY TaskFields, ReturnTask DEF Store!GiveUp, Store!Begun, Store!Answer, Refusals

LEMMA BeginInvokes ==
  ASSUME TypeOK, NEW r \in Requests, Begin(r)
  PROVE  Store!Invoke(r)
<1>1. PICK op \in Ops, p \in Paths, i \in Processes, v \in Values \cup {Absent} :
        /\ v \in Leaves(op)
        /\ call' = [call EXCEPT ![r] = [pc |-> "lock", op |-> op, path |-> p, value |-> v,
                                        process |-> i, retries |-> 0, applied |-> FALSE]]
  BY DEF Begin, Leaves
<1>2. /\ call'[r].pc = "lock" /\ call'[r].op = op /\ call'[r].path = p
      /\ call'[r].value = v /\ call'[r].applied = FALSE
  BY <1>1 DEF TypeOK
<1>3. Task(r)' = [state |-> "open", op |-> op, path |-> p, value |-> v]
  BY <1>2, AtWorkTaskNext DEF Begun
<1>4. Tasks' = [Tasks EXCEPT ![r] = [state |-> "open", op |-> op, path |-> p, value |-> v]]
  BY <1>3, Others, OneTask
<1>5. Tasks[r] = [state |-> "idle"]
  BY DEF Begin, Idle, Task, Tasks
<1>6. UNCHANGED vault
  BY DEF Begin
<1>. QED
  BY <1>1, <1>4, <1>5, <1>6
     DEF Store!Invoke, Store!Idle, Store!Ops, Store!Leaves, Ops, Leaves

LEMMA LookupSteps ==
  ASSUME IInv, NEW r \in Requests,
         Lock(r) \/ Detect(r) \/ CreateRead(r) \/ UpdateRead(r) \/ Read(r)
  PROVE  \/ UNCHANGED <<vault, Tasks>>
         \/ Store!GiveUp(r) \/ Store!Reject(r) \/ Store!Look(r)
<1>1. TypeOK /\ CallOK(r)
  BY DEF IInv, Shape
<1>2. call[r].pc \in {"lock", "detect", "check"} /\ call[r].pc \in Begun /\ UNCHANGED vault
  BY DEF Lock, Detect, CreateRead, UpdateRead, Read, Begun, AtWork, Frame
<1>3. /\ Tasks[r].state = "open" /\ Tasks[r].op = call[r].op
      /\ Tasks[r].path = call[r].path
  BY <1>1, <1>2, TaskFields DEF CallOK
<1>4. CASE \E pc \in Begun : Goto(r, pc)
  BY <1>1, <1>2, <1>4, QuietStutters
<1>5. CASE \E answer \in Refusals \cup {"noMount"} : Return(r, answer)
  BY <1>1, <1>2, <1>5, ReturnGivesUp
<1>6. CASE /\ call[r].op = "create"
           /\ Readable(call[r].path) /\ Return(r, "exists")
  <2>1. vault[call[r].path] # Absent
    BY <1>6, ContentsAssumption DEF Readable
  <2>. QED
    BY <1>1, <1>2, <1>3, <1>6, <2>1, ReturnTask DEF Store!Reject, Store!Answer
<1>7. CASE /\ call[r].op \in {"update", "read"}
           /\ ~Readable(call[r].path) /\ Return(r, "notFound")
  BY <1>1, <1>2, <1>3, <1>7, ReturnTask DEF Store!Reject, Store!Answer, Readable
<1>8. CASE /\ call[r].op = "read"
           /\ Readable(call[r].path) /\ Return(r, vault[call[r].path])
  BY <1>1, <1>2, <1>3, <1>8, ReturnTask DEF Store!Look, Store!Answer, Readable
<1>9. CASE Lock(r)
  BY <1>4, <1>9 DEF Lock, Begun, AtWork
<1>10. CASE Detect(r)
  BY <1>4, <1>5, <1>10 DEF Detect, Begun, AtWork
<1>11. CASE CreateRead(r)
  BY <1>4, <1>5, <1>6, <1>11 DEF CreateRead, Begun, AtWork
<1>12. CASE UpdateRead(r)
  BY <1>4, <1>5, <1>7, <1>12 DEF UpdateRead, Begun, AtWork
<1>13. CASE Read(r)
  BY <1>5, <1>7, <1>8, <1>13 DEF Read
<1>. QED
  BY <1>9, <1>10, <1>11, <1>12, <1>13

\* A write that is executed is one the store allows, or repeats itself.
LEMMA WriteAllowed ==
  ASSUME IInv, NEW r \in Requests, call[r].pc = "write",
         Executes(call[r]), Effect(call[r])
  PROVE  /\ call[r].applied => UNCHANGED vault
         /\ ~call[r].applied => /\ Store!Allows(Tasks[r])
                                /\ vault' = [vault EXCEPT ![Tasks[r].path] = Tasks[r].value]
<1>1. TypeOK /\ CallOK(r) /\ StillTrue(r)
  BY DEF IInv, Shape
<1>2. call[r].pc \in Begun
  BY DEF Begun, AtWork
<1>3. call[r] \in Call /\ call[r].path \in Paths /\ call[r].op \in Ops
  BY <1>1, <1>2, ReturnCall, CallFields
<1>4. /\ Tasks[r].op = call[r].op /\ Tasks[r].path = call[r].path
      /\ Tasks[r].value = call[r].value
  BY <1>2, TaskFields
<1>5. call[r].applied => UNCHANGED vault
  BY <1>1, <1>3 DEF StillTrue, Effect, TypeOK
<1>6. ASSUME ~call[r].applied PROVE Store!Allows(Tasks[r])
  <2>1. vault[call[r].path] \in Contents(call[r].path)
    BY <1>1, <1>3 DEF TypeOK
  <2>2. CASE call[r].op = "create" /\ call[r].path \in Versioned
    BY <1>4, <2>2 DEF Executes, Store!Allows
  <2>3. CASE call[r].op = "create" /\ call[r].path \notin Versioned
    <3>1. ~Readable(call[r].path)
      BY <1>1, <1>6, <2>3 DEF StillTrue
    <3>2. vault[call[r].path] = Absent
      BY <2>1, <2>3, <3>1 DEF Contents, Readable
    <3>. QED
      BY <1>4, <2>3, <3>2 DEF Store!Allows
  <2>4. CASE call[r].op = "update"
    BY <1>1, <1>4, <1>6, <2>4 DEF StillTrue, Readable, Store!Allows
  <2>5. CASE call[r].op = "delete"
    BY <1>4, <2>5 DEF Store!Allows
  <2>. QED
    BY <1>1, <1>3, <2>2, <2>3, <2>4, <2>5 DEF Ops, CallOK
<1>7. vault' = [vault EXCEPT ![Tasks[r].path] = Tasks[r].value]
  BY <1>4 DEF Effect
<1>. QED
  BY <1>5, <1>6, <1>7
LEMMA WriteSteps ==
  ASSUME IInv, NEW r \in Requests, Write(r) \/ WriteRefused(r)
  PROVE  Store!Perform(r) \/ Store!Conclude(r) \/ Store!Reject(r) \/ Store!GiveUp(r)
<1>1. TypeOK /\ CallOK(r)
  BY DEF IInv, Shape
<1>2. call[r].pc = "write" /\ call[r].pc \in Begun
  BY DEF Write, WriteRefused, Begun, AtWork
<1>3. call[r] \in Call /\ call[r].path \in Paths /\ call[r].applied \in BOOLEAN
  BY <1>1, <1>2, ReturnCall, CallFields
<1>4. /\ Tasks[r].state = IF call[r].applied THEN "applied" ELSE "open"
      /\ Tasks[r].op = call[r].op /\ Tasks[r].path = call[r].path
  BY <1>2, TaskFields
<1>5. CASE Write(r)
  <2>1. Tasks' = [Tasks EXCEPT ![r] = [state |-> "answered", answer |-> "ok"]]
    BY <1>1, <1>5, ReturnTask DEF Write
  <2>2. CASE call[r].applied
    BY <1>2, <1>4, <1>5, <2>1, <2>2, WriteAllowed DEF Write, Store!Conclude, Store!Answer
  <2>3. CASE ~call[r].applied
    BY <1>2, <1>4, <1>5, <2>1, <2>3, WriteAllowed DEF Write, Store!Perform, Store!Answer
  <2>. QED
    BY <2>2, <2>3
<1>6. CASE WriteRefused(r)
  <2>1. UNCHANGED vault
    BY <1>6 DEF WriteRefused
  <2>2. CASE \E answer \in Refusals \cup {"noMount"} : Return(r, answer)
    BY <1>1, <1>2, <2>1, <2>2, ReturnGivesUp
  <2>3. CASE ~Executes(call[r]) /\ Return(r, "exists")
    <3>1. /\ call[r].op = "create" /\ call[r].path \in Versioned
          /\ vault[call[r].path] # Absent
      BY <2>3 DEF Executes
    <3>2. Tasks' = [Tasks EXCEPT ![r] = [state |-> "answered", answer |-> "exists"]]
      BY <1>1, <2>3, ReturnTask
    <3>3. CASE call[r].applied
      BY <1>4, <2>1, <3>1, <3>2, <3>3 DEF Store!Conclude, Store!Answer
    <3>4. CASE ~call[r].applied
      BY <1>4, <2>1, <3>1, <3>2, <3>4 DEF Store!Reject, Store!Answer
    <3>. QED
      BY <3>3, <3>4
  <2>. QED
    BY <1>6, <2>2, <2>3 DEF WriteRefused
<1>. QED
  BY <1>5, <1>6

\* A call that is sent again keeps its task, but for whether it took place.
LEMMA RetryTask ==
  ASSUME TypeOK, NEW r \in Requests, call[r].pc = "write", NEW b \in BOOLEAN,
         call' = [call EXCEPT ![r].retries = @ + 1, ![r].applied = b]
  PROVE  /\ b = call[r].applied => UNCHANGED Tasks
         /\ b = TRUE /\ ~call[r].applied => Tasks' = [Tasks EXCEPT ![r].state = "applied"]
<1>1. call[r].pc \in Begun
  BY DEF Begun, AtWork
<1>2. call[r] \in Call
  BY <1>1, ReturnCall
<1>3. /\ call'[r].pc = "write" /\ call'[r].op = call[r].op
      /\ call'[r].path = call[r].path /\ call'[r].value = call[r].value
      /\ call'[r].applied = b
  BY <1>2 DEF TypeOK, Call
<1>4. Task(r)' = [state |-> IF b THEN "applied" ELSE "open",
                  op |-> call[r].op, path |-> call[r].path, value |-> call[r].value]
  BY <1>3, AtWorkTaskNext DEF Begun, AtWork
<1>5. \A q \in Requests \ {r} : call'[q] = call[q]
  BY DEF TypeOK
<1>6. Tasks' = [Tasks EXCEPT ![r] = Task(r)']
  BY <1>5, OneTask
<1>7. Tasks[r] = [state |-> IF call[r].applied THEN "applied" ELSE "open",
                  op |-> call[r].op, path |-> call[r].path, value |-> call[r].value]
  BY <1>1, AtWorkTask DEF Tasks
<1>8. ASSUME b = call[r].applied PROVE UNCHANGED Tasks
  <2>1. Tasks' = [Tasks EXCEPT ![r] = Tasks[r]]
    BY <1>4, <1>6, <1>7, <1>8
  <2>. QED
    BY <2>1 DEF Tasks
<1>9. ASSUME b = TRUE, ~call[r].applied
      PROVE  Tasks' = [Tasks EXCEPT ![r].state = "applied"]
  <2>1. Task(r)' = [Tasks[r] EXCEPT !.state = "applied"]
    BY <1>4, <1>7, <1>9
  <2>. QED
    BY <1>6, <2>1
<1>. QED
  BY <1>8, <1>9

LEMMA UnansweredSteps ==
  ASSUME Alone, IInv, NEW r \in Requests, WriteUnanswered(r)
  PROVE  UNCHANGED <<vault, Tasks>> \/ Store!Perform(r) \/ Store!GiveUp(r)
<1>1. TypeOK
  BY DEF IInv, Shape
<1>2. call[r].pc = "write" /\ call[r].pc \in Begun
  BY DEF WriteUnanswered, Begun, AtWork
<1>3. call[r] \in Call /\ call[r].applied \in BOOLEAN
  BY <1>1, <1>2, ReturnCall, CallFields
<1>4. Tasks[r].state = IF call[r].applied THEN "applied" ELSE "open"
  BY <1>2, TaskFields
<1>5. ~(Cardinality(late) < MaxLate)
  BY FS_EmptySet, SMT DEF Alone, IInv
<1>6. CASE UNCHANGED vault /\ Return(r, "error")
  BY <1>1, <1>2, <1>6, ReturnGivesUp DEF Refusals
<1>7. CASE /\ UNCHANGED vault
           /\ call' = [call EXCEPT ![r].retries = @ + 1, ![r].applied = call[r].applied]
  BY <1>1, <1>2, <1>3, <1>7, RetryTask
<1>8. CASE /\ Executes(call[r]) /\ Effect(call[r])
           /\ call' = [call EXCEPT ![r].retries = @ + 1, ![r].applied = TRUE]
  <2>1. CASE call[r].applied
    BY <1>1, <1>2, <1>3, <1>8, <2>1, RetryTask, WriteAllowed
  <2>2. CASE ~call[r].applied
    <3>1. Tasks' = [Tasks EXCEPT ![r].state = "applied"]
      BY <1>1, <1>2, <1>8, <2>2, RetryTask
    <3>. QED
      BY <1>2, <1>4, <1>8, <2>2, <3>1, WriteAllowed DEF Store!Perform
  <2>. QED
    BY <2>1, <2>2
<1>9. CASE Executes(call[r]) /\ Effect(call[r]) /\ Return(r, "error")
  <2>1. CASE call[r].applied
    BY <1>2, <1>6, <1>9, <2>1, WriteAllowed
  <2>2. CASE ~call[r].applied
    <3>1. Tasks' = [Tasks EXCEPT ![r] = [state |-> "answered", answer |-> "error"]]
      BY <1>1, <1>9, ReturnTask
    <3>. QED
      BY <1>2, <1>4, <1>9, <2>2, <3>1, WriteAllowed DEF Store!Perform, Store!Answer
  <2>. QED
    BY <2>1, <2>2
<1>. QED
  BY <1>5, <1>6, <1>7, <1>8, <1>9 DEF WriteUnanswered

LEMMA CrashLoses ==
  ASSUME NEW i \in Processes, Crash(i)
  PROVE  \E lost \in SUBSET Requests : Store!Lose(lost)
<1> DEFINE lost == {r \in Requests : call[r].pc \in Begun /\ call[r].process = i}
<1>1. \A r \in lost : Store!Begun(r)
  BY TaskFields DEF Store!Begun
<1>2. \A r \in Requests :
        Task(r)' = IF r \in lost THEN [state |-> "answered", answer |-> "lost"] ELSE Task(r)
  <2> SUFFICES ASSUME NEW r \in Requests
               PROVE  Task(r)' = IF r \in lost THEN [state |-> "answered", answer |-> "lost"]
                                               ELSE Task(r)
    OBVIOUS
  <2>1. CASE r \in lost
    <3>1. call'[r] = [pc |-> "done", answer |-> "lost"]
      BY <2>1 DEF Crash, Begun
    <3>. QED
      BY <2>1, <3>1 DEF Task
  <2>2. CASE r \notin lost
    <3>1. call'[r] = call[r]
      BY <2>2 DEF Crash, Begun
    <3>. QED
      BY <2>2, <3>1 DEF Task
  <2>. QED
    BY <2>1, <2>2
<1>3. UNCHANGED vault
  BY DEF Crash
<1>4. lost \in SUBSET Requests
  OBVIOUS
<1>5. Tasks' = [r \in Requests |-> IF r \in lost THEN [state |-> "answered", answer |-> "lost"]
                                                 ELSE Tasks[r]]
  BY <1>2 DEF Tasks
<1> HIDE DEF lost
<1>. QED
  BY <1>1, <1>3, <1>4, <1>5 DEF Store!Lose

LEMMA AtomicStep ==
  ASSUME Alone, IInv, [Next]_vars
  PROVE  [Store!Next]_<<vault, Tasks>>
<1>1. TypeOK /\ late = {}
  BY DEF IInv, Shape
<1>2. ASSUME NEW r \in Requests, Begin(r)
      PROVE  Store!Next
  BY <1>1, <1>2, BeginInvokes DEF Store!Next
<1>3. ASSUME NEW r \in Requests, Step(r)
      PROVE  Store!Next \/ UNCHANGED <<vault, Tasks>>
  BY <1>3, LookupSteps, WriteSteps, UnansweredSteps DEF Step, Store!Next
<1>4. ASSUME NEW i \in Processes, Crash(i)
      PROVE  Store!Next
  BY <1>4, CrashLoses DEF Store!Next
<1>5. ASSUME NEW p \in Paths, Outside(p)
      PROVE  FALSE
  BY <1>1, <1>5, SMT DEF Outside, TypeOK, Alone
<1>6. CASE UNCHANGED vars
  BY <1>6 DEF vars, Tasks, Task
<1>. QED
  BY <1>1, <1>2, <1>3, <1>4, <1>5, <1>6 DEF Next

(* One process that alone changes the vault serves its secrets as          *)
(* SecretStore promises: the manager implements it (create.go, update.go,  *)
(* delete.go and read.go of internal/secret/vault).                        *)
THEOREM AtomicCorrect ==
  ASSUME Alone
  PROVE  Spec => Atomic
<1>1. Init => IInv
  <2>1. Init => Shape
    BY ShapeInit
  <2>2. Init => late = {} /\ \A r \in Requests : StillTrue(r)
    BY DEF Init, Idle, StillTrue
  <2>. QED
    BY <2>1, <2>2 DEF IInv
<1>2. IInv /\ [Next]_vars => IInv'
  BY InductiveStep
<1>3. IInv /\ [Next]_vars => [Store!Next]_<<vault, Tasks>>
  BY AtomicStep
<1>. QED
  BY <1>1, <1>2, <1>3, AtomicInit, PTL DEF Spec, Atomic, Store!Spec

-----------------------------------------------------------------------------
(* Any number of processes, and others: every step of the manager is a     *)
(* step of SharedStore, or none.                                           *)

LEMMA OneShared ==
  ASSUME NEW r \in Requests, \A q \in Requests \ {r} : call'[q] = call[q]
  PROVE  SharedTasks' = [SharedTasks EXCEPT ![r] = SharedTask(r)']
<1>1. \A q \in Requests \ {r} : SharedTask(q)' = SharedTask(q)
  BY DEF SharedTask, LooksFirst
<1>. QED
  BY <1>1 DEF SharedTasks

SharedState(c) ==
  IF c.applied THEN "applied" ELSE IF c.pc = "write" /\ LooksFirst(c) THEN "found" ELSE "open"

LEMMA SharedFields ==
  ASSUME NEW r \in Requests, call[r].pc \in Begun
  PROVE  /\ SharedTasks[r] = SharedTask(r)
         /\ SharedTask(r) = [state |-> SharedState(call[r]), op |-> call[r].op,
                             path |-> call[r].path, value |-> call[r].value]
         /\ SharedTasks[r].state = SharedState(call[r])
         /\ SharedTasks[r].op = call[r].op
         /\ SharedTasks[r].path = call[r].path
         /\ SharedTasks[r].value = call[r].value
         /\ Shared!Sought(SharedTasks[r]) <=> LooksFirst(call[r])
<1>1. SharedTask(r) = [state |-> SharedState(call[r]), op |-> call[r].op,
                       path |-> call[r].path, value |-> call[r].value]
  BY DEF SharedTask, SharedState, Begun, AtWork
<1>. QED
  BY <1>1 DEF SharedTasks, Shared!Sought, LooksFirst

LEMMA SharedFieldsNext ==
  ASSUME NEW r \in Requests, call'[r].pc \in Begun
  PROVE  SharedTask(r)' = [state |-> SharedState(call'[r]), op |-> call'[r].op,
                          path |-> call'[r].path, value |-> call'[r].value]
  BY DEF SharedTask, SharedState, LooksFirst, Begun, AtWork

LEMMA ReturnShared ==
  ASSUME TypeOK, NEW r \in Requests, NEW answer, Return(r, answer)
  PROVE  Shared!Answer(r, answer)
<1>1. call'[r] = [pc |-> "done", answer |-> answer]
  BY DEF Return, TypeOK
<1>2. \A q \in Requests \ {r} : call'[q] = call[q]
  BY DEF Return, TypeOK
<1>3. SharedTask(r)' = [state |-> "answered", answer |-> answer]
  BY <1>1 DEF SharedTask
<1>. QED
  BY <1>2, <1>3, OneShared DEF Shared!Answer

LEMMA SharedStarts == Init => Shared!SharedInit
<1> SUFFICES ASSUME Init PROVE Shared!SharedInit
  OBVIOUS
<1>1. \A r \in Requests : SharedTask(r) = [state |-> "idle"]
  BY DEF Init, SharedTask, Idle
<1>. QED
  BY <1>1 DEF Init, Contents, SharedTasks, Shared!SharedInit, Shared!Init, Shared!Contents,
              Shared!Idle

LEMMA SharedBegins ==
  ASSUME TypeOK, NEW r \in Requests, Begin(r)
  PROVE  Shared!Await(r)
<1>1. PICK op \in Ops, p \in Paths, i \in Processes, v \in Values \cup {Absent} :
        /\ v \in Leaves(op)
        /\ call' = [call EXCEPT ![r] = [pc |-> "lock", op |-> op, path |-> p, value |-> v,
                                        process |-> i, retries |-> 0, applied |-> FALSE]]
  BY DEF Begin, Leaves
<1>2. /\ call'[r].pc = "lock" /\ call'[r].op = op /\ call'[r].path = p
      /\ call'[r].value = v /\ call'[r].applied = FALSE
  BY <1>1 DEF TypeOK
<1>3. SharedTask(r)' = [state |-> "open", op |-> op, path |-> p, value |-> v]
  BY <1>2, SharedFieldsNext DEF Begun, SharedState
<1>4. SharedTasks' = [SharedTasks EXCEPT ![r] = [state |-> "open", op |-> op,
                                                 path |-> p, value |-> v]]
  BY <1>3, Others, OneShared
<1>5. SharedTasks[r] = [state |-> "idle"]
  BY DEF Begin, Idle, SharedTask, SharedTasks
<1>6. UNCHANGED vault /\ UNCHANGED late
  BY DEF Begin
<1>. QED
  BY <1>1, <1>4, <1>5, <1>6
     DEF Shared!Await, Shared!Invoke, Shared!Idle, Shared!Ops, Shared!Leaves, Ops, Leaves

LEMMA SharedGivesUp ==
  ASSUME TypeOK, NEW r \in Requests, call[r].pc \in Begun, UNCHANGED vault,
         NEW answer \in Refusals \cup {"noMount"}, Return(r, answer)
  PROVE  Shared!GiveUp(r)
  BY SharedFields, ReturnShared DEF Shared!GiveUp, Shared!Begun, SharedState, Refusals

\* A call that goes on as it is keeps its task, unless it has found its secret.
LEMMA SharedGoes ==
  ASSUME TypeOK, NEW r \in Requests, call[r].pc \in {"lock", "detect", "check"},
         ~call[r].applied, NEW pc \in AtWork, Goto(r, pc)
  PROVE  /\ pc = "write" /\ LooksFirst(call[r]) =>
              SharedTasks' = [SharedTasks EXCEPT ![r].state = "found"]
         /\ ~(pc = "write" /\ LooksFirst(call[r])) => UNCHANGED SharedTasks
<1>1. call[r] \in Call /\ call[r].pc \in Begun
  BY ReturnCall DEF Begun, AtWork
<1>2. call'[r] = [call[r] EXCEPT !.pc = pc]
  BY DEF Goto, TypeOK
<1>3. /\ call'[r].pc = pc /\ call'[r].op = call[r].op /\ call'[r].path = call[r].path
      /\ call'[r].value = call[r].value /\ call'[r].applied = call[r].applied
  BY <1>1, <1>2 DEF Call
<1>4. SharedTask(r)' = [state |-> IF pc = "write" /\ LooksFirst(call[r]) THEN "found" ELSE "open",
                        op |-> call[r].op, path |-> call[r].path, value |-> call[r].value]
  BY <1>3, SharedFieldsNext DEF SharedState, LooksFirst, Begun
<1>5. SharedTasks[r] = [state |-> "open", op |-> call[r].op, path |-> call[r].path,
                        value |-> call[r].value]
  BY <1>1, SharedFields DEF SharedState
<1>6. SharedTasks' = [SharedTasks EXCEPT ![r] = SharedTask(r)']
  BY OneShared DEF Goto, TypeOK
<1>7. ASSUME pc = "write" /\ LooksFirst(call[r])
      PROVE  SharedTasks' = [SharedTasks EXCEPT ![r].state = "found"]
  <2>1. SharedTask(r)' = [SharedTasks[r] EXCEPT !.state = "found"]
    BY <1>4, <1>5, <1>7
  <2>. QED
    BY <1>6, <2>1
<1>8. ASSUME ~(pc = "write" /\ LooksFirst(call[r]))
      PROVE  UNCHANGED SharedTasks
  <2>1. SharedTask(r)' = SharedTasks[r]
    BY <1>4, <1>5, <1>8
  <2>. QED
    BY <1>6, <2>1 DEF SharedTasks
<1>. QED
  BY <1>7, <1>8

\* A step before the last call of a request: none, a look, or an answer.
LEMMA SharedLooks ==
  ASSUME Shape, NEW r \in Requests,
         Lock(r) \/ Detect(r) \/ CreateRead(r) \/ UpdateRead(r) \/ Read(r)
  PROVE  /\ \/ UNCHANGED <<vault, SharedTasks>>
            \/ Shared!Find(r) \/ Shared!GiveUp(r) \/ Shared!Reject(r) \/ Shared!Look(r)
         /\ UNCHANGED late
<1>. DEFINE Steps == \/ UNCHANGED <<vault, SharedTasks>>
                     \/ Shared!Find(r) \/ Shared!GiveUp(r)
                     \/ Shared!Reject(r) \/ Shared!Look(r)
<1>1. TypeOK /\ CallOK(r)
  BY DEF Shape
<1>2. /\ call[r].pc \in {"lock", "detect", "check"} /\ call[r].pc \in Begun
      /\ UNCHANGED vault /\ UNCHANGED late
  BY DEF Lock, Detect, CreateRead, UpdateRead, Read, Begun, AtWork, Frame
<1>3. /\ ~call[r].applied /\ SharedTasks[r].state = "open"
      /\ SharedTasks[r].op = call[r].op /\ SharedTasks[r].path = call[r].path
      /\ Shared!Sought(SharedTasks[r]) <=> LooksFirst(call[r])
  BY <1>1, <1>2, SharedFields DEF CallOK, SharedState
<1>4. ASSUME NEW pc \in AtWork, Goto(r, pc), ~(pc = "write" /\ LooksFirst(call[r]))
      PROVE  Steps
  BY <1>1, <1>2, <1>3, <1>4, SharedGoes
<1>5. ASSUME NEW answer \in Refusals \cup {"noMount"}, Return(r, answer)
      PROVE  Steps
  BY <1>1, <1>2, <1>5, SharedGivesUp
<1>6. ASSUME Goto(r, "write"), LooksFirst(call[r]),
             (call[r].op = "update") <=> Readable(call[r].path)
      PROVE  Steps
  <2>1. SharedTasks' = [SharedTasks EXCEPT ![r].state = "found"]
    BY <1>1, <1>2, <1>3, <1>6, SharedGoes DEF AtWork
  <2>. QED
    BY <1>2, <1>3, <1>6, <2>1 DEF Shared!Find, Readable
<1>7. ASSUME call[r].op = "create", Readable(call[r].path), Return(r, "exists")
      PROVE  Steps
  <2>1. vault[call[r].path] # Absent
    BY <1>7, ContentsAssumption DEF Readable
  <2>. QED
    BY <1>1, <1>2, <1>3, <1>7, <2>1, ReturnShared DEF Shared!Reject
<1>8. ASSUME call[r].op \in {"update", "read"},
             ~Readable(call[r].path), Return(r, "notFound")
      PROVE  Steps
  BY <1>1, <1>2, <1>3, <1>8, ReturnShared DEF Shared!Reject, Readable
<1>9. ASSUME call[r].op = "read",
             Readable(call[r].path), Return(r, vault[call[r].path])
      PROVE  Steps
  BY <1>1, <1>2, <1>3, <1>9, ReturnShared DEF Shared!Look, Readable
<1>. HIDE DEF Steps
<1>10. ASSUME Lock(r) PROVE Steps
  BY <1>4, <1>10 DEF Lock, AtWork
<1>11. ASSUME Detect(r) PROVE Steps
  <2>1. ASSUME NEW pc \in {"check", "write"}, Goto(r, pc),
               pc = "write" => ~LooksFirst(call[r])
        PROVE  Steps
    BY <1>4, <2>1 DEF AtWork
  <2>. QED
    BY <1>5, <1>11, <2>1 DEF Detect, LooksFirst
<1>12. ASSUME CreateRead(r) PROVE Steps
  <2>1. LooksFirst(call[r]) /\ call[r].op = "create"
    BY <1>1, <1>12 DEF CreateRead, CallOK, LooksFirst
  <2>. QED
    BY <1>5, <1>6, <1>7, <1>12, <2>1 DEF CreateRead
<1>13. ASSUME UpdateRead(r) PROVE Steps
  <2>1. LooksFirst(call[r]) /\ call[r].op = "update"
    BY <1>13 DEF UpdateRead, LooksFirst
  <2>. QED
    BY <1>5, <1>6, <1>8, <1>13, <2>1 DEF UpdateRead
<1>14. ASSUME Read(r) PROVE Steps
  BY <1>5, <1>8, <1>9, <1>14 DEF Read
<1>15. Steps
  BY <1>10, <1>11, <1>12, <1>13, <1>14
<1>. QED
  BY <1>2, <1>15 DEF Steps

\* A call that may change the vault is due in the store.
LEMMA SharedDue ==
  ASSUME Shape, NEW r \in Requests, call[r].pc = "write"
  PROVE  /\ Shared!Due(SharedTasks[r])
         /\ Shared!Takes(SharedTasks[r]) <=> Executes(call[r])
<1>1. TypeOK /\ CallOK(r) /\ call[r].pc \in Begun
  BY DEF Shape, Begun, AtWork
<1>2. /\ SharedTasks[r].state = SharedState(call[r]) /\ SharedTasks[r].op = call[r].op
      /\ SharedTasks[r].path = call[r].path
      /\ Shared!Sought(SharedTasks[r]) <=> LooksFirst(call[r])
  BY <1>1, SharedFields
<1>3. call[r].op # "read"
  BY <1>1 DEF CallOK
<1>4. Shared!Due(SharedTasks[r])
  BY <1>2, <1>3 DEF Shared!Due, SharedState
<1>5. Shared!Takes(SharedTasks[r]) <=> Executes(call[r])
  BY <1>2 DEF Shared!Takes, Executes
<1>. QED
  BY <1>4, <1>5

LEMMA SharedWrites ==
  ASSUME Shape, NEW r \in Requests, Write(r) \/ WriteRefused(r)
  PROVE  /\ Shared!Change(r) \/ Shared!FindOwn(r) \/ Shared!Reject(r) \/ Shared!GiveUp(r)
         /\ UNCHANGED late
<1>1. TypeOK /\ call[r].pc = "write" /\ call[r].pc \in Begun /\ UNCHANGED late
  BY DEF Shape, Write, WriteRefused, Begun, AtWork, Frame
<1>2. /\ SharedTasks[r].state = SharedState(call[r]) /\ SharedTasks[r].op = call[r].op
      /\ SharedTasks[r].path = call[r].path /\ SharedTasks[r].value = call[r].value
  BY <1>1, SharedFields
<1>3. ASSUME Write(r)
      PROVE  Shared!Change(r)
  <2>1. Executes(call[r]) /\ Effect(call[r]) /\ Return(r, "ok")
    BY <1>3 DEF Write
  <2>2. Shared!Answer(r, "ok")
    BY <1>1, <2>1, ReturnShared
  <2>. QED
    BY <1>1, <1>2, <2>1, <2>2, SharedDue DEF Shared!Change, Effect
<1>4. ASSUME WriteRefused(r)
      PROVE  Shared!FindOwn(r) \/ Shared!Reject(r) \/ Shared!GiveUp(r)
  <2>1. UNCHANGED vault
    BY <1>4 DEF WriteRefused
  <2>2. ASSUME NEW answer \in Refusals \cup {"noMount"}, Return(r, answer)
        PROVE  Shared!GiveUp(r)
    BY <1>1, <2>1, <2>2, SharedGivesUp
  <2>3. ASSUME ~Executes(call[r]), Return(r, "exists")
        PROVE  Shared!FindOwn(r) \/ Shared!Reject(r)
    <3>1. /\ call[r].op = "create" /\ call[r].path \in Versioned
          /\ vault[call[r].path] # Absent
      BY <2>3 DEF Executes
    <3>2. Shared!Answer(r, "exists")
      BY <1>1, <2>3, ReturnShared
    <3>3. SharedTasks[r].state = IF call[r].applied THEN "applied" ELSE "open"
      BY <1>2, <3>1 DEF SharedState, LooksFirst
    <3>4. CASE call[r].applied
      BY <1>1, <1>2, <2>1, <3>1, <3>2, <3>3, <3>4 DEF Shared!FindOwn
    <3>5. CASE ~call[r].applied
      BY <1>2, <2>1, <3>1, <3>2, <3>3, <3>5 DEF Shared!Reject
    <3>. QED
      BY <3>4, <3>5
  <2>. QED
    BY <1>4, <2>2, <2>3 DEF WriteRefused
<1>. QED
  BY <1>1, <1>3, <1>4

\* A call that is sent again keeps its task, but for whether it took place.
LEMMA SharedRetry ==
  ASSUME TypeOK, NEW r \in Requests, call[r].pc = "write", NEW b \in BOOLEAN,
         call' = [call EXCEPT ![r].retries = @ + 1, ![r].applied = b]
  PROVE  /\ b = call[r].applied => UNCHANGED SharedTasks
         /\ b = TRUE => SharedTasks' = [SharedTasks EXCEPT ![r].state = "applied"]
<1>1. call[r] \in Call /\ call[r].pc \in Begun
  BY ReturnCall DEF Begun, AtWork
<1>2. /\ call'[r].pc = "write" /\ call'[r].op = call[r].op
      /\ call'[r].path = call[r].path /\ call'[r].value = call[r].value
      /\ call'[r].applied = b
  BY <1>1 DEF TypeOK, Call
<1>3. SharedState(call'[r]) = IF b THEN "applied"
                              ELSE IF LooksFirst(call[r]) THEN "found" ELSE "open"
  BY <1>1, <1>2 DEF SharedState, LooksFirst
<1>4. SharedTask(r)' = [state |-> SharedState(call'[r]), op |-> call[r].op,
                        path |-> call[r].path, value |-> call[r].value]
  BY <1>2, SharedFieldsNext DEF Begun, AtWork
<1>5. SharedTasks[r] = [state |-> SharedState(call[r]), op |-> call[r].op,
                        path |-> call[r].path, value |-> call[r].value]
  BY <1>1, SharedFields
<1>6. SharedTasks' = [SharedTasks EXCEPT ![r] = SharedTask(r)']
  BY OneShared DEF TypeOK
<1>7. ASSUME b = call[r].applied
      PROVE  UNCHANGED SharedTasks
  <2>1. SharedState(call'[r]) = SharedState(call[r])
    BY <1>3, <1>7 DEF SharedState
  <2>2. SharedTask(r)' = SharedTasks[r]
    BY <1>4, <1>5, <2>1
  <2>. QED
    BY <1>6, <2>2 DEF SharedTasks
<1>8. ASSUME b = TRUE
      PROVE  SharedTasks' = [SharedTasks EXCEPT ![r].state = "applied"]
  <2>1. SharedTask(r)' = [SharedTasks[r] EXCEPT !.state = "applied"]
    BY <1>3, <1>4, <1>5, <1>8
  <2>. QED
    BY <1>6, <2>1
<1>. QED
  BY <1>7, <1>8

LEMMA SharedRetries ==
  ASSUME Shape, NEW r \in Requests, WriteUnanswered(r)
  PROVE  \/ UNCHANGED <<vault, SharedTasks, late>>
         \/ Shared!Change(r) \/ Shared!Postpone(r)
         \/ Shared!GiveUp(r) /\ UNCHANGED late
<1>1. TypeOK /\ call[r].pc = "write" /\ call[r].pc \in Begun
  BY DEF Shape, WriteUnanswered, Begun, AtWork
<1>2. call[r] \in Call /\ call[r].applied \in BOOLEAN
  BY <1>1, ReturnCall, CallFields
<1>3. /\ SharedTasks[r].op = call[r].op
      /\ SharedTasks[r].path = call[r].path /\ SharedTasks[r].value = call[r].value
      /\ Shared!Due(SharedTasks[r])
      /\ Shared!Takes(SharedTasks[r]) <=> Executes(call[r])
  BY <1>1, SharedFields, SharedDue
<1>. DEFINE Again(b) == call' = [call EXCEPT ![r].retries = @ + 1, ![r].applied = b]
<1>4. ASSUME Executes(call[r]), Effect(call[r]), UNCHANGED late,
             Again(TRUE) \/ Return(r, "error")
      PROVE  Shared!Change(r)
  <2>1. vault' = [vault EXCEPT ![SharedTasks[r].path] = SharedTasks[r].value]
    BY <1>3, <1>4 DEF Effect
  <2>2. \/ SharedTasks' = [SharedTasks EXCEPT ![r].state = "applied"]
        \/ Shared!Answer(r, "error")
    BY <1>1, <1>4, SharedRetry, ReturnShared
  <2>. QED
    BY <1>3, <1>4, <2>1, <2>2 DEF Shared!Change
<1>5. ASSUME UNCHANGED <<vault, late>>, Again(call[r].applied)
      PROVE  UNCHANGED <<vault, SharedTasks, late>>
  BY <1>1, <1>2, <1>5, SharedRetry
<1>6. ASSUME UNCHANGED <<vault, late>>, Return(r, "error")
      PROVE  Shared!GiveUp(r) /\ UNCHANGED late
  BY <1>1, <1>6, SharedGivesUp DEF Refusals
<1>7. ASSUME UNCHANGED vault, Again(call[r].applied) \/ Return(r, "error"),
             late' = late \cup {[op |-> call[r].op, path |-> call[r].path,
                                 value |-> call[r].value]}
      PROVE  Shared!Postpone(r)
  <2>1. UNCHANGED SharedTasks \/ Shared!Answer(r, "error")
    BY <1>1, <1>2, <1>7, SharedRetry, ReturnShared
  <2>. QED
    BY <1>3, <1>7, <2>1 DEF Shared!Postpone
<1>8. \/ /\ Executes(call[r]) /\ Effect(call[r]) /\ UNCHANGED late
         /\ Again(TRUE) \/ Return(r, "error")
      \/ /\ UNCHANGED <<vault, late>>
         /\ Again(call[r].applied) \/ Return(r, "error")
      \/ /\ UNCHANGED vault /\ (Again(call[r].applied) \/ Return(r, "error"))
         /\ late' = late \cup {[op |-> call[r].op, path |-> call[r].path,
                                value |-> call[r].value]}
  BY DEF WriteUnanswered
<1>. HIDE DEF Again
<1>. QED
  BY <1>4, <1>5, <1>6, <1>7, <1>8

LEMMA SharedLoses ==
  ASSUME NEW i \in Processes, Crash(i)
  PROVE  (\E lost \in SUBSET Requests : Shared!Lose(lost)) /\ UNCHANGED late
<1> DEFINE lost == {r \in Requests : call[r].pc \in Begun /\ call[r].process = i}
           Lost == [state |-> "answered", answer |-> "lost"]
<1>1. \A r \in lost : Shared!Begun(r)
  BY SharedFields DEF Shared!Begun, SharedState
<1>2. ASSUME NEW r \in Requests
      PROVE  SharedTask(r)' = IF r \in lost THEN Lost ELSE SharedTask(r)
  <2>1. CASE r \in lost
    <3>1. call'[r] = [pc |-> "done", answer |-> "lost"]
      BY <2>1 DEF Crash, Begun
    <3>. QED
      BY <2>1, <3>1 DEF SharedTask
  <2>2. CASE r \notin lost
    <3>1. call'[r] = call[r]
      BY <2>2 DEF Crash, Begun
    <3>. QED
      BY <2>2, <3>1 DEF SharedTask, LooksFirst
  <2>. QED
    BY <2>1, <2>2
<1>3. UNCHANGED vault /\ UNCHANGED late
  BY DEF Crash
<1>4. lost \in SUBSET Requests
  OBVIOUS
<1>5. SharedTasks' = [r \in Requests |-> IF r \in lost THEN Lost ELSE SharedTasks[r]]
  BY <1>2 DEF SharedTasks
<1> HIDE DEF lost
<1>. QED
  BY <1>1, <1>3, <1>4, <1>5 DEF Shared!Lose

LEMMA SharedStep ==
  ASSUME Shape, [Next]_vars
  PROVE  [Shared!SharedNext]_<<vault, SharedTasks, late>>
<1>1. TypeOK
  BY DEF Shape
<1>2. ASSUME NEW r \in Requests, Begin(r)
      PROVE  Shared!SharedNext
  BY <1>1, <1>2, SharedBegins DEF Shared!SharedNext
<1>3. ASSUME NEW r \in Requests, Step(r)
      PROVE  Shared!SharedNext \/ UNCHANGED <<vault, SharedTasks, late>>
  <2>1. ASSUME Lock(r) \/ Detect(r) \/ CreateRead(r) \/ UpdateRead(r) \/ Read(r)
        PROVE  Shared!SharedNext \/ UNCHANGED <<vault, SharedTasks, late>>
    BY <2>1, SharedLooks DEF Shared!SharedNext
  <2>2. ASSUME Write(r) \/ WriteRefused(r)
        PROVE  Shared!SharedNext
    <3>1. Shared!FindOwn(r) \/ Shared!Change(r) \/
            ((Shared!Reject(r) \/ Shared!GiveUp(r)) /\ UNCHANGED late)
      BY <2>2, SharedWrites
    <3>. QED
      BY <3>1 DEF Shared!SharedNext
  <2>3. ASSUME WriteUnanswered(r)
        PROVE  Shared!SharedNext \/ UNCHANGED <<vault, SharedTasks, late>>
    BY <2>3, SharedRetries DEF Shared!SharedNext
  <2>. QED
    BY <1>3, <2>1, <2>2, <2>3 DEF Step
<1>4. ASSUME NEW w \in late, Arrive(w)
      PROVE  Shared!SharedNext
  <2>1. SharedTasks' = SharedTasks
    BY <1>4 DEF Arrive, SharedTasks, SharedTask, LooksFirst
  <2>2. Shared!Settle(w)
    BY <1>4, <2>1 DEF Arrive, Executes, Effect, Shared!Settle, Shared!Takes
  <2>. QED
    BY <2>2 DEF Shared!SharedNext
<1>5. ASSUME NEW p \in Paths, Outside(p)
      PROVE  Shared!SharedNext
  <2>1. SharedTasks' = SharedTasks /\ UNCHANGED late
    BY <1>5 DEF Outside, SharedTasks, SharedTask, LooksFirst
  <2>2. Shared!Others(p)
    BY <1>5, <2>1 DEF Outside, Contents, Shared!Others, Shared!Contents
  <2>. QED
    BY <2>2 DEF Shared!SharedNext
<1>6. ASSUME NEW i \in Processes, Crash(i)
      PROVE  Shared!SharedNext
  BY <1>6, SharedLoses DEF Shared!SharedNext
<1>7. CASE UNCHANGED vars
  BY <1>7 DEF vars, SharedTasks, SharedTask, LooksFirst
<1>. QED
  BY <1>2, <1>3, <1>4, <1>5, <1>6, <1>7 DEF Next

(* Any number of processes serve the same secrets, beside other users of   *)
(* the vault and calls that arrive after they were given up, as            *)
(* SharedStore promises, through retries, time-outs and crashes.           *)
THEOREM AtomicAmongOthersCorrect == Spec => AtomicAmongOthers
  BY SharedStarts, SharedStep, ShapeCorrect, PTL
     DEF Spec, AtomicAmongOthers, Shared!SharedSpec
=============================================================================
