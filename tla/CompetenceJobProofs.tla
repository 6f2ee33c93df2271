------------------------- MODULE CompetenceJobProofs -------------------------
(***************************************************************************)
(* Machine-checked safety of CompetenceJob, for any finite set of jobs, any *)
(* set of task ids and any bounds.                                         *)
(***************************************************************************)
EXTENDS CompetenceJob, FiniteSetTheorems, TLAPS

(***************************************************************************)
(* The strengthening.  A worker local is only as good as what it remembers *)
(* of shared state, and what it remembers is monotone: keys, deleted and   *)
(* scorer never shrink, and what a readback saw is stored or deleted.      *)
(***************************************************************************)

\* An execution holds a job exactly while it is alive.
TaskHasJob == \A t \in Tasks : pc[t] = "free" <=> at[t] = NoJob

\* How far _publish has got is visible in the row.
Progress ==
    \A t \in Tasks :
        LET j == at[t] IN
        /\ pc[t] \in {"put", "read", "record"} /\ part[t] = "model"
              => "prior" \in keys[j]
        /\ pc[t] = "record" => part[t] \in stored[j] \cup deleted[j]
        /\ pc[t] = "finish" => keys[j] = Kinds

\* A task past _resolve_previous has seen the previous scorer published.
Resolved ==
    \A t \in Tasks : pc[t] \in {"put", "read", "record", "finish"} =>
        \/ Previous[at[t]] = NoJob
        \/ Previous[at[t]] \in scorer

\* The transaction that holds the row lock deletes owned artifacts only, and
\* has deleted what it has ticked off.
CleanupInv ==
    \A j \in Jobs : cleaning[j] # NoCleanup =>
        /\ receipt[j] = NoReceipt
        /\ cleaning[j].ids # {}
        /\ cleaning[j].ids \subseteq keys[j]
        /\ cleaning[j].ids \ cleaning[j].left \subseteq deleted[j]

IInv ==
    /\ TypeOK
    /\ TaskHasJob
    /\ Progress
    /\ Resolved
    /\ CleanupInv
    /\ SucceededComplete
    /\ RecordedReadBack
    /\ RefitChain
    /\ ReceiptAccounts
    /\ AbandonedByFault

(***************************************************************************)
(* Type correctness                                                        *)
(***************************************************************************)

\* What a storage error does to the locals of a task, in one place for the two
\* actions that can meet one.
LEMMA RetryType ==
    ASSUME TypeOK, TaskHasJob, NEW t \in Tasks, pc[t] # "free", RetryOrFail(t)
    PROVE  /\ pc' \in [Tasks -> TaskPcs] /\ at' = at
           /\ part' \in [Tasks -> Kinds]
           /\ retries' \in [Tasks -> 0..MaxRetries]
           /\ problem' \in [Tasks -> Problems]
           /\ TaskHasJob'
<1> USE ConstantsAssumption
<1> USE DEF TypeOK, TaskHasJob, TaskPcs, Working, Kinds, Problems
<1>1. CASE retries[t] < MaxRetries
  BY <1>1 DEF RetryOrFail
<1>2. CASE ~(retries[t] < MaxRetries)
  BY <1>2 DEF RetryOrFail, Raise
<1>3. QED  BY <1>1, <1>2

\* Every action keeps every variable in its range and a live execution bound to
\* its job.
LEMMA TypeStep ==
    ASSUME TypeOK, TaskHasJob, [Next]_vars
    PROVE  TypeOK' /\ TaskHasJob'
<1> USE ConstantsAssumption
<1> USE DEF TypeOK, TaskHasJob, rowVars, storeVars, taskVars, sweepVars, Statuses, Problems,
            TaskPcs, Working, Kinds, Nothing
<1>1. ASSUME NEW j \in Jobs, Submit(j)
      PROVE  TypeOK' /\ TaskHasJob'
  <2>1. Cardinality({i \in Jobs : status[i] # "absent"}) \in Nat
    BY FS_Subset, FS_CardinalityType
  <2>2. QED  BY <1>1, <2>1 DEF Submit
<1>2. ASSUME NEW j \in Jobs, NEW t \in Tasks, Dispatch(j, t)
      PROVE  TypeOK' /\ TaskHasJob'
  BY <1>2 DEF Dispatch, Delay, Fresh
<1>3. ASSUME NEW j \in Jobs, DispatchLost(j)
      PROVE  TypeOK' /\ TaskHasJob'
  BY <1>3 DEF DispatchLost, Fault
<1>4. ASSUME NEW t \in Tasks, Claim(t)
      PROVE  TypeOK' /\ TaskHasJob'
  <2>1. at[t] \in Jobs  BY <1>4 DEF Claim
  <2>2. CASE EndTask(t) /\ UNCHANGED rowVars
    BY <1>4, <2>1, <2>2 DEF Claim, EndTask
  <2>3. CASE Goto(t, "fit") /\ UNCHANGED rowVars
    BY <1>4, <2>1, <2>3 DEF Claim, Goto
  <2>4. CASE /\ Goto(t, "fit")
             /\ status' = [status EXCEPT ![at[t]] = "running"]
             /\ owner' = [owner EXCEPT ![at[t]] = t]
             /\ refusal' = [refusal EXCEPT ![at[t]] = Nothing]
             /\ UNCHANGED <<scorer, keys, receipt, age>>
    BY <1>4, <2>1, <2>4 DEF Claim, Goto
  <2>5. QED  BY <1>4, <2>2, <2>3, <2>4 DEF Claim
<1>5. ASSUME NEW t \in Tasks, Fit(t)
      PROVE  TypeOK' /\ TaskHasJob'
  BY <1>5 DEF Fit, Raise
<1>6. ASSUME NEW t \in Tasks, Put(t)
      PROVE  TypeOK' /\ TaskHasJob'
  BY <1>6 DEF Put, Goto
<1>7. ASSUME NEW t \in Tasks, Readback(t)
      PROVE  TypeOK' /\ TaskHasJob'
  <2>1. CASE Goto(t, "record")
    BY <1>7, <2>1 DEF Readback, Goto
  <2>2. CASE RetryOrFail(t)
    BY <1>7, <2>2, RetryType DEF Readback
  <2>3. QED  BY <1>7, <2>1, <2>2 DEF Readback
<1>8. ASSUME NEW t \in Tasks, Record(t)
      PROVE  TypeOK' /\ TaskHasJob'
  <2>1. at[t] \in Jobs  BY <1>8 DEF Record
  <2>2. keys' \in [Jobs -> SUBSET Kinds]
    BY <1>8, <2>1 DEF Record
  <2>3. CASE part[t] = "prior"
    BY <1>8, <2>2, <2>3 DEF Record
  <2>4. CASE part[t] # "prior"
    BY <1>8, <2>2, <2>4 DEF Record, Goto
  <2>5. QED  BY <2>3, <2>4
<1>9. ASSUME NEW t \in Tasks, FinishSuccess(t)
      PROVE  TypeOK' /\ TaskHasJob'
  <2>1. at[t] \in Jobs  BY <1>9 DEF FinishSuccess
  <2>2. CASE status[at[t]] = "running"
    <3>1. status' \in [Jobs -> Statuses]  BY <1>9, <2>1, <2>2 DEF FinishSuccess
    <3>2. scorer' \subseteq Jobs          BY <1>9, <2>1, <2>2 DEF FinishSuccess
    <3>3. keys' \in [Jobs -> SUBSET Kinds]
      BY <1>9, <2>1, <2>2 DEF FinishSuccess
    <3>4. refusal' \in [Jobs -> Problems \cup {Nothing}]
      BY <1>9, <2>1, <2>2 DEF FinishSuccess
    <3>5. UNCHANGED <<owner, receipt, age>>
      BY <1>9, <2>1, <2>2 DEF FinishSuccess
    <3>6. QED
      BY <1>9, <3>1, <3>2, <3>3, <3>4, <3>5 DEF FinishSuccess, EndTask
  <2>3. CASE status[at[t]] # "running"
    BY <1>9, <2>1, <2>3 DEF FinishSuccess, EndTask
  <2>4. QED  BY <2>2, <2>3
<1>10. ASSUME NEW t \in Tasks, FinishProblem(t)
      PROVE  TypeOK' /\ TaskHasJob'
  BY <1>10 DEF FinishProblem, EndTask
<1>11. ASSUME NEW t \in Tasks, StorageError(t)
      PROVE  TypeOK' /\ TaskHasJob'
  BY <1>11, RetryType DEF StorageError, Fault
<1>12. ASSUME NEW t \in Tasks, UnexpectedError(t)
      PROVE  TypeOK' /\ TaskHasJob'
  <2>1. PICK p \in Problems : Raise(t, p)
    BY <1>12 DEF UnexpectedError
  <2>2. pc[t] \in Working  BY <1>12 DEF UnexpectedError
  <2>3. QED  BY <1>12, <2>1, <2>2 DEF UnexpectedError, Raise, Fault
<1>13. ASSUME NEW t \in Tasks, WorkerCrash(t)
      PROVE  TypeOK' /\ TaskHasJob'
  BY <1>13 DEF WorkerCrash, Drop, EndTask, Fault, Working
<1>131. ASSUME NEW t \in Tasks, EscapingError(t)
      PROVE  TypeOK' /\ TaskHasJob'
  BY <1>131 DEF EscapingError, Drop, EndTask, Fault, Working
<1>132. ASSUME NEW t \in Tasks, RetryLost(t)
      PROVE  TypeOK' /\ TaskHasJob'
  <2>1. stored' \in [Jobs -> SUBSET Kinds]
    BY <1>132 DEF RetryLost
  <2>2. QED  BY <1>132, <2>1 DEF RetryLost, Drop, EndTask, Fault, Working
<1>14. CASE SweepRecover
  <2>1. PICK stale \in SUBSET {j \in Jobs : status[j] = "running" /\ Unlocked(j)} :
            /\ early' = early + Cardinality({j \in stale : Attended(j)})
            /\ early' <= MaxEarly
            /\ status' = [j \in Jobs |->
                            IF j \in stale THEN "queued" ELSE status[j]]
            /\ owner' = [j \in Jobs |-> IF j \in stale THEN NoTask ELSE owner[j]]
    BY <1>14 DEF SweepRecover
  <2>2. Cardinality({j \in stale : Attended(j)}) \in Nat
    BY FS_Subset, FS_CardinalityType
  <2>3. QED  BY <1>14, <2>1, <2>2 DEF SweepRecover
<1>15. CASE SweepList
  BY <1>15 DEF SweepList
<1>16. ASSUME NEW j \in Jobs, NEW t \in Tasks, SweepSend(j, t)
      PROVE  TypeOK' /\ TaskHasJob'
  BY <1>16 DEF SweepSend, Delay, Fresh
<1>17. CASE SweepDone
  BY <1>17 DEF SweepDone
<1>18. CASE SweepCrash
  BY <1>18 DEF SweepCrash, Fault
<1>19. ASSUME NEW j \in Jobs, NEW op \in CleanupOps, CleanupStart(j, op)
      PROVE  TypeOK' /\ TaskHasJob'
  BY <1>19 DEF CleanupStart, Cleanups
<1>20. ASSUME NEW j \in Jobs, NEW k \in Kinds, CleanupDelete(j, k)
      PROVE  TypeOK' /\ TaskHasJob'
  <2>1. [cleaning EXCEPT ![j].left = @ \ {k}] \in [Jobs -> Cleanups]
    BY DEF Cleanups
  <2>2. QED  BY <1>20, <2>1 DEF CleanupDelete
<1>21. ASSUME NEW j \in Jobs, CleanupCommit(j)
      PROVE  TypeOK' /\ TaskHasJob'
  <2>1. cleaning[j] \in Cleanups
    BY <1>21 DEF CleanupCommit
  <2>2. [op |-> cleaning[j].op, ids |-> cleaning[j].ids] \in Receipts
    BY <2>1 DEF Receipts, Cleanups
  <2>3. NoCleanup \in Cleanups  BY DEF NoCleanup, Cleanups
  <2>4. QED  BY <1>21, <2>2, <2>3 DEF CleanupCommit
<1>22. ASSUME NEW j \in Jobs, CleanupFail(j)
      PROVE  TypeOK' /\ TaskHasJob'
  <2>1. NoCleanup \in Cleanups  BY DEF NoCleanup, Cleanups
  <2>2. QED  BY <1>22, <2>1 DEF CleanupFail, Fault
<1>23. CASE UNCHANGED vars
  BY <1>23 DEF vars
<1> HIDE DEF TypeOK, TaskHasJob, rowVars, storeVars, taskVars, sweepVars, Kinds
<1>24. QED
  BY <1>1, <1>2, <1>3, <1>4, <1>5, <1>6, <1>7, <1>8, <1>9, <1>10, <1>11, <1>12,
     <1>13, <1>131, <1>132, <1>14, <1>15, <1>16, <1>17, <1>18, <1>19, <1>20, <1>21, <1>22, <1>23
     DEF Next, WorkerStep, SweepStep, CleanupStep

(***************************************************************************)
(* Preservation of the strengthened invariant, one lemma per concern       *)
(***************************************************************************)

\* Publication: locals of a task agree with the row, the store and the previous
\* job, whoever else moves.
LEMMA PublishStep ==
    ASSUME IInv, [Next]_vars
    PROVE  Progress' /\ Resolved' /\ RecordedReadBack' /\ RefitChain'
<1> USE ConstantsAssumption
<1> USE DEF IInv, TypeOK, TaskHasJob, rowVars, storeVars, taskVars, sweepVars,
            TaskPcs, Working, Kinds, Progress, Resolved, RecordedReadBack, RefitChain
<1>1. CASE UNCHANGED <<pc, at, part, keys, stored, deleted, scorer>>
  BY <1>1
<1>2. ASSUME NEW j \in Jobs, NEW t \in Tasks, Dispatch(j, t)
      PROVE  Progress' /\ Resolved' /\ RecordedReadBack' /\ RefitChain'
  BY <1>2 DEF Dispatch, Delay, Fresh
<1>3. ASSUME NEW t \in Tasks, Claim(t)
      PROVE  Progress' /\ Resolved' /\ RecordedReadBack' /\ RefitChain'
  BY <1>3 DEF Claim, EndTask, Goto
<1>4. ASSUME NEW t \in Tasks, Fit(t)
      PROVE  Progress' /\ Resolved' /\ RecordedReadBack' /\ RefitChain'
  BY <1>4 DEF Fit, Raise, PreviousResolved
<1>5. ASSUME NEW t \in Tasks, Put(t)
      PROVE  Progress' /\ Resolved' /\ RecordedReadBack' /\ RefitChain'
  BY <1>5 DEF Put, Goto
<1>6. ASSUME NEW t \in Tasks, Readback(t)
      PROVE  Progress' /\ Resolved' /\ RecordedReadBack' /\ RefitChain'
  BY <1>6 DEF Readback, Goto, RetryOrFail, Raise
<1>7. ASSUME NEW t \in Tasks, Record(t)
      PROVE  Progress' /\ Resolved' /\ RecordedReadBack' /\ RefitChain'
  BY <1>7 DEF Record, Goto
<1>8. ASSUME NEW t \in Tasks, FinishSuccess(t)
      PROVE  Progress' /\ Resolved' /\ RecordedReadBack' /\ RefitChain'
  <2>1. at[t] \in Jobs /\ keys[at[t]] = Kinds  BY <1>8 DEF FinishSuccess
  <2>2. /\ \A j \in Jobs : keys'[j] = keys[j]
        /\ scorer \subseteq scorer'
        /\ UNCHANGED <<stored, deleted>>
    <3>1. CASE status[at[t]] = "running"
      <4>1. /\ keys' = [keys EXCEPT ![at[t]] = Kinds]
            /\ scorer' = scorer \cup {at[t]}
            /\ UNCHANGED <<stored, deleted>>
        BY <1>8, <3>1, Zenon DEF FinishSuccess
      <4>2. \A j \in Jobs : keys'[j] = keys[j]
        BY <2>1, <4>1
      <4>3. QED  BY <4>1, <4>2
    <3>2. CASE status[at[t]] # "running"
      BY <1>8, <2>1, <3>2 DEF FinishSuccess
    <3>3. QED  BY <3>1, <3>2
  <2>3. /\ \A u \in Tasks : pc'[u] # "free" =>
              pc'[u] = pc[u] /\ at'[u] = at[u] /\ part'[u] = part[u] /\ u # t
        /\ pc' \in [Tasks -> TaskPcs]
    BY <1>8 DEF FinishSuccess, EndTask
  <2>4. Progress'  BY <2>2, <2>3
  <2>5. Resolved'  BY <2>2, <2>3
  <2>6. RecordedReadBack' /\ RefitChain'  BY <1>8, <2>1, <2>2 DEF FinishSuccess
  <2>7. QED  BY <2>4, <2>5, <2>6
<1>9. ASSUME NEW t \in Tasks, FinishProblem(t)
      PROVE  Progress' /\ Resolved' /\ RecordedReadBack' /\ RefitChain'
  BY <1>9 DEF FinishProblem, EndTask
<1>10. ASSUME NEW t \in Tasks, StorageError(t)
      PROVE  Progress' /\ Resolved' /\ RecordedReadBack' /\ RefitChain'
  <2>1. at[t] \in Jobs  BY <1>10 DEF StorageError
  <2>2. /\ stored[at[t]] \subseteq stored'[at[t]] /\ stored' \in [Jobs -> SUBSET Kinds]
        /\ \A j \in Jobs : stored[j] \subseteq stored'[j]
    BY <1>10, <2>1 DEF StorageError
  <2>3. /\ \A u \in Tasks : u # t => pc'[u] = pc[u] /\ part'[u] = part[u]
        /\ pc'[t] \in {"sent", "problem"}
        /\ at' = at
    BY <1>10 DEF StorageError, RetryOrFail, Raise
  <2>4. UNCHANGED <<keys, deleted, scorer>>  BY <1>10 DEF StorageError
  <2>5. QED  BY <2>2, <2>3, <2>4
<1>11. ASSUME NEW t \in Tasks, UnexpectedError(t)
      PROVE  Progress' /\ Resolved' /\ RecordedReadBack' /\ RefitChain'
  BY <1>11 DEF UnexpectedError, Raise, Fault
<1>12. ASSUME NEW t \in Tasks, WorkerCrash(t)
      PROVE  Progress' /\ Resolved' /\ RecordedReadBack' /\ RefitChain'
  BY <1>12 DEF WorkerCrash, Drop, EndTask, Fault
<1>121. ASSUME NEW t \in Tasks, EscapingError(t)
      PROVE  Progress' /\ Resolved' /\ RecordedReadBack' /\ RefitChain'
  BY <1>121 DEF EscapingError, Drop, EndTask, Fault
<1>122. ASSUME NEW t \in Tasks, RetryLost(t)
      PROVE  Progress' /\ Resolved' /\ RecordedReadBack' /\ RefitChain'
  <2>1. at[t] \in Jobs  BY <1>122 DEF RetryLost
  <2>2. stored' \in [Jobs -> SUBSET Kinds] /\ \A j \in Jobs : stored[j] \subseteq stored'[j]
    BY <1>122, <2>1 DEF RetryLost
  <2>3. /\ \A u \in Tasks : u # t =>
              pc'[u] = pc[u] /\ part'[u] = part[u] /\ at'[u] = at[u]
        /\ pc'[t] = "free"
    BY <1>122 DEF RetryLost, Drop, EndTask
  <2>4. UNCHANGED <<keys, deleted, scorer>>  BY <1>122 DEF RetryLost
  <2>5. QED  BY <2>2, <2>3, <2>4
<1>13. ASSUME NEW j \in Jobs, NEW t \in Tasks, SweepSend(j, t)
      PROVE  Progress' /\ Resolved' /\ RecordedReadBack' /\ RefitChain'
  BY <1>13 DEF SweepSend, Delay, Fresh
<1>14. ASSUME NEW j \in Jobs, NEW k \in Kinds, CleanupDelete(j, k)
      PROVE  Progress' /\ Resolved' /\ RecordedReadBack' /\ RefitChain'
  BY <1>14 DEF CleanupDelete
<1> HIDE DEF IInv, TypeOK, TaskHasJob, Progress, Resolved, RecordedReadBack, RefitChain
<1>15. QED
  BY <1>1, <1>2, <1>3, <1>4, <1>5, <1>6, <1>7, <1>8, <1>9, <1>10, <1>11, <1>12, <1>121,
     <1>122, <1>13, <1>14
     DEF Next, vars, WorkerStep, SweepStep, CleanupStep,
         Submit, DispatchLost, SweepRecover, SweepList, SweepDone, SweepCrash, CleanupStart, CleanupCommit, CleanupFail

\* Cleanup: the lock holder deletes owned artifacts and its receipt accounts for
\* them.
LEMMA CleanupInvStep ==
    ASSUME IInv, [Next]_vars
    PROVE  CleanupInv' /\ ReceiptAccounts'
<1> USE ConstantsAssumption
<1> USE DEF IInv, TypeOK, TaskHasJob, rowVars, storeVars, taskVars, sweepVars,
            CleanupInv, ReceiptAccounts
<1>1. CASE UNCHANGED <<cleaning, receipt, keys, deleted>>
  BY <1>1
<1>2. ASSUME NEW t \in Tasks, Record(t)
      PROVE  CleanupInv' /\ ReceiptAccounts'
  <2>1. at[t] \in Jobs  BY <1>2 DEF Record, TaskPcs, Working
  <2>2. \A i \in Jobs : keys[i] \subseteq keys'[i]
    BY <1>2, <2>1 DEF Record
  <2>3. UNCHANGED <<cleaning, receipt, deleted>>  BY <1>2 DEF Record
  <2>4. QED  BY <2>2, <2>3
<1>3. ASSUME NEW t \in Tasks, FinishSuccess(t)
      PROVE  CleanupInv' /\ ReceiptAccounts'
  <2>1. \A i \in Jobs : keys[i] \subseteq keys'[i]
    BY <1>3 DEF FinishSuccess, Progress
  <2>2. UNCHANGED <<cleaning, receipt, deleted>>  BY <1>3 DEF FinishSuccess
  <2>3. QED  BY <2>1, <2>2
<1>4. ASSUME NEW j \in Jobs, NEW op \in CleanupOps, CleanupStart(j, op)
      PROVE  CleanupInv' /\ ReceiptAccounts'
  <2>1. \A i \in Jobs : i # j => cleaning'[i] = cleaning[i]
    BY <1>4 DEF CleanupStart
  <2>2. /\ cleaning'[j].ids = keys[j] /\ cleaning'[j].left = keys[j]
        /\ keys[j] # {} /\ receipt[j] = NoReceipt
    BY <1>4 DEF CleanupStart
  <2>3. UNCHANGED <<receipt, keys, deleted>>  BY <1>4 DEF CleanupStart
  <2>4. QED  BY <2>1, <2>2, <2>3
<1>5. ASSUME NEW j \in Jobs, NEW k \in Kinds, CleanupDelete(j, k)
      PROVE  CleanupInv' /\ ReceiptAccounts'
  <2>1. cleaning[j] \in Cleanups /\ cleaning[j] # NoCleanup
    BY <1>5 DEF CleanupDelete, NoCleanup
  <2>2. /\ \A i \in Jobs : i # j => cleaning'[i] = cleaning[i]
        /\ cleaning'[j].ids = cleaning[j].ids
        /\ cleaning'[j].left = cleaning[j].left \ {k}
    BY <1>5, <2>1 DEF CleanupDelete, Cleanups
  <2>3. /\ deleted'[j] = deleted[j] \cup {k}
        /\ \A i \in Jobs : deleted[i] \subseteq deleted'[i]
    BY <1>5 DEF CleanupDelete
  <2>4. UNCHANGED <<receipt, keys>>  BY <1>5 DEF CleanupDelete
  <2>5. QED  BY <2>1, <2>2, <2>3, <2>4
<1>6. ASSUME NEW j \in Jobs, CleanupCommit(j)
      PROVE  CleanupInv' /\ ReceiptAccounts'
  <2>1. cleaning[j] # NoCleanup /\ cleaning[j].left = {}
    BY <1>6 DEF CleanupCommit, Unlocked
  <2>2. /\ \A i \in Jobs : i # j =>
              cleaning'[i] = cleaning[i] /\ receipt'[i] = receipt[i]
        /\ cleaning'[j] = NoCleanup
        /\ receipt'[j].ids = cleaning[j].ids
    BY <1>6 DEF CleanupCommit
  <2>3. UNCHANGED <<keys, deleted>>  BY <1>6 DEF CleanupCommit
  <2>4. QED  BY <2>1, <2>2, <2>3
<1>7. ASSUME NEW j \in Jobs, CleanupFail(j)
      PROVE  CleanupInv' /\ ReceiptAccounts'
  <2>1. /\ \A i \in Jobs : i # j => cleaning'[i] = cleaning[i]
        /\ cleaning'[j] = NoCleanup
        /\ UNCHANGED <<receipt, keys, deleted>>
    BY <1>7 DEF CleanupFail
  <2>2. QED  BY <2>1
<1> HIDE DEF IInv, TypeOK, TaskHasJob, CleanupInv, ReceiptAccounts, Progress
<1>8. QED
  BY <1>1, <1>2, <1>3, <1>4, <1>5, <1>6, <1>7
     DEF Next, vars, WorkerStep, SweepStep, CleanupStep,
         Submit, Dispatch, DispatchLost, Claim, Fit, Put, Readback, FinishProblem, StorageError, UnexpectedError, EscapingError, RetryLost,
         WorkerCrash, Drop, SweepRecover, SweepList, SweepSend, SweepDone, SweepCrash, Delay, EndTask, Goto, Raise, RetryOrFail

\* Outcome: a succeeded row is complete, and a lease is only abandoned by
\* an execution that was dropped after the claim.
LEMMA OutcomeStep ==
    ASSUME IInv, [Next]_vars
    PROVE  SucceededComplete' /\ AbandonedByFault'
<1> USE ConstantsAssumption
<1> USE DEF IInv, TypeOK, TaskHasJob, rowVars, storeVars, taskVars, sweepVars,
            TaskPcs, Working, Kinds, Statuses, Nothing, Problems, SucceededComplete, AbandonedByFault, Progress
<1>1. CASE UNCHANGED <<status, scorer, keys, refusal, at, dropped>>
  BY <1>1
<1>2. ASSUME NEW j \in Jobs, Submit(j)
      PROVE  SucceededComplete' /\ AbandonedByFault'
  BY <1>2 DEF Submit
<1>3. ASSUME NEW j \in Jobs, NEW t \in Tasks, Dispatch(j, t)
      PROVE  SucceededComplete' /\ AbandonedByFault'
  BY <1>3 DEF Dispatch, Delay, Fresh
<1>4. ASSUME NEW t \in Tasks, Claim(t)
      PROVE  SucceededComplete' /\ AbandonedByFault'
  BY <1>4 DEF Claim, EndTask, Goto
<1>5. ASSUME NEW t \in Tasks, Record(t)
      PROVE  SucceededComplete' /\ AbandonedByFault'
  BY <1>5 DEF Record, Goto
<1>6. ASSUME NEW t \in Tasks, FinishSuccess(t)
      PROVE  SucceededComplete' /\ AbandonedByFault'
  BY <1>6 DEF FinishSuccess, EndTask
<1>7. ASSUME NEW t \in Tasks, FinishProblem(t)
      PROVE  SucceededComplete' /\ AbandonedByFault'
  BY <1>7 DEF FinishProblem, EndTask
<1>8. ASSUME NEW t \in Tasks, WorkerCrash(t)
      PROVE  SucceededComplete' /\ AbandonedByFault'
  BY <1>8 DEF WorkerCrash, Drop, EndTask, Fault
<1>81. ASSUME NEW t \in Tasks, EscapingError(t) \/ RetryLost(t)
      PROVE  SucceededComplete' /\ AbandonedByFault'
  BY <1>81 DEF EscapingError, RetryLost, Drop, EndTask, Fault
<1>9. CASE SweepRecover
  BY <1>9 DEF SweepRecover
<1>10. ASSUME NEW j \in Jobs, NEW t \in Tasks, SweepSend(j, t)
      PROVE  SucceededComplete' /\ AbandonedByFault'
  BY <1>10 DEF SweepSend, Delay, Fresh
<1> HIDE DEF IInv, TypeOK, TaskHasJob, SucceededComplete, AbandonedByFault, Progress
<1>11. QED
  BY <1>1, <1>2, <1>3, <1>4, <1>5, <1>6, <1>7, <1>8, <1>81, <1>9, <1>10
     DEF Next, vars, WorkerStep, SweepStep, CleanupStep,
         DispatchLost, Fit, Put, Readback, StorageError, UnexpectedError, SweepList, SweepDone, SweepCrash, CleanupStart, CleanupDelete, CleanupCommit, CleanupFail, Goto, Raise, RetryOrFail

\* What a handler has written to scorer_json, to the receipt or to the owned
\* artifacts, no other handler takes back.
LEMMA MonotoneStep ==
    ASSUME IInv, [Next]_vars, NEW i \in Jobs
    PROVE  /\ i \in scorer => i \in scorer'
           /\ receipt[i] # NoReceipt => receipt'[i] = receipt[i]
           /\ keys[i] \subseteq keys'[i]
<1> DEFINE Kept == /\ i \in scorer => i \in scorer'
                   /\ receipt[i] # NoReceipt => receipt'[i] = receipt[i]
                   /\ keys[i] \subseteq keys'[i]
<1> USE DEF IInv, TypeOK, rowVars
<1>1. CASE UNCHANGED <<scorer, receipt, keys>>
  BY <1>1
<1>2. ASSUME NEW t \in Tasks, Record(t)
      PROVE  Kept
  BY <1>2 DEF Record
<1>3. ASSUME NEW t \in Tasks, FinishSuccess(t)
      PROVE  Kept
  BY <1>3 DEF FinishSuccess
<1>4. ASSUME NEW j \in Jobs, CleanupCommit(j)
      PROVE  Kept
  BY <1>4 DEF CleanupCommit, CleanupInv, Unlocked
<1> HIDE DEF IInv, TypeOK
<1>5. \/ UNCHANGED <<scorer, receipt, keys>>
      \/ \E t \in Tasks : Record(t) \/ FinishSuccess(t)
      \/ \E j \in Jobs : CleanupCommit(j)
  <2>1. CASE \E t \in Tasks : WorkerStep(t) \/ StorageError(t)
                              \/ UnexpectedError(t) \/ EscapingError(t)
                              \/ RetryLost(t) \/ WorkerCrash(t)
    BY <2>1 DEF WorkerStep, Claim, Fit, Put, Readback, FinishProblem,
                StorageError, UnexpectedError, EscapingError, RetryLost,
                WorkerCrash
  <2>2. CASE SweepStep \/ SweepCrash
    BY <2>2 DEF SweepStep, SweepRecover, SweepList, SweepSend, SweepDone,
                SweepCrash
  <2>3. CASE \E j \in Jobs : Submit(j) \/ DispatchLost(j) \/ CleanupFail(j)
                             \/ CleanupStep(j)
    BY <2>3 DEF Submit, DispatchLost, CleanupFail, CleanupStep, CleanupDelete
  <2>4. CASE \/ \E j \in Jobs, t \in Tasks : Dispatch(j, t)
             \/ \E j \in Jobs, op \in CleanupOps : CleanupStart(j, op)
             \/ UNCHANGED vars
    BY <2>4 DEF Dispatch, CleanupStart, vars
  <2>5. QED  BY <2>1, <2>2, <2>3, <2>4 DEF Next
<1>6. QED  BY <1>1, <1>2, <1>3, <1>4, <1>5

(***************************************************************************)
(* Theorems                                                                *)
(***************************************************************************)

\* The strengthened invariant holds initially and every step preserves it.
THEOREM IInvInvariant == Spec => []IInv
<1>1. Init => IInv
  <2> USE ConstantsAssumption DEF Init, Nothing, NoReceipt, NoCleanup, Kinds
  <2>1. Init => TypeOK /\ TaskHasJob
    BY DEF TypeOK, TaskHasJob, TaskPcs, Statuses, Problems, Receipts, Cleanups
  <2>2. Init => Progress /\ Resolved  BY DEF Progress, Resolved
  <2>3. Init => CleanupInv /\ ReceiptAccounts  BY DEF CleanupInv, ReceiptAccounts
  <2>4. Init => SucceededComplete /\ RecordedReadBack /\ RefitChain /\ AbandonedByFault
    BY DEF SucceededComplete, RecordedReadBack, RefitChain, AbandonedByFault
  <2>5. QED  BY <2>1, <2>2, <2>3, <2>4 DEF IInv
<1>2. IInv /\ [Next]_vars => IInv'
  <2> SUFFICES ASSUME IInv, [Next]_vars PROVE IInv'  OBVIOUS
  <2>1. TypeOK' /\ TaskHasJob'  BY TypeStep DEF IInv
  <2>2. QED  BY <2>1, PublishStep, CleanupInvStep, OutcomeStep DEF IInv
<1>3. QED  BY <1>1, <1>2, PTL DEF Spec

\* Every variable stays in its range; no task is retried past max_retries.
THEOREM TypeCorrect == Spec => []TypeOK
<1>1. IInv => TypeOK  BY DEF IInv
<1>2. QED  BY <1>1, IInvInvariant, PTL

\* However often the sweep duplicates an execution and wherever workers die, a
\* succeeded row has its scorer and both artifacts and carries no refusal.
THEOREM SucceededCompleteHolds == Spec => []SucceededComplete
<1>1. IInv => SucceededComplete  BY DEF IInv
<1>2. QED  BY <1>1, IInvInvariant, PTL

\* An artifact a row owns is in the store unless a cleanup of the row deleted it.
THEOREM RecordedReadBackHolds == Spec => []RecordedReadBack
<1>1. IInv => RecordedReadBack  BY DEF IInv
<1>2. QED  BY <1>1, IInvInvariant, PTL

\* A published refit stands on a published previous scorer.
THEOREM RefitChainHolds == Spec => []RefitChain
<1>1. IInv => RefitChain  BY DEF IInv
<1>2. QED  BY <1>1, IInvInvariant, PTL

\* A cleanup receipt lists owned artifacts whose deletion was acknowledged.
THEOREM ReceiptAccountsHolds == Spec => []ReceiptAccounts
<1>1. IInv => ReceiptAccounts  BY DEF IInv
<1>2. QED  BY <1>1, IInvInvariant, PTL

\* A lease without an execution or a message has lost an execution since it was
\* last claimed: to a crash, an escaping exception or an unpublished retry.
THEOREM AbandonedByFaultHolds == Spec => []AbandonedByFault
<1>1. IInv => AbandonedByFault  BY DEF IInv
<1>2. QED  BY <1>1, IInvInvariant, PTL

\* Published scorers, receipts and ownership records survive every replay.
THEOREM ImmutableHolds == Spec => Immutable
<1> DEFINE Kept == \A j \in Jobs :
                     /\ j \in scorer => j \in scorer'
                     /\ receipt[j] # NoReceipt => receipt'[j] = receipt[j]
                     /\ keys[j] \subseteq keys'[j]
<1>1. IInv /\ [Next]_vars => [Kept]_vars
  BY MonotoneStep
<1>2. QED  BY <1>1, IInvInvariant, PTL DEF Spec, Immutable
=============================================================================
