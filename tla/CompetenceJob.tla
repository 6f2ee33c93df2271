--------------------------- MODULE CompetenceJob ---------------------------
(***************************************************************************)
(* The theorem.competence.v1 job service: apps/competence/{api,tasks}.py.  *)
(*                                                                         *)
(* A row of control_competence_job is submitted by the API, dispatched on  *)
(* commit to a Celery worker, fitted, published as two content-addressed   *)
(* objects, and may later be cleaned up by the API.  A periodic sweep puts *)
(* stale running rows back to queued and redispatches everything queued.   *)
(*                                                                         *)
(* Every block under select_for_update is one atomic step; everything      *)
(* between two such blocks interleaves with the other workers, the sweep   *)
(* and the API.  cleanup_competence_job keeps the row lock while it talks  *)
(* to the object store, so its steps are separate and block row updates.   *)
(***************************************************************************)
EXTENDS Integers, FiniteSets

CONSTANTS
    Jobs,          \* operation ids of one tenant and project
    Tasks,         \* Celery task ids; an id nobody refers to any more is fresh
    NoJob, NoTask, \* "no previous scorer", celery_task_id = ""
    Previous,      \* Previous[j]: the job whose scorer a refit names, or NoJob
    Refusable,     \* jobs whose evidence fit_competence refuses
    CleanupOps,    \* cleanup_operation_ids clients use
    MaxRetries,    \* max_retries of the shared task (3 in the code)
    BatchSize,     \* COMPETENCE_SWEEP_BATCH_SIZE
    MaxFaults,     \* bound: crashes, storage and database errors, lost messages
    MaxEarly       \* bound: recoveries of a row some worker still works on

ASSUME ConstantsAssumption ==
    /\ IsFiniteSet(Jobs)
    /\ NoJob \notin Jobs /\ NoTask \notin Tasks
    /\ Previous \in [Jobs -> Jobs \cup {NoJob}]
    /\ Refusable \subseteq Jobs
    /\ "nothing" \notin CleanupOps
    /\ MaxRetries \in Nat /\ BatchSize \in Nat \ {0}
    /\ MaxFaults \in Nat /\ MaxEarly \in Nat

Kinds == {"prior", "model"}            \* prior_pack and scorer_model objects
Statuses == {"absent", "queued", "running", "succeeded", "failed", "refused",
             "canceled"}
Problems == {"refusal", "storage", "invalid", "unexpected"}
Nothing == "nothing"                   \* an empty JSON column

VARIABLES
    status,    \* status of each row; "absent" before the insert
    owner,     \* celery_task_id
    scorer,    \* rows whose scorer_json is written (its value is a function of
               \* the row's immutable request, so only presence is kept)
    refusal,   \* refusal_json
    keys,      \* artifact_keys_json: kinds the row owns
    receipt,   \* cleanup_request_digest and cleanup_receipt_json
    age,       \* created_at as a rank, 0 while absent
    stored,    \* object store: kinds of the job that exist
    deleted,   \* history: kinds a cleanup has deleted at least once
    dropped,   \* history: rows an execution of which ended without writing an
               \* outcome since the row was last claimed
    undispatched, \* rows committed whose on_commit callback has not run
    pc, at, part, retries, problem,   \* one Celery task execution each
    sweepPc, batch,                   \* the sweep task
    cleaning,  \* the cleanup transaction holding the row lock
    faults, early

rowVars   == <<status, owner, scorer, refusal, keys, receipt, age>>
storeVars == <<stored, deleted, dropped>>
taskVars  == <<pc, at, part, retries, problem>>
sweepVars == <<sweepPc, batch>>
vars == <<rowVars, storeVars, taskVars, sweepVars, undispatched, cleaning,
          faults, early>>

Working == {"fit", "put", "read", "record", "finish", "problem"}
TaskPcs == {"free", "sent"} \cup Working
NoReceipt == [op |-> Nothing, ids |-> {}]
NoCleanup == [op |-> Nothing, ids |-> {}, left |-> {}]
\* The digest of a cleanup request covers its operation id and artifact ids.
Receipts == [op : CleanupOps \cup {Nothing}, ids : SUBSET Kinds]
Cleanups == [op : CleanupOps \cup {Nothing}, ids : SUBSET Kinds, left : SUBSET Kinds]

\* Type invariant: every column, object and worker local stays in its range; in
\* particular a task is never retried more than max_retries times.
TypeOK ==
    /\ status \in [Jobs -> Statuses]
    /\ owner \in [Jobs -> Tasks \cup {NoTask}]
    /\ scorer \subseteq Jobs
    /\ refusal \in [Jobs -> Problems \cup {Nothing}]
    /\ keys \in [Jobs -> SUBSET Kinds]
    /\ receipt \in [Jobs -> Receipts]
    /\ age \in [Jobs -> Nat]
    /\ stored \in [Jobs -> SUBSET Kinds]
    /\ deleted \in [Jobs -> SUBSET Kinds]
    /\ dropped \subseteq Jobs
    /\ undispatched \subseteq Jobs
    /\ pc \in [Tasks -> TaskPcs]
    /\ at \in [Tasks -> Jobs \cup {NoJob}]
    /\ part \in [Tasks -> Kinds]
    /\ retries \in [Tasks -> 0..MaxRetries]
    /\ problem \in [Tasks -> Problems]
    /\ sweepPc \in {"idle", "list", "send"}
    /\ batch \subseteq Jobs
    /\ cleaning \in [Jobs -> Cleanups]
    /\ faults \in 0..MaxFaults
    /\ early \in 0..MaxEarly

Init ==
    /\ status = [j \in Jobs |-> "absent"]
    /\ owner = [j \in Jobs |-> NoTask]
    /\ scorer = {}
    /\ refusal = [j \in Jobs |-> Nothing]
    /\ keys = [j \in Jobs |-> {}]
    /\ receipt = [j \in Jobs |-> NoReceipt]
    /\ age = [j \in Jobs |-> 0]
    /\ stored = [j \in Jobs |-> {}]
    /\ deleted = [j \in Jobs |-> {}]
    /\ dropped = {}
    /\ undispatched = {}
    /\ pc = [t \in Tasks |-> "free"]
    /\ at = [t \in Tasks |-> NoJob]
    /\ part = [t \in Tasks |-> "prior"]
    /\ retries = [t \in Tasks |-> 0]
    /\ problem = [t \in Tasks |-> "unexpected"]
    /\ sweepPc = "idle"
    /\ batch = {}
    /\ cleaning = [j \in Jobs |-> NoCleanup]
    /\ faults = 0
    /\ early = 0

(***************************************************************************)
(* Helpers                                                                 *)
(***************************************************************************)
Unlocked(j) == cleaning[j] = NoCleanup

Fault == faults < MaxFaults /\ faults' = faults + 1

Fresh(t) == pc[t] = "free" /\ \A j \in Jobs : owner[j] # t

\* run_competence_fit.delay(j) under the fresh task id t.
Delay(j, t) ==
    /\ Fresh(t)
    /\ pc' = [pc EXCEPT ![t] = "sent"]
    /\ at' = [at EXCEPT ![t] = j]
    /\ retries' = [retries EXCEPT ![t] = 0]
    /\ UNCHANGED <<part, problem>>

\* Task t ends: its locals are gone.
EndTask(t) ==
    /\ pc' = [pc EXCEPT ![t] = "free"]
    /\ at' = [at EXCEPT ![t] = NoJob]
    /\ part' = [part EXCEPT ![t] = "prior"]
    /\ retries' = [retries EXCEPT ![t] = 0]
    /\ problem' = [problem EXCEPT ![t] = "unexpected"]

\* Task t ends without an outcome: the process died, or an exception left the
\* task function, which no broker redelivers.
Drop(t) ==
    /\ dropped' = dropped \cup {at[t]}
    /\ EndTask(t)
    /\ Fault

Goto(t, label) ==
    /\ pc' = [pc EXCEPT ![t] = label]
    /\ UNCHANGED <<at, part, retries, problem>>

\* The exception handler of run_competence_fit has chosen _finish_problem.
Raise(t, p) ==
    /\ pc' = [pc EXCEPT ![t] = "problem"]
    /\ problem' = [problem EXCEPT ![t] = p]
    /\ UNCHANGED <<at, part, retries>>

\* Some execution of j is alive: at work, or waiting for its retry countdown.
Attended(j) ==
    \E t \in Tasks : at[t] = j /\ (pc[t] \in Working \/ retries[t] > 0)

(***************************************************************************)
(* API: POST /fit and /refit                                               *)
(***************************************************************************)
\* _submit under the tenant lock.  A replay of a known operation id either
\* reuses the row or is refused with 409, and changes nothing.
Submit(j) ==
    /\ status[j] = "absent"
    /\ status' = [status EXCEPT ![j] = "queued"]
    /\ age' = [age EXCEPT ![j] =
                 Cardinality({i \in Jobs : status[i] # "absent"}) + 1]
    /\ undispatched' = undispatched \cup {j}
    /\ UNCHANGED <<owner, scorer, refusal, keys, receipt, storeVars, taskVars,
                   sweepVars, cleaning, faults, early>>

\* _dispatch_competence_job, after the commit.
Dispatch(j, t) ==
    /\ j \in undispatched
    /\ undispatched' = undispatched \ {j}
    /\ Delay(j, t)
    /\ UNCHANGED <<rowVars, storeVars, sweepVars, cleaning, faults, early>>

\* The broker refuses the message (the exception is logged and swallowed), or
\* the web process dies between the commit and the callback.
DispatchLost(j) ==
    /\ j \in undispatched
    /\ undispatched' = undispatched \ {j}
    /\ Fault
    /\ UNCHANGED <<rowVars, storeVars, taskVars, sweepVars, cleaning, early>>

(***************************************************************************)
(* Worker: run_competence_fit                                              *)
(***************************************************************************)
\* _claim_job, then the status test at the top of the task.  A row running
\* under another task id is returned as it is - still running - so the task
\* goes on without the lease.
Claim(t) ==
    LET j == at[t] IN
    /\ pc[t] = "sent"
    /\ Unlocked(j)
    /\ \/ /\ status[j] \in {"succeeded", "refused", "canceled"}
          /\ EndTask(t)
          /\ UNCHANGED <<rowVars, dropped>>
       \/ /\ status[j] = "running" /\ owner[j] \notin {NoTask, t}
          /\ Goto(t, "fit")
          /\ UNCHANGED <<rowVars, dropped>>
       \/ /\ \/ status[j] \in {"queued", "failed"}
             \/ status[j] = "running" /\ owner[j] \in {NoTask, t}
          /\ status' = [status EXCEPT ![j] = "running"]
          /\ owner' = [owner EXCEPT ![j] = t]
          /\ refusal' = [refusal EXCEPT ![j] = Nothing]
          /\ dropped' = dropped \ {j}
          /\ Goto(t, "fit")
          /\ UNCHANGED <<scorer, keys, receipt, age>>
    /\ UNCHANGED <<stored, deleted, sweepVars, undispatched, cleaning, faults, early>>

\* Mutant of PreviousResolved: any earlier row of the project will do.
PreviousExists(j) ==
    \/ Previous[j] = NoJob
    \/ Previous[j] # j /\ status[Previous[j]] # "absent"

\* _resolve_previous finds a SUCCEEDED job with exactly the named scorer.
PreviousResolved(j) ==
    \/ Previous[j] = NoJob
    \/ /\ Previous[j] # j
       /\ status[Previous[j]] = "succeeded" /\ Previous[j] \in scorer

\* Request validation, _resolve_previous and fit_competence: reads only.
Fit(t) ==
    LET j == at[t] IN
    /\ pc[t] = "fit"
    /\ IF PreviousResolved(j) /\ j \notin Refusable
         THEN /\ pc' = [pc EXCEPT ![t] = "put"]
              /\ part' = [part EXCEPT ![t] = "prior"]
              /\ UNCHANGED <<at, retries, problem>>
         ELSE Raise(t, "refusal")
    /\ UNCHANGED <<rowVars, storeVars, sweepVars, undispatched, cleaning,
                   faults, early>>

\* write_competence_artifact: put_object ...
Put(t) ==
    /\ pc[t] = "put"
    /\ stored' = [stored EXCEPT ![at[t]] = @ \cup {part[t]}]
    /\ Goto(t, "read")
    /\ UNCHANGED <<rowVars, deleted, dropped, sweepVars, undispatched, cleaning,
                   faults, early>>

\* Mutant of RetryOrFail: the retry limit is forgotten.
RetryAlways(t) ==
    /\ pc' = [pc EXCEPT ![t] = "sent"]
    /\ retries' = [retries EXCEPT ![t] = @ + 1]
    /\ part' = [part EXCEPT ![t] = "prior"]
    /\ UNCHANGED <<at, problem>>

\* Mutant of RetryOrFail: the exception of the last retry is not turned into
\* an outcome.
RetryOrDrop(t) == IF retries[t] < MaxRetries THEN RetryAlways(t) ELSE EndTask(t)

\* self.retry while retries remain (same task id), else _finish_problem.
RetryOrFail(t) ==
    IF retries[t] < MaxRetries
      THEN /\ pc' = [pc EXCEPT ![t] = "sent"]
           /\ retries' = [retries EXCEPT ![t] = @ + 1]
           /\ part' = [part EXCEPT ![t] = "prior"]
           /\ UNCHANGED <<at, problem>>
      ELSE Raise(t, "storage")

\* ... and the readback: an object a cleanup has removed in between is a
\* storage error.
Readback(t) ==
    /\ pc[t] = "read"
    /\ IF part[t] \in stored[at[t]] THEN Goto(t, "record") ELSE RetryOrFail(t)
    /\ UNCHANGED <<rowVars, storeVars, sweepVars, undispatched, cleaning,
                   faults, early>>

\* Mutant of Record: the task finishes after the prior pack.
RecordPriorOnly(t) ==
    LET j == at[t] IN
    /\ pc[t] = "record"
    /\ Unlocked(j)
    /\ keys' = [keys EXCEPT ![j] = @ \cup {part[t]}]
    /\ Goto(t, "finish")
    /\ UNCHANGED <<status, owner, scorer, refusal, receipt, age, storeVars,
                   sweepVars, undispatched, cleaning, faults, early>>

\* _record_artifact under the row lock.  The key is a function of the content,
\* so a kind already bound is bound to the same key.
Record(t) ==
    LET j == at[t] IN
    /\ pc[t] = "record"
    /\ Unlocked(j)
    /\ keys' = [keys EXCEPT ![j] = @ \cup {part[t]}]
    /\ IF part[t] = "prior"
         THEN /\ pc' = [pc EXCEPT ![t] = "put"]
              /\ part' = [part EXCEPT ![t] = "model"]
              /\ UNCHANGED <<at, retries, problem>>
         ELSE Goto(t, "finish")
    /\ UNCHANGED <<status, owner, scorer, refusal, receipt, age, storeVars,
                   sweepVars, undispatched, cleaning, faults, early>>

\* _finish_success under the row lock.
FinishSuccess(t) ==
    LET j == at[t] IN
    /\ pc[t] = "finish"
    /\ Unlocked(j)
    /\ IF status[j] = "running"
         THEN /\ status' = [status EXCEPT ![j] = "succeeded"]
              /\ scorer' = scorer \cup {j}
              /\ keys' = [keys EXCEPT ![j] = Kinds]
              /\ refusal' = [refusal EXCEPT ![j] = Nothing]
              /\ UNCHANGED <<owner, receipt, age>>
         ELSE UNCHANGED rowVars
    /\ EndTask(t)
    /\ UNCHANGED <<storeVars, sweepVars, undispatched, cleaning, faults, early>>

\* Mutant of FinishProblem: a succeeded row keeps its status, yet takes the
\* refusal of the late duplicate.
FinishProblemHalf(t) ==
    LET j == at[t] IN
    /\ pc[t] = "problem"
    /\ Unlocked(j)
    /\ status' = [status EXCEPT ![j] =
          IF @ = "succeeded" THEN @
          ELSE IF problem[t] = "refusal" THEN "refused" ELSE "failed"]
    /\ refusal' = [refusal EXCEPT ![j] = problem[t]]
    /\ UNCHANGED <<owner, scorer, keys, receipt, age>>
    /\ EndTask(t)
    /\ UNCHANGED <<storeVars, sweepVars, undispatched, cleaning, faults, early>>

\* _finish_problem under the row lock: only CANCELED is respected.
FinishProblem(t) ==
    LET j == at[t] IN
    /\ pc[t] = "problem"
    /\ Unlocked(j)
    /\ IF status[j] # "canceled"
         THEN /\ status' = [status EXCEPT ![j] =
                   IF problem[t] = "refusal" THEN "refused" ELSE "failed"]
              /\ refusal' = [refusal EXCEPT ![j] = problem[t]]
              /\ UNCHANGED <<owner, scorer, keys, receipt, age>>
         ELSE UNCHANGED rowVars
    /\ EndTask(t)
    /\ UNCHANGED <<storeVars, sweepVars, undispatched, cleaning, faults, early>>

\* ArtifactStorageError or ArtifactConfigurationError; a put may or may not
\* have taken effect before the error.
StorageError(t) ==
    /\ pc[t] \in {"put", "read"}
    /\ \/ UNCHANGED stored
       \/ /\ pc[t] = "put"
          /\ stored' = [stored EXCEPT ![at[t]] = @ \cup {part[t]}]
    /\ RetryOrFail(t)
    /\ Fault
    /\ UNCHANGED <<rowVars, deleted, dropped, sweepVars, undispatched, cleaning, early>>

\* ArtifactValidationError (too large, readback differs) or any other
\* exception inside the try, a database error in a locked block included.
UnexpectedError(t) ==
    /\ \/ pc[t] \in {"put", "read"} /\ Raise(t, "invalid")
       \/ pc[t] \in Working \ {"problem"} /\ Raise(t, "unexpected")
    /\ Fault
    /\ UNCHANGED <<rowVars, storeVars, sweepVars, undispatched, cleaning, early>>

\* A database error outside the try: _claim_job runs before it, _finish_problem
\* in its handlers.  The transaction rolls back and the exception ends the task.
EscapingError(t) ==
    /\ pc[t] \in {"sent", "problem"}
    /\ Drop(t)
    /\ UNCHANGED <<rowVars, stored, deleted, sweepVars, undispatched, cleaning,
                   early>>

\* The storage failed and so does the broker: self.retry cannot publish and
\* Celery rejects the message.  The handler is left, the row stays as it is.
RetryLost(t) ==
    /\ pc[t] \in {"put", "read"}
    /\ retries[t] < MaxRetries
    /\ \/ UNCHANGED stored
       \/ /\ pc[t] = "put"
          /\ stored' = [stored EXCEPT ![at[t]] = @ \cup {part[t]}]
    /\ Drop(t)
    /\ UNCHANGED <<rowVars, deleted, sweepVars, undispatched, cleaning, early>>

\* The worker process dies; the message was acknowledged on receipt.
WorkerCrash(t) ==
    /\ pc[t] \in Working
    /\ Drop(t)
    /\ UNCHANGED <<rowVars, stored, deleted, sweepVars, undispatched, cleaning,
                   early>>

(***************************************************************************)
(* Beat: sweep_competence_jobs                                             *)
(***************************************************************************)
\* Mutant of SweepRecover: nothing is ever stale.
SweepSkipsRecovery ==
    /\ sweepPc = "idle"
    /\ sweepPc' = "list"
    /\ UNCHANGED <<rowVars, storeVars, taskVars, batch, undispatched, cleaning,
                   faults, early>>

\* The locked update of the rows that have been stale for too long.  Time is
\* not modelled: any running row may be stale, but recovering a row that a
\* live execution still works on spends the MaxEarly bound.
SweepRecover ==
    /\ sweepPc = "idle"
    /\ \E stale \in SUBSET {j \in Jobs : status[j] = "running" /\ Unlocked(j)} :
         /\ early' = early + Cardinality({j \in stale : Attended(j)})
         /\ early' <= MaxEarly
         /\ status' = [j \in Jobs |->
                         IF j \in stale THEN "queued" ELSE status[j]]
         /\ owner' = [j \in Jobs |-> IF j \in stale THEN NoTask ELSE owner[j]]
    /\ sweepPc' = "list"
    /\ UNCHANGED <<scorer, refusal, keys, receipt, age, storeVars, taskVars,
                   batch, undispatched, cleaning, faults>>

\* The oldest queued rows, at most BatchSize of them.
OldestQueued(S) ==
    LET queued == {j \in Jobs : status[j] = "queued"} IN
    /\ S \subseteq queued
    /\ \A a \in S, b \in queued \ S : age[a] < age[b]
    /\ Cardinality(S) = BatchSize \/ (S = queued /\ Cardinality(S) < BatchSize)

SweepList ==
    /\ sweepPc = "list"
    /\ \E S \in SUBSET Jobs : OldestQueued(S) /\ batch' = S
    /\ sweepPc' = "send"
    /\ UNCHANGED <<rowVars, storeVars, taskVars, undispatched, cleaning,
                   faults, early>>

SweepSend(j, t) ==
    /\ sweepPc = "send"
    /\ j \in batch
    /\ batch' = batch \ {j}
    /\ Delay(j, t)
    /\ UNCHANGED <<rowVars, storeVars, sweepPc, undispatched, cleaning,
                   faults, early>>

SweepDone ==
    /\ sweepPc = "send" /\ batch = {}
    /\ sweepPc' = "idle"
    /\ UNCHANGED <<rowVars, storeVars, taskVars, batch, undispatched, cleaning,
                   faults, early>>

\* The process running the sweep dies, or the broker refuses a message.
SweepCrash ==
    /\ sweepPc # "idle"
    /\ sweepPc' = "idle" /\ batch' = {}
    /\ Fault
    /\ UNCHANGED <<rowVars, storeVars, taskVars, undispatched, cleaning, early>>

(***************************************************************************)
(* API: POST /jobs/{job_id}/cleanup                                        *)
(***************************************************************************)
\* Mutant of CleanupStart: an existing receipt is not looked at.
CleanupStartAgain(j, op) ==
    /\ Unlocked(j)
    /\ status[j] # "absent"
    /\ keys[j] # {}
    /\ cleaning' = [cleaning EXCEPT ![j] =
                      [op |-> op, ids |-> keys[j], left |-> keys[j]]]
    /\ UNCHANGED <<rowVars, storeVars, taskVars, sweepVars, undispatched,
                   faults, early>>

\* Takes the row lock and passes every check.  A replay (same or other digest)
\* and a request that does not name exactly the owned artifacts change nothing.
CleanupStart(j, op) ==
    /\ Unlocked(j)
    /\ status[j] # "absent"
    /\ receipt[j] = NoReceipt
    /\ keys[j] # {}
    /\ cleaning' = [cleaning EXCEPT ![j] =
                      [op |-> op, ids |-> keys[j], left |-> keys[j]]]
    /\ UNCHANGED <<rowVars, storeVars, taskVars, sweepVars, undispatched,
                   faults, early>>

CleanupDelete(j, k) ==
    /\ k \in cleaning[j].left
    /\ cleaning' = [cleaning EXCEPT ![j].left = @ \ {k}]
    /\ stored' = [stored EXCEPT ![j] = @ \ {k}]
    /\ deleted' = [deleted EXCEPT ![j] = @ \cup {k}]
    /\ UNCHANGED <<rowVars, taskVars, sweepVars, undispatched, dropped, faults,
                   early>>

\* Mutant of CleanupCommit: a failed delete does not keep the receipt back.
CleanupCommitEarly(j) ==
    /\ ~Unlocked(j)
    /\ receipt' = [receipt EXCEPT ![j] =
                     [op |-> cleaning[j].op, ids |-> cleaning[j].ids]]
    /\ cleaning' = [cleaning EXCEPT ![j] = NoCleanup]
    /\ UNCHANGED <<status, owner, scorer, refusal, keys, age, storeVars,
                   taskVars, sweepVars, undispatched, faults, early>>

\* The receipt is saved and the lock released.
CleanupCommit(j) ==
    /\ ~Unlocked(j)
    /\ cleaning[j].left = {}
    /\ receipt' = [receipt EXCEPT ![j] =
                     [op |-> cleaning[j].op, ids |-> cleaning[j].ids]]
    /\ cleaning' = [cleaning EXCEPT ![j] = NoCleanup]
    /\ UNCHANGED <<status, owner, scorer, refusal, keys, age, storeVars,
                   taskVars, sweepVars, undispatched, faults, early>>

\* 503 from the store or a dead web process: the transaction leaves no trace,
\* the deletes already made stay.
CleanupFail(j) ==
    /\ ~Unlocked(j)
    /\ cleaning' = [cleaning EXCEPT ![j] = NoCleanup]
    /\ Fault
    /\ UNCHANGED <<rowVars, storeVars, taskVars, sweepVars, undispatched, early>>

(***************************************************************************)
(* Specification                                                           *)
(***************************************************************************)
WorkerStep(t) ==
    \/ Claim(t) \/ Fit(t) \/ Put(t) \/ Readback(t) \/ Record(t)
    \/ FinishSuccess(t) \/ FinishProblem(t)

SweepStep ==
    \/ SweepRecover \/ SweepList \/ SweepDone
    \/ \E j \in Jobs, t \in Tasks : SweepSend(j, t)

CleanupStep(j) ==
    \/ \E k \in Kinds : CleanupDelete(j, k)
    \/ CleanupCommit(j)

Next ==
    \/ \E j \in Jobs : Submit(j) \/ DispatchLost(j) \/ CleanupFail(j)
                       \/ CleanupStep(j)
    \/ \E j \in Jobs, t \in Tasks : Dispatch(j, t)
    \/ \E j \in Jobs, op \in CleanupOps : CleanupStart(j, op)
    \/ \E t \in Tasks : WorkerStep(t) \/ StorageError(t) \/ UnexpectedError(t)
                        \/ EscapingError(t) \/ RetryLost(t) \/ WorkerCrash(t)
    \/ SweepStep
    \/ SweepCrash

Spec == Init /\ [][Next]_vars

\* A sweep that recovers a row nobody works on any more.
RecoverAbandoned(j) ==
    /\ SweepRecover
    /\ status[j] = "running" /\ ~Attended(j)
    /\ status'[j] = "queued"

\* Workers that are alive go on; beat fires the sweep again and again; a web
\* process finishes a cleanup or dies.  updated_at of an abandoned row no longer
\* moves, so some sweep finds it stale.
Fairness ==
    /\ \A t \in Tasks : WF_vars(WorkerStep(t))
    /\ WF_vars(SweepStep)
    /\ \A j \in Jobs : WF_vars(CleanupStep(j)) /\ SF_vars(RecoverAbandoned(j))

FairSpec == Spec /\ Fairness

(***************************************************************************)
(* Properties                                                              *)
(***************************************************************************)
\* GET /jobs/{id} never meets a succeeded row without its scorer, without both
\* owned artifacts, or with a leftover refusal - whatever duplicate executions,
\* retries and recoveries preceded it.
SucceededComplete ==
    \A j \in Jobs : status[j] = "succeeded" =>
        j \in scorer /\ keys[j] = Kinds /\ refusal[j] = Nothing

\* An artifact a row owns was in the store when it was recorded: it is still
\* there, or a cleanup of that very job has deleted it.  In particular no row
\* succeeds before both objects passed the readback.
RecordedReadBack ==
    \A j \in Jobs : keys[j] \subseteq stored[j] \cup deleted[j]

\* A refit is only ever published on top of a published scorer.
RefitChain ==
    \A j \in Jobs : j \in scorer /\ Previous[j] # NoJob => Previous[j] \in scorer

\* A cleanup receipt lists only objects whose deletion was acknowledged, and
\* only objects the row owns.
ReceiptAccounts ==
    \A j \in Jobs : receipt[j] # NoReceipt =>
        /\ receipt[j].ids # {}
        /\ receipt[j].ids \subseteq deleted[j] \cap keys[j]

\* A running row that has neither an execution nor a message has lost an
\* execution since it was last claimed, to a crash, to a database error outside
\* the task's try, or to a retry the broker did not take.  No return path of the
\* task ends with the lease still held, however often the row was recovered.
AbandonedByFault ==
    \A j \in Jobs : status[j] = "running" /\ (\A t \in Tasks : at[t] # j)
                      => j \in dropped

\* A published scorer is never withdrawn, a receipt never rewritten, and an
\* owned artifact never disowned, by any replay of any handler.
Immutable ==
    [][\A j \in Jobs :
         /\ j \in scorer => j \in scorer'
         /\ receipt[j] # NoReceipt => receipt'[j] = receipt[j]
         /\ keys[j] \subseteq keys'[j]]_vars

\* Every admitted job reaches an outcome, although dispatches are lost and
\* workers die: the sweep brings it back.
Settles ==
    \A j \in Jobs : status[j] = "queued" ~>
        status[j] \in {"succeeded", "failed", "refused"}

(***************************************************************************)
(* What the documents say and the code does not keep                       *)
(***************************************************************************)
\* "Fit/refit output is immutable": a job reported as succeeded stays so.
SucceededStable ==
    [][\A j \in Jobs : status[j] = "succeeded" => status'[j] = "succeeded"]_vars
=============================================================================
