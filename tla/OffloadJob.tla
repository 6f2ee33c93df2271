----------------------------- MODULE OffloadJob -----------------------------
(***************************************************************************)
(* Offload jobs: apps/orchestration/{api,tasks,runpod}.py.                 *)
(*                                                                         *)
(* A row of control_job is created under the tenant lock, dispatched to a  *)
(* Celery worker after the commit, and executed on RunPod (or on the R     *)
(* queue).  Nothing after the creation takes a lock: workers, the cancel   *)
(* route, the cancel task and the admin's re-run each read the row, act on *)
(* what they read and save some of its columns, so every read and every    *)
(* save is a step of its own.                                              *)
(***************************************************************************)
EXTENDS Integers, FiniteSets

CONSTANTS
    Jobs,       \* operation ids of one tenant, numbered as they are invoked
    Execs,      \* Celery messages of dispatch_offload and run_offload_r,
                \* numbered as they are sent; each is sent once
    None,       \* no execution
    Scenarios   \* bounds: [queues, jobs, messages, cancels, limit,
                \* reruns, faults, others], where the operations run ("runpod", or "r" for
                \* data_science.r.*), how many jobs and messages, whether users
                \* cancel, plan.limits.concurrent_jobs, how many re-runs of a job
                \* and faults, and how many rows of other producers may be
                \* active at a time

ASSUME ConstantsAssumption ==
    /\ IsFiniteSet(Jobs) /\ Jobs \subseteq Nat /\ Execs \subseteq Nat
    /\ None \notin Execs /\ None \notin Jobs
    /\ \A s \in Scenarios :
        /\ s.queues \subseteq {"runpod", "r"}
        /\ {s.jobs, s.messages, s.limit, s.reruns, s.faults, s.others} \subseteq Nat
        /\ s.cancels \in BOOLEAN

VARIABLES
    scenario,  \* one of Scenarios; never changes
    status, taskId, remoteRef, output, error,  \* columns of the row
    queue,     \* column operation: where it runs
    object,    \* object store: the execution that wrote the output key last
    api,       \* tail of invoke_offload / re_run_job after the row is saved
    apiId,     \* the id delay() returned to it
    cancelApi, \* cancel_offload_job
    cancelTask, cancelRef,   \* cancel_job_task and the remote id it has read
                             \* (kept when it has ended, as history)
    revoked,   \* task ids revoked by cancel_job_task
    pc, job, seen, snap,     \* one execution: position, job, remote status
                             \* and refreshed row it holds
    remote,    \* RunPod: the remote job an execution has submitted
    reopened,  \* history: rows made active again after they were terminal
    others,    \* active rows of the tenant in control_job that the extraction
               \* and the document service have created
    counted,   \* history: those of them the last admission has counted
    reruns, faults

rowVars == <<status, taskId, remoteRef, output, error>>
apiVars == <<api, apiId, cancelApi>>
cancelVars == <<cancelTask, cancelRef, revoked>>
execVars == <<pc, job, seen, snap>>
envVars == <<object, remote, queue>>
quotaVars == <<others, counted>>
countVars == <<scenario, quotaVars, reopened, reruns, faults>>
vars == <<rowVars, apiVars, cancelVars, execVars, envVars, countVars>>

Active == {"queued", "running"}                    \* ACTIVE_JOB_STATUSES
Terminal == {"succeeded", "failed", "canceled"}
RemoteStates == {"none", "active", "completed", "failed", "cancelled"}
\* Positions of an execution that is under way.
Busy == {"dispatch", "rdelay", "rsaveid", "run", "submit", "persist", "poll",
         "update", "abandon", "deadline", "verify", "rrun", "complete",
         "final", "failing", "failsave"}
Snaps == [taskId : Execs \cup {None}, remoteRef : Execs \cup {None},
          error : {"", "error"}]
NoSnap == [taskId |-> None, remoteRef |-> None, error |-> ""]

\* Type invariant: every column and every worker local stays in its range.
TypeOK ==
    /\ scenario \in Scenarios
    /\ status \in [Jobs -> {"absent"} \cup Active \cup Terminal]
    /\ taskId \in [Jobs -> Execs \cup {None}]
    /\ remoteRef \in [Jobs -> Execs \cup {None}]
    /\ output \in [Jobs -> Execs \cup {None}]
    /\ error \in [Jobs -> {"", "error"}]
    /\ queue \in [Jobs -> scenario.queues \cup {"none"}]
    /\ object \in [Jobs -> Execs \cup {None}]
    /\ api \in [Jobs -> {"idle", "delay", "saveid"}]
    /\ apiId \in [Jobs -> Execs \cup {None}]
    /\ cancelApi \in [Jobs -> {"idle", "save", "done"}]
    /\ cancelTask \in [Jobs -> {"idle", "sent", "remote", "save"}]
    /\ cancelRef \in [Jobs -> Execs \cup {None}]
    /\ revoked \subseteq Execs
    /\ pc \in [Execs -> {"unused", "sent", "rsent", "done"} \cup Busy]
    /\ job \in [Execs -> Jobs \cup {None}]
    /\ seen \in [Execs -> RemoteStates]
    /\ snap \in [Execs -> Snaps]
    /\ remote \in [Execs -> RemoteStates]
    /\ reopened \subseteq Jobs
    /\ others \in 0..scenario.others /\ counted \in 0..others
    /\ reruns \in [Jobs -> 0..scenario.reruns]
    /\ faults \in 0..scenario.faults

Init ==
    /\ scenario \in Scenarios
    /\ status = [j \in Jobs |-> "absent"]
    /\ taskId = [j \in Jobs |-> None]
    /\ remoteRef = [j \in Jobs |-> None]
    /\ output = [j \in Jobs |-> None]
    /\ error = [j \in Jobs |-> ""]
    /\ queue = [j \in Jobs |-> "none"]
    /\ object = [j \in Jobs |-> None]
    /\ api = [j \in Jobs |-> "idle"]
    /\ apiId = [j \in Jobs |-> None]
    /\ cancelApi = [j \in Jobs |-> "idle"]
    /\ cancelTask = [j \in Jobs |-> "idle"]
    /\ cancelRef = [j \in Jobs |-> None]
    /\ revoked = {}
    /\ pc = [e \in Execs |-> "unused"]
    /\ job = [e \in Execs |-> None]
    /\ seen = [e \in Execs |-> "none"]
    /\ snap = [e \in Execs |-> NoSnap]
    /\ remote = [e \in Execs |-> "none"]
    /\ reopened = {}
    /\ others = 0 /\ counted = 0
    /\ reruns = [j \in Jobs |-> 0]
    /\ faults = 0

(***************************************************************************)
(* Helpers                                                                 *)
(***************************************************************************)
Limit == scenario.limit

ActiveJobs == {j \in Jobs : status[j] \in Active}

Fault == faults < scenario.faults /\ faults' = faults + 1

Goto(e, label) ==
    /\ pc' = [pc EXCEPT ![e] = label]
    /\ UNCHANGED <<job, seen, snap>>

NextMessage(e) ==
    /\ e <= scenario.messages /\ pc[e] = "unused"
    /\ \A d \in Execs : d < e => pc[d] # "unused"

\* delay() / apply_async(): message e for job j enters its queue.
Send(j, e, label) ==
    /\ NextMessage(e)
    /\ pc' = [pc EXCEPT ![e] = label]
    /\ job' = [job EXCEPT ![e] = j]
    /\ UNCHANGED <<seen, snap>>

\* Job.objects.get and the guard that opens most functions: a canceled row
\* ends the execution.
EndIfCanceled(e, next) ==
    Goto(e, IF status[job[e]] = "canceled" THEN "done" ELSE next)

(***************************************************************************)
(* API: POST /invoke and the admin's re-run                                *)
(***************************************************************************)
\* An operation id that has no row yet, for an operation that runs on q.
New(j, q) ==
    /\ status[j] = "absent" /\ q \in scenario.queues
    /\ j <= scenario.jobs
    /\ \A i \in Jobs : i < j => status[i] # "absent"

\* Mutant of Admissible: the quota is compared with <=.
AdmissibleOver ==
    Cardinality(ActiveJobs) + others <= Limit

\* Mutant of Admissible: only the rows of this service count.
AdmissibleOwn ==
    Cardinality(ActiveJobs) < Limit

\* _enforce_concurrent_job_quota counts the active rows of the tenant, whoever
\* has created them.
Admissible ==
    Cardinality(ActiveJobs) + others < Limit

\* invoke_offload: idempotency and quota under the tenant lock.  A replay of a
\* known operation id and a refused one change nothing.
Invoke(j, q) ==
    /\ New(j, q)
    /\ Admissible
    /\ status' = [status EXCEPT ![j] = "queued"]
    /\ queue' = [queue EXCEPT ![j] = q]
    /\ api' = [api EXCEPT ![j] = "delay"]
    /\ counted' = others
    /\ UNCHANGED <<taskId, remoteRef, output, error, apiId, cancelApi, cancelVars,
                   execVars, object, remote, scenario, others, reopened, reruns,
                   faults>>

\* _create_orchestration_job of a shard and schedule of a document run create
\* rows of the same tenant without looking at the quota; a re-run of such a row
\* does the same.
OtherStarts ==
    /\ others < scenario.others
    /\ others' = others + 1
    /\ UNCHANGED <<rowVars, apiVars, cancelVars, execVars, envVars, scenario,
                   counted, reopened, reruns, faults>>

\* Such a row becomes terminal, one the last admission has counted or another.
OtherEnds ==
    /\ others > 0
    /\ others' = others - 1
    /\ counted' \in {counted, counted - 1} \cap 0..others - 1
    /\ UNCHANGED <<rowVars, apiVars, cancelVars, execVars, envVars, scenario,
                   reopened, reruns, faults>>

\* re_run_job saves queued whatever the status is.
ReRun(j) ==
    /\ status[j] # "absent" /\ api[j] = "idle"
    /\ reruns[j] < scenario.reruns
    /\ reruns' = [reruns EXCEPT ![j] = @ + 1]
    /\ status' = [status EXCEPT ![j] = "queued"]
    /\ error' = [error EXCEPT ![j] = ""]
    /\ reopened' = IF status[j] \in Terminal THEN reopened \cup {j} ELSE reopened
    /\ api' = [api EXCEPT ![j] = "delay"]
    /\ UNCHANGED <<taskId, remoteRef, output, apiId, cancelApi, cancelVars,
                   execVars, envVars, scenario, quotaVars, faults>>

\* Mutant of ApiDelay: a delay whose answer is lost is tried again.
ApiDelayAgain(j, e) ==
    /\ api[j] = "delay"
    /\ Send(j, e, "sent")
    /\ api' \in {api, [api EXCEPT ![j] = "saveid"]}
    /\ apiId' = [apiId EXCEPT ![j] = e]
    /\ UNCHANGED <<rowVars, cancelApi, cancelVars, envVars, countVars>>

\* dispatch_offload.delay, after the commit ...
ApiDelay(j, e) ==
    /\ api[j] = "delay"
    /\ Send(j, e, "sent")
    /\ api' = [api EXCEPT ![j] = "saveid"]
    /\ apiId' = [apiId EXCEPT ![j] = e]
    /\ UNCHANGED <<rowVars, cancelApi, cancelVars, envVars, countVars>>

\* ... and the save of the returned id alone.
ApiSaveId(j) ==
    /\ api[j] = "saveid"
    /\ taskId' = [taskId EXCEPT ![j] = apiId[j]]
    /\ api' = [api EXCEPT ![j] = "idle"]
    /\ apiId' = [apiId EXCEPT ![j] = None]
    /\ UNCHANGED <<status, remoteRef, output, error, cancelApi, cancelVars,
                   execVars, envVars, countVars>>

\* The process dies, or the broker refuses the message, after the row is saved.
ApiCrash(j) ==
    /\ api[j] # "idle"
    /\ api' = [api EXCEPT ![j] = "idle"]
    /\ apiId' = [apiId EXCEPT ![j] = None]
    /\ Fault
    /\ UNCHANGED <<rowVars, cancelApi, cancelVars, execVars, envVars, scenario,
                   quotaVars, reopened, reruns>>

(***************************************************************************)
(* API: POST /{job_id}/cancel, and cancel_job_task                         *)
(***************************************************************************)
\* cancel_offload_job reads a row that is not terminal and sends the task ...
CancelRead(j) ==
    /\ scenario.cancels /\ cancelApi[j] = "idle"
    /\ status[j] \in Active
    /\ cancelApi' = [cancelApi EXCEPT ![j] = "save"]
    /\ cancelTask' = [cancelTask EXCEPT ![j] = "sent"]
    /\ UNCHANGED <<rowVars, api, apiId, cancelRef, revoked, execVars, envVars,
                   countVars>>

\* ... then saves canceled over whatever the row has become.
CancelSave(j) ==
    /\ cancelApi[j] = "save"
    /\ cancelApi' = [cancelApi EXCEPT ![j] = "done"]
    /\ status' = [status EXCEPT ![j] = "canceled"]
    /\ UNCHANGED <<taskId, remoteRef, output, error, api, apiId, cancelVars,
                   execVars, envVars, countVars>>

\* cancel_job_task: reads the row, revokes its task, and goes on to RunPod if
\* the row names a remote job.
CancelTaskRead(j) ==
    /\ cancelTask[j] = "sent"
    /\ revoked' = revoked \cup ({taskId[j]} \ {None})
    /\ cancelRef' = [cancelRef EXCEPT ![j] = remoteRef[j]]
    /\ cancelTask' = [cancelTask EXCEPT ![j] =
                        IF remoteRef[j] = None THEN "save" ELSE "remote"]
    /\ UNCHANGED <<rowVars, apiVars, execVars, envVars, countVars>>

\* Mutant of CancelRemote: the control plane's spelling leaks into the states of
\* the RunPod API.
CancelRemoteMisspelt(r) ==
    remote' = [remote EXCEPT ![r] = IF @ = "active" THEN "canceled" ELSE @]

\* What a cancel request does to remote job r: nothing once it has ended.
CancelRemote(r) ==
    remote' = [remote EXCEPT ![r] = IF @ = "active" THEN "cancelled" ELSE @]

\* The remote cancel; an API error is logged as deferred and never retried.
CancelTaskRemote(j) ==
    /\ cancelTask[j] = "remote"
    /\ cancelTask' = [cancelTask EXCEPT ![j] = "save"]
    /\ \/ CancelRemote(cancelRef[j]) /\ UNCHANGED faults
       \/ Fault /\ UNCHANGED remote
    /\ UNCHANGED <<rowVars, apiVars, cancelRef, revoked, execVars, object,
                   queue, scenario, quotaVars, reopened, reruns>>

CancelTaskSave(j) ==
    /\ cancelTask[j] = "save"
    /\ cancelTask' = [cancelTask EXCEPT ![j] = "idle"]
    /\ status' = [status EXCEPT ![j] = "canceled"]
    /\ UNCHANGED <<taskId, remoteRef, output, error, apiVars, cancelRef, revoked,
                   execVars, envVars, countVars>>

(***************************************************************************)
(* Worker: dispatch_offload                                                *)
(***************************************************************************)
\* A worker discards a revoked message.
Discard(e) ==
    /\ pc[e] \in {"sent", "rsent"} /\ e \in revoked
    /\ Goto(e, "done")
    /\ UNCHANGED <<rowVars, apiVars, cancelVars, envVars, countVars>>

DispatchRead(e) ==
    /\ pc[e] = "sent" /\ e \notin revoked
    /\ EndIfCanceled(e, "dispatch")
    /\ UNCHANGED <<rowVars, apiVars, cancelVars, envVars, countVars>>

\* Saves running over whatever the row has become since it was read.
DispatchSave(e) ==
    LET j == job[e] IN
    /\ pc[e] = "dispatch"
    /\ status' = [status EXCEPT ![j] = "running"]
    /\ taskId' = [taskId EXCEPT ![j] = e]
    /\ reopened' = IF status[j] \in Terminal THEN reopened \cup {j} ELSE reopened
    /\ Goto(e, IF queue[j] = "r" THEN "rdelay" ELSE "run")
    /\ UNCHANGED <<remoteRef, output, error, apiVars, cancelVars, envVars,
                   scenario, quotaVars, reruns, faults>>

\* run_offload_r.apply_async on the R queue, then its id is saved.
DispatchR(e, r) ==
    /\ pc[e] = "rdelay" /\ NextMessage(r)
    /\ pc' = [pc EXCEPT ![e] = "rsaveid", ![r] = "rsent"]
    /\ job' = [job EXCEPT ![r] = job[e]]
    /\ snap' = [snap EXCEPT ![e].taskId = r]
    /\ UNCHANGED <<rowVars, apiVars, cancelVars, seen, envVars, countVars>>

DispatchRSaveId(e) ==
    /\ pc[e] = "rsaveid"
    /\ taskId' = [taskId EXCEPT ![job[e]] = snap[e].taskId]
    /\ pc' = [pc EXCEPT ![e] = "done"]
    /\ snap' = [snap EXCEPT ![e] = NoSnap]
    /\ UNCHANGED <<status, remoteRef, output, error, apiVars, cancelVars, job,
                   seen, envVars, countVars>>

(***************************************************************************)
(* Worker: _run_runpod_offload                                             *)
(***************************************************************************)
\* The read and the guard; a configuration error fails the job instead.
RunRead(e) ==
    /\ pc[e] = "run"
    /\ EndIfCanceled(e, "submit")
    /\ UNCHANGED <<rowVars, apiVars, cancelVars, envVars, countVars>>

\* client.submit: the remote job exists from here on.
Submit(e) ==
    /\ pc[e] = "submit"
    /\ remote' = [remote EXCEPT ![e] = "active"]
    /\ Goto(e, "persist")
    /\ UNCHANGED <<rowVars, apiVars, cancelVars, object, queue, countVars>>

\* The remote id is saved into kwargs_json.
Persist(e) ==
    /\ pc[e] = "persist"
    /\ remoteRef' = [remoteRef EXCEPT ![job[e]] = e]
    /\ Goto(e, "poll")
    /\ UNCHANGED <<status, taskId, output, error, apiVars, cancelVars, envVars,
                   countVars>>

\* wait: one GET status ...
Poll(e) ==
    /\ pc[e] = "poll"
    /\ pc' = [pc EXCEPT ![e] = "update"]
    /\ seen' = [seen EXCEPT ![e] = remote[e]]
    /\ UNCHANGED <<rowVars, apiVars, cancelVars, job, snap, envVars, countVars>>

\* Mutant of Update: any ended status is taken for COMPLETED, and the descriptor
\* for the output.
UpdateTrusts(e) ==
    /\ pc[e] = "update"
    /\ \/ status[job[e]] = "canceled" /\ Goto(e, "abandon")
       \/ /\ status[job[e]] # "canceled"
          /\ \/ seen[e] \in {"completed", "failed"} /\ Goto(e, "complete")
             \/ seen[e] = "active" /\ Goto(e, "poll")
             \/ seen[e] = "active" /\ Goto(e, "deadline")
    /\ UNCHANGED <<rowVars, apiVars, cancelVars, envVars, countVars>>

\* Mutant of Update: the wait has no deadline.
UpdateForever(e) ==
    /\ pc[e] = "update"
    /\ \/ status[job[e]] = "canceled" /\ Goto(e, "abandon")
       \/ /\ status[job[e]] # "canceled"
          /\ \/ seen[e] = "completed" /\ Goto(e, "verify")
             \/ seen[e] \in {"failed", "cancelled"} /\ Goto(e, "failing")
             \/ seen[e] = "active" /\ Goto(e, "poll")
    /\ UNCHANGED <<rowVars, apiVars, cancelVars, envVars, countVars>>

\* ... then persist_status refreshes the row, and wait looks at the status and
\* at the deadline.
Update(e) ==
    /\ pc[e] = "update"
    /\ \/ status[job[e]] = "canceled" /\ Goto(e, "abandon")
       \/ /\ status[job[e]] # "canceled"
          /\ \/ seen[e] = "completed" /\ Goto(e, "verify")
             \/ seen[e] \in {"failed", "cancelled"} /\ Goto(e, "failing")
             \/ seen[e] = "active" /\ Goto(e, "poll")
             \/ seen[e] = "active" /\ Goto(e, "deadline")
    /\ UNCHANGED <<rowVars, apiVars, cancelVars, envVars, countVars>>

\* The handler of the cancellation refreshes the row once more.
Abandon(e) ==
    /\ pc[e] = "abandon"
    /\ EndIfCanceled(e, "failing")
    /\ UNCHANGED <<rowVars, apiVars, cancelVars, envVars, countVars>>

\* Mutant of Deadline: the remote job is left running.
DeadlineNoCancel(e) ==
    /\ pc[e] = "deadline"
    /\ Goto(e, "failing")
    /\ UNCHANGED <<rowVars, apiVars, cancelVars, envVars, countVars>>

\* The deadline has passed: cancel the remote job, an API error is ignored.
Deadline(e) ==
    /\ pc[e] = "deadline"
    /\ \/ CancelRemote(e) /\ UNCHANGED faults
       \/ Fault /\ UNCHANGED remote
    /\ Goto(e, "failing")
    /\ UNCHANGED <<rowVars, apiVars, cancelVars, object, queue, scenario,
                   quotaVars, reopened, reruns>>

\* Mutant of Verify: the descriptor is believed without reading the object.
VerifySkipped(e) ==
    /\ pc[e] = "verify"
    /\ Goto(e, "complete")
    /\ UNCHANGED <<rowVars, apiVars, cancelVars, envVars, countVars>>

\* _output_descriptor and read_arrow: the object under the output key must be
\* the one the descriptor of this run names.
Verify(e) ==
    /\ pc[e] = "verify"
    /\ Goto(e, IF object[job[e]] = e THEN "complete" ELSE "failing")
    /\ UNCHANGED <<rowVars, apiVars, cancelVars, envVars, countVars>>

(***************************************************************************)
(* Worker: run_offload_r / _run_r_offload                                  *)
(***************************************************************************)
RunR(e) ==
    /\ pc[e] = "rsent" /\ e \notin revoked
    /\ EndIfCanceled(e, "rrun")
    /\ UNCHANGED <<rowVars, apiVars, cancelVars, envVars, countVars>>

\* Reads the input, computes, writes and reads back the output; or the runner
\* is missing or the input is refused.
ComputeR(e) ==
    /\ pc[e] = "rrun"
    /\ \/ object' = [object EXCEPT ![job[e]] = e] /\ Goto(e, "complete")
       \/ UNCHANGED object /\ Goto(e, "failing")
    /\ UNCHANGED <<rowVars, apiVars, cancelVars, remote, queue, countVars>>

(***************************************************************************)
(* Worker: the end of both runners, and _fail_job                          *)
(***************************************************************************)
\* refresh_from_db and the last look at the status ...
Complete(e) ==
    LET j == job[e] IN
    /\ pc[e] = "complete"
    /\ IF status[j] = "canceled"
         THEN Goto(e, "done")
         ELSE /\ pc' = [pc EXCEPT ![e] = "final"]
              /\ snap' = [snap EXCEPT ![e] =
                   [taskId |-> taskId[j], remoteRef |-> remoteRef[j],
                    error |-> error[j]]]
              /\ UNCHANGED <<job, seen>>
    /\ UNCHANGED <<rowVars, apiVars, cancelVars, envVars, countVars>>

\* ... and job.save(): every column, those of the refreshed copy included.
SaveSucceeded(e) ==
    LET j == job[e] IN
    /\ pc[e] = "final"
    /\ status' = [status EXCEPT ![j] = "succeeded"]
    /\ output' = [output EXCEPT ![j] = e]
    /\ taskId' = [taskId EXCEPT ![j] = snap[e].taskId]
    /\ remoteRef' = [remoteRef EXCEPT ![j] = snap[e].remoteRef]
    /\ error' = [error EXCEPT ![j] = snap[e].error]
    /\ pc' = [pc EXCEPT ![e] = "done"]
    /\ snap' = [snap EXCEPT ![e] = NoSnap]
    /\ UNCHANGED <<apiVars, cancelVars, job, seen, envVars, countVars>>

FailRead(e) ==
    /\ pc[e] = "failing"
    /\ EndIfCanceled(e, "failsave")
    /\ UNCHANGED <<rowVars, apiVars, cancelVars, envVars, countVars>>

FailSave(e) ==
    LET j == job[e] IN
    /\ pc[e] = "failsave"
    /\ status' = [status EXCEPT ![j] = "failed"]
    /\ error' = [error EXCEPT ![j] = "error"]
    /\ Goto(e, "done")
    /\ UNCHANGED <<taskId, remoteRef, output, apiVars, cancelVars, envVars,
                   countVars>>

(***************************************************************************)
(* Faults of a worker                                                      *)
(***************************************************************************)
\* A missing setting, an error of the RunPod API or of the store fails the job;
\* a submit whose answer is lost has created its remote job all the same.
CallError(e) ==
    /\ pc[e] \in {"run", "submit", "poll", "verify", "rrun"}
    /\ pc[e] = "run" => status[job[e]] # "canceled"
    /\ \/ UNCHANGED remote
       \/ pc[e] = "submit" /\ remote' = [remote EXCEPT ![e] = "active"]
    /\ Goto(e, "failing")
    /\ Fault
    /\ UNCHANGED <<rowVars, apiVars, cancelVars, object, queue, scenario,
                   quotaVars, reopened, reruns>>

\* The worker process dies; its message was acknowledged on receipt.
Crash(e) ==
    /\ pc[e] \in Busy
    /\ pc' = [pc EXCEPT ![e] = "done"]
    /\ snap' = [snap EXCEPT ![e] = NoSnap]
    /\ Fault
    /\ UNCHANGED <<rowVars, apiVars, cancelVars, job, seen, envVars, scenario,
                   quotaVars, reopened, reruns>>

(***************************************************************************)
(* RunPod                                                                  *)
(***************************************************************************)
\* A remote job ends: with its output written under the presigned key of its
\* operation, with a descriptor that does not verify, or with a failure.
RemoteEnd(e) ==
    /\ remote[e] = "active"
    /\ \/ /\ object' = [object EXCEPT ![job[e]] = e]
          /\ remote' = [remote EXCEPT ![e] = "completed"]
       \/ /\ UNCHANGED object
          /\ remote' = [remote EXCEPT ![e] = "completed"]
       \/ /\ UNCHANGED object
          /\ remote' = [remote EXCEPT ![e] = "failed"]
    /\ UNCHANGED <<rowVars, apiVars, cancelVars, execVars, queue, countVars>>

(***************************************************************************)
(* Specification                                                           *)
(***************************************************************************)
ExecStep(e) ==
    \/ Discard(e) \/ DispatchRead(e) \/ DispatchSave(e)
    \/ \E r \in Execs : DispatchR(e, r)
    \/ DispatchRSaveId(e)
    \/ RunRead(e) \/ Submit(e) \/ Persist(e) \/ Poll(e) \/ Update(e)
    \/ Abandon(e) \/ Deadline(e) \/ Verify(e)
    \/ RunR(e) \/ ComputeR(e)
    \/ Complete(e) \/ SaveSucceeded(e) \/ FailRead(e) \/ FailSave(e)

ApiStep(j) == ApiSaveId(j) \/ \E e \in Execs : ApiDelay(j, e)

CancelStep(j) ==
    CancelSave(j) \/ CancelTaskRead(j) \/ CancelTaskRemote(j) \/ CancelTaskSave(j)

Next ==
    \/ \E j \in Jobs : \/ \E q \in {"runpod", "r"} : Invoke(j, q)
                       \/ ReRun(j) \/ ApiStep(j) \/ ApiCrash(j)
                       \/ CancelRead(j) \/ CancelStep(j)
    \/ \E e \in Execs : ExecStep(e) \/ CallError(e) \/ Crash(e) \/ RemoteEnd(e)
    \/ OtherStarts \/ OtherEnds

Spec == Init /\ [][Next]_vars

\* Processes that are alive go on; time passes, so a wait that polls for ever
\* reaches its deadline.  Nothing is assumed of RunPod or of the users.
ReachDeadline(e) == Update(e) /\ pc'[e] = "deadline"

Fairness ==
    /\ \A j \in Jobs : WF_vars(ApiStep(j)) /\ WF_vars(CancelStep(j))
    /\ \A e \in Execs : WF_vars(ExecStep(e)) /\ SF_vars(ReachDeadline(e))

FairSpec == Spec /\ Fairness

(***************************************************************************)
(* Properties                                                              *)
(***************************************************************************)
\* A job is never succeeded on the word of a run of another job, nor of a
\* remote run that RunPod did not report as completed, and unless an admin runs
\* it again, the object behind it is the one whose descriptor was verified.
\* (All runs of an operation id share one output key, so a re-run races the
\* earlier run for it.)
SucceededHasOutput ==
    \A j \in Jobs : status[j] = "succeeded" =>
        /\ output[j] # None /\ job[output[j]] = j
        /\ queue[j] = "runpod" => remote[output[j]] = "completed"
        /\ reruns[j] = 0 => object[j] = output[j]

\* An operation id is submitted to RunPod once, and once more for each re-run,
\* whatever crashes, cancels and lost answers happen.
OneRemotePerRun ==
    \A j \in Jobs :
        Cardinality({e \in Execs : job[e] = j /\ remote[e] # "none"})
            <= 1 + reruns[j]

\* Without a fault no remote job outlives the execution that waits for it: the
\* deadline ends it, or the cancel task does.  What a user's cancel leaves at
\* work is a remote job whose id the row did not name when the cancel task read
\* it, be it not saved yet, overwritten by another run, or lost to a whole-row
\* save.
OrphanAccounted ==
    \A e \in Execs : remote[e] = "active" /\ pc[e] = "done" =>
        \/ faults > 0
        \/ /\ cancelApi[job[e]] # "idle"
           /\ cancelTask[job[e]] \in {"sent", "remote"} \/ cancelRef[job[e]] # e

\* The jobs this service admitted and nobody made active again after they were
\* terminal respect the concurrency quota, together with the rows of the other
\* producers that were active when the last of them was admitted and still are.
\* The quota is exceeded by re-runs, by dispatches that overwrite a cancel, and
\* by rows that other producers start afterwards; nothing else exceeds it.
QuotaAccounted == Cardinality(ActiveJobs \ reopened) + counted <= Limit

\* Without faults every admitted job reaches a terminal status, even when RunPod
\* never answers with one.
Settles ==
    \A j \in Jobs : status[j] = "queued" ~> status[j] \in Terminal

(***************************************************************************)
(* What the documents say and the code does not keep                       *)
(***************************************************************************)
\* A canceled job stays canceled until an admin runs it again.
CancelSticks ==
    [][\A j \in Jobs : status[j] = "canceled" /\ reruns'[j] = reruns[j]
                          => status'[j] = "canceled"]_vars
=============================================================================
