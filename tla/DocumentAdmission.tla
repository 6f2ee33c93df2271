-------------------------- MODULE DocumentAdmission --------------------------
(***************************************************************************)
(* Document admission: apps/extraction/services/capture_admission.py and   *)
(* document_tasks.py.                                                      *)
(*                                                                         *)
(* A run of a captured artifact owns a row of control_job.  An execution   *)
(* reads the run, then claims the job with a compare-and-set from queued   *)
(* to running, and works through the ordered stages with a checkpoint      *)
(* after each.  A failed run resumes when it is scheduled again.  A run    *)
(* that met ambiguous claims schedules a child, the claim escalation, when *)
(* it succeeds.  A sweep sends a message for every queued job.             *)
(*                                                                         *)
(* The row of control_job is also in reach of the offload service's cancel  *)
(* route and of the admin site, its Re-run action and its form: they write  *)
(* the job and know nothing of the run.                                    *)
(***************************************************************************)
EXTENDS Integers

CONSTANTS
    Runs,        \* admission runs: one per artifact and set of object types
    Artifacts,   \* captured artifacts
    ArtifactOf,  \* ArtifactOf[r]: the artifact run r belongs to
    Stages,      \* number of stages (8 in the code)
    Lift,        \* the stage that parses (2); the next one deduplicates
    Execs,       \* execution slots; a free slot is a new Celery message
    NoRow,       \* a free slot's row
    MaxRequests, \* bound: POST extract calls that queue a failed run again
    MaxFaults    \* bound: stage and storage errors, crashes and lost messages, and
                 \* cancel requests, re-runs and edits, which count twice

ASSUME ConstantsAssumption ==
    /\ ArtifactOf \in [Runs -> Artifacts]
    /\ Stages \in Nat \ {0} /\ Lift \in 1..Stages
    /\ NoRow \notin Runs \X {"admission", "claim_escalation"}
    /\ MaxRequests \in Nat /\ MaxFaults \in Nat

Rows == Runs \X {"admission", "claim_escalation"}
Adm(r) == <<r, "admission">>
Esc(r) == <<r, "claim_escalation">>

VARIABLES
    job,        \* control_job.status of a row
    run,        \* ExtractionRun.status; "stage" stands for every stage name
    history,    \* length of stage_history
    output,     \* number of leading stages whose results output holds
    ambiguous,  \* whether ambiguity is empty: "clear" or "ambiguous"
    ingestion,  \* Artifact.ingestion_status
    pc, at,     \* an execution: position and row
    hist, out, amb,  \* its copy of the run
    cancels,    \* writes of canceled on their way: a request's and its task's
    requests, faults,
    stale,      \* history: runs claimed with a copy that was out of date
    crashed,    \* history: rows whose execution died
    rerun, edited \* history: rows the admin site queued again, or edited

rowVars == <<job, run>>
runVars == <<history, output, ambiguous>>
copyVars == <<hist, out, amb>>
execVars == <<pc, at, copyVars>>
countVars == <<requests, faults>>
adminVars == <<rerun, edited>>
ghostVars == <<stale, crashed, adminVars>>
vars == <<rowVars, runVars, ingestion, execVars, cancels, countVars, ghostVars>>

Statuses == {"absent", "queued", "running", "succeeded", "failed", "canceled"}
RunStatuses == {"absent", "queued", "stage", "succeeded", "failed"}
Verdicts == {"clear", "ambiguous"}
\* Positions after the claim.
Working == {"stage", "work", "check", "batch", "distill", "close",
            "fail", "failjob", "failartifact"}
\* Positions of dispatch_offload, which a re-run sends: before it sets the job
\* running, and after.
Redoing == {"redo", "redispatch", "offload", "offsave"}

\* Type invariant: every column and every local stays in its range.
TypeOK ==
    /\ job \in [Rows -> Statuses]
    /\ run \in [Rows -> RunStatuses]
    /\ history \in [Runs -> 0..Stages]
    /\ output \in [Runs -> 0..Stages]
    /\ ambiguous \in [Runs -> Verdicts]
    /\ ingestion \in [Artifacts -> {"captured", "parsed", "extracted", "failed"}]
    /\ pc \in [Execs -> {"free", "sent", "read"} \cup Working \cup Redoing]
    /\ at \in [Execs -> Rows \cup {NoRow}]
    /\ hist \in [Execs -> 0..Stages]
    /\ out \in [Execs -> 0..Stages]
    /\ amb \in [Execs -> Verdicts]
    /\ cancels \in [Rows -> Nat]
    /\ requests \in 0..MaxRequests
    /\ faults \in 0..MaxFaults
    /\ stale \subseteq Runs
    /\ crashed \subseteq Rows
    /\ rerun \subseteq Rows /\ edited \subseteq Rows

Init ==
    /\ job = [w \in Rows |-> "absent"]
    /\ run = [w \in Rows |-> "absent"]
    /\ history = [r \in Runs |-> 0]
    /\ output = [r \in Runs |-> 0]
    /\ ambiguous = [r \in Runs |-> "clear"]
    /\ ingestion = [a \in Artifacts |-> "captured"]
    /\ pc = [e \in Execs |-> "free"]
    /\ at = [e \in Execs |-> NoRow]
    /\ hist = [e \in Execs |-> 0]
    /\ out = [e \in Execs |-> 0]
    /\ amb = [e \in Execs |-> "clear"]
    /\ cancels = [w \in Rows |-> 0]
    /\ requests = 0 /\ faults = 0
    /\ stale = {} /\ crashed = {} /\ rerun = {} /\ edited = {}

(***************************************************************************)
(* Helpers                                                                 *)
(***************************************************************************)
Fault == faults < MaxFaults /\ faults' = faults + 1

RunOf(e) == at[e][1]
IsAdmission(e) == at[e] # NoRow /\ at[e][2] = "admission"

Goto(e, label) == pc' = [pc EXCEPT ![e] = label] /\ UNCHANGED <<at, copyVars>>

EndExec(e) ==
    /\ pc' = [pc EXCEPT ![e] = "free"]
    /\ at' = [at EXCEPT ![e] = NoRow]
    /\ hist' = [hist EXCEPT ![e] = 0]
    /\ out' = [out EXCEPT ![e] = 0]
    /\ amb' = [amb EXCEPT ![e] = "clear"]

\* admit_document.delay or escalate_claims.delay.
Send(w, e) ==
    /\ pc[e] = "free"
    /\ pc' = [pc EXCEPT ![e] = "sent"]
    /\ at' = [at EXCEPT ![e] = w]
    /\ UNCHANGED copyVars

\* The message that follows the commit; the broker may refuse it.
SendOrLose(w) ==
    \/ \E e \in Execs : Send(w, e) /\ UNCHANGED faults
    \/ Fault /\ UNCHANGED execVars

SetRow(w, jobStatus, runStatus) ==
    /\ job' = [job EXCEPT ![w] = jobStatus]
    /\ run' = [run EXCEPT ![w] = runStatus]

SetIngestion(r, value) == ingestion' = [ingestion EXCEPT ![ArtifactOf[r]] = value]

(***************************************************************************)
(* API: POST /artifacts/{id}/extract, and the sweep                        *)
(***************************************************************************)
\* schedule() of a new run, under the tenant lock.
Schedule(r) ==
    /\ job[Adm(r)] = "absent"
    /\ SetRow(Adm(r), "queued", "queued")
    /\ SendOrLose(Adm(r))
    /\ UNCHANGED <<runVars, ingestion, cancels, requests, ghostVars>>

\* Mutant: schedule() queues every run again that has ended.
RescheduleEnded(r) ==
    /\ job[Adm(r)] \in {"failed", "succeeded"}
    /\ requests < MaxRequests
    /\ requests' = requests + 1
    /\ SetRow(Adm(r), "queued", "queued")
    /\ SendOrLose(Adm(r))
    /\ UNCHANGED <<runVars, ingestion, cancels, ghostVars>>

\* schedule() of a failed run; for any other status it changes nothing.
Reschedule(r) ==
    /\ job[Adm(r)] = "failed"
    /\ requests < MaxRequests
    /\ requests' = requests + 1
    /\ SetRow(Adm(r), "queued", "queued")
    /\ SendOrLose(Adm(r))
    /\ UNCHANGED <<runVars, ingestion, cancels, ghostVars>>

\* Mutant: the sweep forgets the escalations, which nothing else dispatches.
SweepAdmissions(w, e) ==
    /\ job[w] = "queued" /\ w[2] = "admission"
    /\ Send(w, e)
    /\ UNCHANGED <<rowVars, runVars, ingestion, cancels, countVars, ghostVars>>

\* sweep_document_jobs, one row of it.
Sweep(w, e) ==
    /\ job[w] = "queued"
    /\ Send(w, e)
    /\ UNCHANGED <<rowVars, runVars, ingestion, cancels, countVars, ghostVars>>

(***************************************************************************)
(* Worker: AdmissionPipeline.execute and escalate_claims                   *)
(***************************************************************************)
\* The run is read ...
Read(e) ==
    /\ pc[e] = "sent"
    /\ pc' = [pc EXCEPT ![e] = "read"]
    /\ IF IsAdmission(e)
         THEN /\ hist' = [hist EXCEPT ![e] = history[RunOf(e)]]
              /\ out' = [out EXCEPT ![e] = output[RunOf(e)]]
              /\ amb' = [amb EXCEPT ![e] = ambiguous[RunOf(e)]]
         ELSE UNCHANGED copyVars
    /\ UNCHANGED <<at, rowVars, runVars, ingestion, cancels, countVars, ghostVars>>

\* Mutant: the status is set without being compared, unless it is terminal.
ClaimUnguarded(e) ==
    /\ pc[e] = "read"
    /\ IF job[at[e]] \in {"queued", "running"}
         THEN /\ job' = [job EXCEPT ![at[e]] = "running"]
              /\ Goto(e, IF IsAdmission(e) THEN "stage" ELSE "batch")
              /\ stale' = IF IsAdmission(e) /\ hist[e] # history[RunOf(e)]
                            THEN stale \cup {RunOf(e)} ELSE stale
         ELSE EndExec(e) /\ UNCHANGED <<job, stale>>
    /\ UNCHANGED <<run, runVars, ingestion, cancels, countVars, crashed, adminVars>>

\* ... and then claimed: UPDATE ... WHERE status = 'queued'.
Claim(e) ==
    /\ pc[e] = "read"
    /\ IF job[at[e]] = "queued"
         THEN /\ job' = [job EXCEPT ![at[e]] = "running"]
              /\ Goto(e, IF IsAdmission(e) THEN "stage" ELSE "batch")
              /\ stale' = IF IsAdmission(e) /\ hist[e] # history[RunOf(e)]
                            THEN stale \cup {RunOf(e)} ELSE stale
         ELSE EndExec(e) /\ UNCHANGED <<job, stale>>
    /\ UNCHANGED <<run, runVars, ingestion, cancels, countVars, crashed, adminVars>>

\* The next stage's name is saved.
Stage(e) ==
    /\ pc[e] = "stage" /\ hist[e] < Stages
    /\ run' = [run EXCEPT ![at[e]] = "stage"]
    /\ Goto(e, "work")
    /\ UNCHANGED <<job, runVars, ingestion, cancels, countVars, ghostVars>>

\* The state holds the result of every stage before this one.
StageReady(e) == out[e] >= hist[e]

\* What the stages save besides the checkpoint: _lift and _distill.
StageSaves(e) ==
    CASE hist[e] + 1 = Stages -> SetIngestion(RunOf(e), "extracted")
      [] hist[e] + 1 = Lift /\ Lift # Stages -> SetIngestion(RunOf(e), "parsed")
      [] OTHER -> UNCHANGED ingestion

\* Mutant: a stage done again after a failed checkpoint counts a second time.
StageWorkRecounts(e) ==
    /\ pc[e] = "work"
    /\ StageSaves(e)
    /\ out' = [out EXCEPT ![e] = @ + 1]
    /\ IF hist[e] + 1 \in {Lift, Lift + 1}
         THEN \E v \in Verdicts : amb' = [amb EXCEPT ![e] = v]
         ELSE UNCHANGED amb
    /\ pc' = [pc EXCEPT ![e] = "check"]
    /\ UNCHANGED <<at, hist, rowVars, runVars, cancels, countVars, ghostVars>>

\* Without an earlier stage's result the stage may still do its work: not all
\* of them are read.  Lift and Deduplicate decide on ambiguity.
StageWork(e) ==
    /\ pc[e] = "work"
    /\ StageSaves(e)
    /\ out' = [out EXCEPT ![e] = IF @ = hist[e] THEN @ + 1 ELSE @]
    /\ IF hist[e] + 1 \in {Lift, Lift + 1}
         THEN \E v \in Verdicts : amb' = [amb EXCEPT ![e] = v]
         ELSE UNCHANGED amb
    /\ pc' = [pc EXCEPT ![e] = "check"]
    /\ UNCHANGED <<at, hist, rowVars, runVars, cancels, countVars, ghostVars>>

\* Mutant: the checkpoint leaves the output for later.
CheckpointHistory(e) ==
    LET r == RunOf(e) IN
    /\ pc[e] = "check"
    /\ hist' = [hist EXCEPT ![e] = @ + 1]
    /\ history' = [history EXCEPT ![r] = hist[e] + 1]
    /\ ambiguous' = [ambiguous EXCEPT ![r] = amb[e]]
    /\ pc' = [pc EXCEPT ![e] = "stage"]
    /\ UNCHANGED <<output, at, out, amb, rowVars, ingestion, cancels, countVars, ghostVars>>

\* The checkpoint: history, output and ambiguity of the copy.
Checkpoint(e) ==
    LET r == RunOf(e) IN
    /\ pc[e] = "check"
    /\ hist' = [hist EXCEPT ![e] = @ + 1]
    /\ history' = [history EXCEPT ![r] = hist[e] + 1]
    /\ output' = [output EXCEPT ![r] = out[e]]
    /\ ambiguous' = [ambiguous EXCEPT ![r] = amb[e]]
    /\ pc' = [pc EXCEPT ![e] = "stage"]
    /\ UNCHANGED <<at, out, amb, rowVars, ingestion, cancels, countVars, ghostVars>>

\* Mutant: success forgets the escalation.
FinishAlone(e) ==
    LET r == RunOf(e) IN
    /\ pc[e] = "stage" /\ hist[e] = Stages
    /\ SetRow(Adm(r), "succeeded", "succeeded")
    /\ EndExec(e)
    /\ UNCHANGED <<runVars, ingestion, cancels, countVars, ghostVars>>

\* schedule() finds no escalation of the run, or one that has failed.
Schedulable(r) == job[Esc(r)] \in {"absent", "failed"}

\* One transaction: run and job succeed, and the escalation is scheduled.  It
\* waits for the sweep: no message is sent.
Finish(e) ==
    LET r == RunOf(e) IN
    /\ pc[e] = "stage" /\ hist[e] = Stages
    /\ IF amb[e] = "ambiguous" /\ Schedulable(r)
         THEN /\ job' = [job EXCEPT ![Adm(r)] = "succeeded", ![Esc(r)] = "queued"]
              /\ run' = [run EXCEPT ![Adm(r)] = "succeeded", ![Esc(r)] = "queued"]
         ELSE SetRow(Adm(r), "succeeded", "succeeded")
    /\ EndExec(e)
    /\ UNCHANGED <<runVars, ingestion, cancels, countVars, ghostVars>>

\* escalate_claims: the status, then decomposition, verification and _distill,
\* then one transaction.
Decompose(e) ==
    /\ pc[e] = "batch"
    /\ run' = [run EXCEPT ![at[e]] = "stage"]
    /\ Goto(e, "distill")
    /\ UNCHANGED <<job, runVars, ingestion, cancels, countVars, ghostVars>>

DistillBatch(e) ==
    /\ pc[e] = "distill"
    /\ SetIngestion(RunOf(e), "extracted")
    /\ Goto(e, "close")
    /\ UNCHANGED <<rowVars, runVars, cancels, countVars, ghostVars>>

FinishBatch(e) ==
    /\ pc[e] = "close"
    /\ SetRow(at[e], "succeeded", "succeeded")
    /\ EndExec(e)
    /\ UNCHANGED <<runVars, ingestion, cancels, countVars, ghostVars>>

(***************************************************************************)
(* Worker: the exception handlers, three statements without a transaction  *)
(***************************************************************************)
\* A stage raises: on a fault, possibly after it has saved the artifact, or
\* because the state lacks what an earlier stage should have left there.
StageFails(e) ==
    /\ \/ /\ pc[e] = "work" /\ ~StageReady(e)
          /\ UNCHANGED <<ingestion, faults>>
       \/ /\ pc[e] = "work" /\ StageSaves(e)
          /\ Fault
       \/ /\ pc[e] \in {"stage", "work", "check", "batch", "distill", "close"}
          /\ UNCHANGED ingestion
          /\ Fault
    /\ Goto(e, "fail")
    /\ UNCHANGED <<rowVars, runVars, cancels, requests, ghostVars>>

\* Mutant: the handler writes the job before the run.
FailRunLast(e) ==
    /\ pc[e] = "fail"
    /\ job' = [job EXCEPT ![at[e]] = "failed"]
    /\ output' = IF IsAdmission(e)
                   THEN [output EXCEPT ![RunOf(e)] = out[e]] ELSE output
    /\ Goto(e, "failjob")
    /\ UNCHANGED <<run, history, ambiguous, ingestion, cancels, countVars, ghostVars>>

\* The run's status and the state, without the checkpoint ...
FailRun(e) ==
    /\ pc[e] = "fail"
    /\ run' = [run EXCEPT ![at[e]] = "failed"]
    /\ output' = IF IsAdmission(e)
                   THEN [output EXCEPT ![RunOf(e)] = out[e]] ELSE output
    /\ Goto(e, "failjob")
    /\ UNCHANGED <<job, history, ambiguous, ingestion, cancels, countVars, ghostVars>>

\* Mutant: the handler forgets the job of an escalation.
FailJobAdmission(e) ==
    /\ pc[e] = "failjob"
    /\ IF IsAdmission(e)
         THEN job' = [job EXCEPT ![at[e]] = "failed"] /\ Goto(e, "failartifact")
         ELSE UNCHANGED job /\ EndExec(e)
    /\ UNCHANGED <<run, runVars, ingestion, cancels, countVars, ghostVars>>

\* ... the job ...
FailJob(e) ==
    /\ pc[e] = "failjob"
    /\ job' = [job EXCEPT ![at[e]] = "failed"]
    /\ IF IsAdmission(e) THEN Goto(e, "failartifact") ELSE EndExec(e)
    /\ UNCHANGED <<run, runVars, ingestion, cancels, countVars, ghostVars>>

\* ... and the artifact.
FailArtifact(e) ==
    /\ pc[e] = "failartifact"
    /\ SetIngestion(RunOf(e), "failed")
    /\ EndExec(e)
    /\ UNCHANGED <<rowVars, runVars, cancels, countVars, ghostVars>>

\* The worker process dies, or a handler itself raises.
Crash(e) ==
    /\ pc[e] # "free"
    /\ crashed' = crashed \cup {at[e]}
    /\ EndExec(e)
    /\ Fault
    /\ UNCHANGED <<rowVars, runVars, ingestion, cancels, requests, stale,
                   adminVars>>

(***************************************************************************)
(* The other writers of control_job: orchestration's api, tasks and admin   *)
(***************************************************************************)
Intervene == faults + 1 < MaxFaults /\ faults' = faults + 2

\* POST /internal/offload/{job_id}/cancel reads an active job and sends
\* cancel_job_task; both are going to save canceled without looking again.
Cancel(w) ==
    /\ job[w] \in {"queued", "running"}
    /\ Intervene
    /\ cancels' = [cancels EXCEPT ![w] = @ + 2]
    /\ UNCHANGED <<rowVars, runVars, ingestion, execVars, requests, ghostVars>>

\* One of the two saves.  The task also revokes the message a re-run has sent.
SaveCanceled(w) ==
    /\ cancels[w] > 0
    /\ cancels' = [cancels EXCEPT ![w] = @ - 1]
    /\ job' = [job EXCEPT ![w] = "canceled"]
    /\ \/ UNCHANGED execVars
       \/ \E e \in Execs : at[e] = w /\ pc[e] = "redo" /\ EndExec(e)
    /\ UNCHANGED <<run, runVars, ingestion, countVars, ghostVars>>

\* The request dies before its save, or the task is lost.
LoseCancel(w) ==
    /\ cancels[w] > 0
    /\ cancels' = [cancels EXCEPT ![w] = @ - 1]
    /\ Fault
    /\ UNCHANGED <<rowVars, runVars, ingestion, execVars, requests, ghostVars>>

\* re_run_job, the admin site's action: whatever the status, the job is queued
\* and a message for dispatch_offload sent, which the broker may refuse.
ReRun(w) ==
    /\ job[w] # "absent"
    /\ Intervene
    /\ job' = [job EXCEPT ![w] = "queued"]
    /\ rerun' = rerun \cup {w}
    /\ \/ \E e \in Execs :
            /\ pc[e] = "free"
            /\ pc' = [pc EXCEPT ![e] = "redo"]
            /\ at' = [at EXCEPT ![e] = w]
            /\ UNCHANGED copyVars
       \/ UNCHANGED execVars
    /\ UNCHANGED <<run, runVars, ingestion, cancels, requests, stale, crashed, edited>>

\* The admin site's form, where the status is a field like any other.
Edit(w, status) ==
    /\ job[w] # "absent"
    /\ Intervene
    /\ job' = [job EXCEPT ![w] = status]
    /\ edited' = edited \cup {w}
    /\ UNCHANGED <<run, runVars, ingestion, execVars, cancels, requests, stale,
                   crashed, rerun>>

\* dispatch_offload of the job: a cancel is looked for ...
Redo(e) ==
    /\ pc[e] = "redo"
    /\ IF job[at[e]] = "canceled" THEN EndExec(e) ELSE Goto(e, "redispatch")
    /\ UNCHANGED <<rowVars, runVars, ingestion, cancels, countVars, ghostVars>>

\* ... the job is set running whatever has become of it meanwhile ...
Redispatch(e) ==
    /\ pc[e] = "redispatch"
    /\ job' = [job EXCEPT ![at[e]] = "running"]
    /\ Goto(e, "offload")
    /\ UNCHANGED <<run, runVars, ingestion, cancels, countVars, ghostVars>>

\* ... the executor looks for a cancel ...
Offload(e) ==
    /\ pc[e] = "offload"
    /\ IF job[at[e]] = "canceled" THEN EndExec(e) ELSE Goto(e, "offsave")
    /\ UNCHANGED <<rowVars, runVars, ingestion, cancels, countVars, ghostVars>>

\* ... and the job ends: as a success of the stub executor, as a failure of any
\* other, for a document's job has no input artifact to send.
OffloadEnds(e) ==
    /\ pc[e] = "offsave"
    /\ \E status \in {"succeeded", "failed"} : job' = [job EXCEPT ![at[e]] = status]
    /\ EndExec(e)
    /\ UNCHANGED <<run, runVars, ingestion, cancels, countVars, ghostVars>>

(***************************************************************************)
(* Specification                                                           *)
(***************************************************************************)
ExecStep(e) ==
    \/ Read(e) \/ Claim(e) \/ Stage(e) \/ StageWork(e) \/ Checkpoint(e)
    \/ Finish(e) \/ Decompose(e) \/ DistillBatch(e) \/ FinishBatch(e)
    \/ FailRun(e) \/ FailJob(e) \/ FailArtifact(e)
    \/ Redo(e) \/ Redispatch(e) \/ Offload(e) \/ OffloadEnds(e)

Next ==
    \/ \E r \in Runs : Schedule(r) \/ Reschedule(r)
    \/ \E w \in Rows, e \in Execs : Sweep(w, e)
    \/ \E w \in Rows : Cancel(w) \/ SaveCanceled(w) \/ LoseCancel(w) \/ ReRun(w)
    \/ \E w \in Rows, status \in Statuses \ {"absent"} : Edit(w, status)
    \/ \E e \in Execs : ExecStep(e) \/ StageFails(e) \/ Crash(e)

Spec == Init /\ [][Next]_vars

\* A worker that is alive goes on, through its handlers too; the sweep comes
\* back to every queued row, and the broker's queue does not stay full.
Fairness ==
    /\ \A e \in Execs : WF_vars(ExecStep(e) \/ StageFails(e))
    /\ \A w \in Rows : SF_vars(\E e \in Execs : Sweep(w, e))

FairSpec == Spec /\ Fairness

(***************************************************************************)
(* Properties                                                              *)
(***************************************************************************)
\* The rows the admin site has put its hand to.  Its Re-run and its form write
\* the job whatever its status and whoever works on it, so that nothing below
\* but AbandonedByCrash and Settles is said of these rows; of a row that was
\* canceled everything is.
Overridden == rerun \cup edited

\* The compare-and-set is a lease: whatever duplicate messages the sweep sends,
\* and whatever a cancel writes while an execution is at work, only one execution
\* at a time is between its claim and the job's terminal status.
OneOwner ==
    \A d, e \in Execs :
        /\ at[d] = at[e] /\ d # e
        /\ pc[d] \in Working \ {"failartifact"}
        /\ pc[e] \in Working \ {"failartifact"}
        => at[e] \in Overridden

\* The two rows of a run tell the same story whenever the job is not running.
\* Only a cancel sets them apart, for it leaves the run as it was, and it does so
\* for no longer than the job says canceled: an execution that ends after the
\* cancel brings them together again.
RowsAgree ==
    \A w \in Rows \ Overridden :
        job[w] \notin {"running", "canceled"} => run[w] = job[w]

\* A run that was never claimed with an outdated copy succeeds with all of its
\* stages checkpointed and their results in its output, canceled or not.
SucceededComplete ==
    \A r \in Runs :
        run[Adm(r)] = "succeeded" /\ r \notin stale /\ Adm(r) \notin Overridden =>
            history[r] = Stages /\ output[r] = Stages

\* An escalation exists only for a run that succeeded and, unless the run was
\* claimed with an outdated copy, exactly when its checkpoints met ambiguity.  A
\* cancel of the admission's job neither prevents nor removes it.
EscalationFollows ==
    \A r \in Runs : Adm(r) \notin Overridden =>
        /\ job[Esc(r)] # "absent" => run[Adm(r)] = "succeeded"
        /\ run[Adm(r)] = "succeeded" /\ r \notin stale =>
             (job[Esc(r)] # "absent" <=> ambiguous[r] = "ambiguous")

\* A job that stays running without an execution is the work of a crash, or was
\* set running by hand: every writer of running, the dispatch of a re-run
\* included, ends the job it has set running.
AbandonedByCrash ==
    \A w \in Rows : job[w] = "running" /\ (\A e \in Execs : at[e] # w)
                      => w \in crashed \cup edited

\* A run's success is final: no late execution, handler or request reopens it,
\* and its job can only be overwritten by a cancel.
SucceededFinal ==
    [][\A w \in Rows \ Overridden' : run[w] = "succeeded" =>
         job'[w] \in {"succeeded", "canceled"} /\ run'[w] = "succeeded"]_vars

\* Unless a worker dies or the status is edited by hand, every queued row reaches
\* an outcome, the escalation that only the sweep dispatches, a re-run job and a
\* message the broker refused included.
Settles ==
    \A w \in Rows : job[w] = "queued" ~>
        job[w] \in {"succeeded", "failed", "canceled"} \/ w \in crashed \cup edited
=============================================================================
