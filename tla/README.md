# A TLA+ development of the Django-Theorem control plane

The repository is the control plane of a multi-tenant data-science service: a
Django API that admits work with machine keys, Celery workers that carry it out
(on RunPod, on an R image, or in process), periodic sweeps that repair what was
lost, and an S3-compatible store for the artifacts.  Its hard parts are not the
computations but the life cycles of the rows that describe them: every row is
written by several processes, most of the time without a lock, while messages
are lost or duplicated and workers die.  That is what these modules model.

## 1. Inventory

### 1.1 Processes and what they share

| process | runs | shares |
|---|---|---|
| web | the HTTP routes under `/internal` and `/webhooks`, the admin | Postgres rows, the broker (`delay`, `on_commit`), the object store |
| worker | Celery tasks of the default queue | the same |
| R worker, RL worker | the queues `offload.r` and `rl` | the same |
| beat | `sweep_document_jobs`, `sweep_extraction_jobs` (300 s), `sweep_competence_jobs` (3600 s), `theorem_control/settings.py:216-229` | the same |
| RunPod serverless and pods | remote jobs, outside this repository | presigned object-store keys, the status API |
| Rust services | consumers of `control_*` tables and Valkey channels, outside this repository | Postgres, Valkey |

Celery runs with its defaults: a message is acknowledged when a worker receives
it, so a worker that dies takes its message with it, and `delay()` may fail after
the row it speaks of has been committed.

### 1.2 Components

State, operations, interactions, what is hard, and what makes it correct.

**Competence jobs** (`apps/competence`).  *State*: a row of
`control_competence_job` (status, task id, scorer, refusal, artifact keys,
cleanup receipt); two objects per job.  *Operations*: fit/refit submission under
the tenant lock; the task `run_competence_fit` (claim, fit, two puts with
readback, two locked finishes, retries); the sweep; the cleanup route.
*Interacts with*: broker, store, the previous job of a refit.  *Hard*: duplicate
deliveries, retries under one task id, early recovery, cleanup against a running
execution.  *Correct when*: a succeeded row is complete, its artifacts were read
back, a receipt lists only what was deleted, refits rest on published scorers,
nothing published is withdrawn, every job settles.

**Competence fitter** (`apps/competence/fitter.py`, `contract.py`).  Pure
functions of the request and the previous scorer: a Beta prior from survival
counts, a posterior from weighted outcomes, lineage checks.  *Correct when*:
no lineage is consumed twice, posterior counts equal prior plus evidence.

**Offload jobs** (`apps/orchestration/api.py`, `tasks.py`, `runpod.py`).
*State*: a row of `control_job`; the remote job; the object under the output key
of the operation id.  *Operations*: invoke (idempotency and quota under the
tenant lock), dispatch, the RunPod and the R execution, cancel route and cancel
task, the admin's re-run.  *Hard*: nothing after the insert takes a lock; cancel
races dispatch, submission and completion; the deadline races the remote end;
there is no sweep.  *Correct when*: a success is backed by its own verified
output, RunPod is asked once per admitted run, a cancel sticks and reaches RunPod,
the quota holds, every job settles when nothing fails.

**Document admission** (`apps/extraction/services/capture_admission.py`,
`document_tasks.py`).  *State*: a captured artifact, a run with its stage
history, output and ambiguity, a row of `control_job`; a child run for the claim
escalation.  *Operations*: capture, schedule, execute (compare-and-set claim,
eight checkpointed stages), the escalation batch, the sweep.  *Interacts with*:
the offload service, whose cancel route and whose admin site reach the same rows of
`control_job` and know nothing of the run.  *Hard*: duplicate
messages, a copy read before the claim, three-statement failure handlers, crashes
that nothing recovers, other writers of the job.  *Correct when*: one owner at a time, run and job agree, a
success has every checkpoint, the escalation follows exactly the ambiguity.

**Fan-out extraction** (`apps/extraction/api.py`, `tasks.py`, `planner.py`,
`admin.py`).  *State*: a job, its shards, one offload job per shard, planned
input objects.  *Operations*: submit, plan, adopt under a lock, dispatch,
reconcile (fold the shards' statuses, replan shards whose output is too large),
sweep, cancel, admin re-run.  *Hard*: reconcile is an unlocked read-modify-write
of the job; a sweep sees half-planned jobs; a crash between the replan's commit
and the creation of its offload jobs.  *Correct when*: the folded status matches
the shards, a cancel sticks, every row range is extracted exactly once, no
planned object is leaked, every job settles.

**Reinforcement-learning runs** (`theorem_control/rl`).  *State*: a row of
`control_trainingrun`, a RunPod pod, trajectories and artifact descriptors.
*Operations*: submit, claim, create pod, wait, ingest, publish, finish, cancel.
*Hard*: a running run can be claimed twice, the pod id is overwritten, an
unlocked finish, no sweep.  *Correct when*: a run has one pod, every pod is
terminated, terminal statuses are final.

**Machine keys** (`apps/keys`).  *State*: hashed keys with scopes, expiry and
revocation; peers' caches.  *Operations*: mint, authenticate, revoke, publish the
eviction.  *Hard*: a lost eviction leaves peers with a stale entry until its
expiry.  *Correct when*: a revoked key is refused here at once and elsewhere
within a cache lifetime.

**Tenancy and its cache** (`apps/tenancy`).  *State*: tenants, memberships, the
Valkey mapping with an in-process fallback.  *Hard*: the fallback has no expiry
and is private to a process.

**Identity webhooks** (`apps/identity`).  Duplicated and reordered WorkOS events
applied to shadow rows.  *Correct when*: replays are harmless; a deleted user
stays deleted.

**Billing** (`apps/billing`).  A usage counter per tenant and period, added to
under two row locks, and the allowance computed from it; the admin site resets it.
*Correct when*: no report committed since the last reset is lost.

**Admin site** (`admin.py` of each application).  Actions (revoke a key, run a job
again, reset the usage) and change forms, which save every field as it was shown.
*Hard*: a form that was opened before somebody else wrote; saves that tell no cache.

**Layout service** (`apps/layout`).  *State*: a bounded cache in each web process,
Valkey, a child process per computation.  *Hard*: every step runs against a
deadline; Valkey goes away and comes back; processes of two releases answer at
once.  *Correct when*: the caches cannot be told from computing, the bound holds,
nothing but a timeout comes after the deadline.

**Artifact store** (`apps/orchestration/artifacts.py`).  *State*: the objects of all
tenants, and presigned links.  *Hard*: a put may fail with the object stored, or
store other bytes; objects under mutable keys change between a descriptor and a
read.  *Correct when*: what is published is what its key says, what is read is what
its descriptor says, links stay within a tenant.

**Rendering service** (`apps/rendering`).  A validated request, a child with a time
limit, one object, a link.  *Correct when*: only drawings are published.

**RunPod worker images** (`runpod`).  Two handlers that download an input through a
link, check it against its descriptor, compute, upload and answer with a
descriptor.  *Hard*: the input may be written again, uploads fail, a model repeats
itself, offsets are computed in casefolded texts.  *Correct when*: an output is the
operation's result on the very input the request describes.

**Bounded child process, layout oracle script, container oracle script**
(`apps/rendering/oracle_process.py`, `scripts/run-layout-local-oracles.py`,
`scripts/run-rendering-container-oracles.py`).  Programs that start other programs,
prove something about them and clean up.  *Hard*: children exit, fork, hold pipes
and ports at any time; an interrupt comes anywhere, also in the cleanup; other users
share the Docker daemon.  *Correct when*: a claimed proof took place, nothing of
somebody else's is removed, and what stays behind is reported.

**Support, observation, Rust bridge, settings, native oracle script, executors and
document library** (`apps/support`, `apps/observation`, `bridges`,
`theorem_control/settings.py`, `scripts`, `theorem_ml`).  Single inserts, stubs,
configuration, sequential tools and pure functions.

`PROJECT.json` lists each of these under `components`, and under `hazards` what is
hard to test in each, at its line, with the properties that watch it.

## 2. Plan

Written, in this order: `CompetenceJob` with `CompetenceJobProofs`, `OffloadJob`,
`DocumentAdmission` with `DocumentAdmissionProofs`; then `ExtractionJob`,
`TrainingRun`, `ControlPlane` (machine keys, tenancy, identity, billing),
`LayoutContract` and `LayoutService`, which is shown to implement it,
`ArtifactStore` and `RenderService`, which extends it, `Services`, which composes the
two services, `PodWorker`, `BoundedProcess`, `LocalOracle` and `ContainerOracle`,
`Programs`, which composes these four; then `TrainingRunProofs`, `OffloadJobProofs`,
`ExtractionJobProofs`, `ControlPlaneProofs`, `ServicesProofs` and `ProgramsProofs`.

To be written:

1. The lineage checks of the fitter, the grading of traces and the paging of the
   passage listing, against reference definitions.
2. The executors library and the native oracle script.

Modules that carry theorems use no `RECURSIVE` operator; parameters are
`CONSTANTS` with a named `ASSUME` as weak as the code justifies; there is one
action per operation or per stretch of code between two points where another
process can be seen.

## 3. Modules

A block under `select_for_update` inside `transaction.atomic`, a single `UPDATE`,
a single `save`, a single object-store call and a single HTTP call are atomic
steps; between two of them every other process may act.  Timestamps, logs,
provenance posts, `attempt_count` and the wording of errors are left out.
Operators whose comment begins with "Mutant" are not part of any specification:
each is the neighbouring definition with one plausible mistake, used to show
that a property would notice it.

### 3.1 CompetenceJob

| variables | code |
|---|---|
| `status owner scorer refusal keys receipt age` | columns of `control_competence_job`; `scorer_json` and the keys are functions of the immutable request, so only their presence is kept; `age` is the order of `created_at` |
| `stored` | the two content-addressed objects of a job |
| `pc at part retries problem` | one Celery execution: position, job, artifact being published, `self.request.retries`, the outcome its handler has chosen |
| `sweepPc batch` | the running sweep |
| `cleaning` | a cleanup that holds the row lock while it talks to the store |
| `undispatched` | committed rows whose `on_commit` callback has not run |
| `deleted dropped faults early` | history (objects a cleanup deleted; rows an execution of which ended without an outcome since their last claim) and bounds |

`Submit`, `Dispatch`, `Claim`, `Fit`, `Put`, `Readback`, `Record`,
`FinishSuccess`, `FinishProblem`, `StorageError`, `UnexpectedError`, `EscapingError`,
`RetryLost`, the sweep steps and the cleanup steps follow `_submit`, `_dispatch_competence_job`,
`_claim_job`, `_resolve_previous`/`fit_competence`, `write_competence_artifact`,
`_record_artifact`, `_finish_success`, `_finish_problem`, the handlers of
`run_competence_fit`, `sweep_competence_jobs` and `cleanup_competence_job`.
Points worth knowing:

* `_claim_job` returns a row that runs under another task id without changing
  it; the caller only stops when the status is not `running`, so the second
  execution goes on.  The model does the same.
* A retry keeps its task id, so a retried execution finds its own lease.
* An execution may end without an outcome and leave the row running: the process
  dies, a database error escapes `_claim_job` or `_finish_problem` (neither is
  inside the task's `try`), or `self.retry` cannot publish.  `AbandonedByFault`
  says that nothing else does, and only since the last claim.
* `CANCELED` is a status no code sets; the guards that read it are kept.
* Replays of a submission or a cleanup, reused or refused with 409, change
  nothing and are stutters.
* The object keys of two jobs differ, because the request digest covers the
  operation id.
* Task ids are reused by the model only when no row names them, which stands for
  an unbounded supply of fresh ids.
* Time is not modelled: any running row may be found stale.  Recovering a row
  somebody still works on spends the bound `MaxEarly`.

### 3.2 OffloadJob

| variables | code |
|---|---|
| `status taskId remoteRef output error` | columns of `control_job`; `remoteRef` is `kwargs_json["runpod"]["job_id"]`, `output` names the execution whose output the row describes |
| `queue` | column `operation`: whether it goes to RunPod or to the R queue; fixed by the request |
| `object` | the execution that last wrote the output key of the operation |
| `api apiId` | the tail of `invoke_offload` and `re_run_job` after the row is saved |
| `cancelApi cancelTask cancelRef revoked` | `cancel_offload_job` and `cancel_job_task` |
| `pc job seen snap` | one message of `dispatch_offload` or `run_offload_r`, with the remote status and the refreshed row it holds |
| `remote` | the remote job an execution submitted |
| `others counted` | active rows of the tenant that the extraction and the document service created, and, as history, those of them the last admission counted |
| `reopened reruns faults` | history and bounds |

A scenario says where jobs run, whether users cancel, the limit of the plan, and how
many jobs, messages, re-runs, faults and rows of other producers there are; `Init` picks one.  Every read and every save is a step of its own.  `job.save()` without
`update_fields` writes back the whole refreshed copy (`snap`).  Each message has
its own identity and is delivered at most once; the twin test of
`dispatch_offload` cannot match, because the operation id is unique in a tenant.
`_create_orchestration_job` and `schedule` create rows that
`_enforce_concurrent_job_quota` counts, and look at no quota: `OtherStarts` and
`OtherEnds` move their number, nothing else of them.  `QuotaAccounted` therefore
does not bound all active rows of a tenant, only those admitted here together with
those the last admission saw.  `OrphanAccounted` says which remote jobs may be left at
work: those a fault has parted from their execution, and those whose id the row did
not hold when the cancel task read it.
A user cancels a job at most once in the model.  RunPod is the environment: a
remote job may end in any way, or never.  The `stub` execution mode, which
completes a job in process for local tests, is not modelled; neither are rows
that are deleted by hand, and the admin form of a job is modelled in
`DocumentAdmission` alone.

### 3.3 DocumentAdmission

| variables | code |
|---|---|
| `job run` | `control_job.status` and `ExtractionRun.status` of a row; a row is a run with its kind, admission or claim escalation; `"stage"` stands for every stage name |
| `history output ambiguous` | the length of `stage_history`, the number of leading stages whose results `output` holds, whether `ambiguity` is not empty |
| `ingestion` | `Artifact.ingestion_status` |
| `pc at hist out amb` | one execution and its copy of the run |
| `cancels` | writes of `canceled` on their way: a cancel request's and its task's |
| `rerun edited` | history: rows that the admin site queued again, or edited |
| `stale crashed requests faults` | history and bounds |

`Read` and `Claim` are two steps, as in `execute` (line 102 and line 105): the
copy may be old when the claim succeeds.  A stage may work without the result of
an earlier one, because not every result is read later; or it fails.  The
handler's three statements (`FailRun`, `FailJob`, `FailArtifact`) run one after
the other.  The success transaction schedules the escalation, whose message
nobody sends but the sweep.  The lost message after a commit is a choice of
`Schedule` and `Reschedule`.

The row of `control_job` has writers that know nothing of the run.  `Cancel`,
`SaveCanceled` and `LoseCancel` are the offload service's cancel route
(`apps/orchestration/api.py:242-251`) and `cancel_job_task`: each saves `canceled`
over whatever is there, at any time after it looked.  `ReRun` is the admin action
"Re-run job", and `Redo`, `Redispatch`, `Offload` and `OffloadEnds` the
`dispatch_offload` it sends: it sets the job running, and as the job has no input
artifact every executor but the stub fails it.  `Edit` is the admin site's form.
What the properties say against them differs:

* a cancel is nobody's excuse: `OneOwner`, `SucceededComplete`,
  `EscalationFollows` and `AbandonedByCrash` hold whatever is canceled when.
  `RowsAgree` lets the two rows differ for as long as the job says `canceled`, and
  `SucceededFinal` lets a late cancel overwrite the job of a run that succeeded,
  never the run;
* a re-run or an edit really breaks the lease and the agreement of the rows, so that
  those properties speak of rows that are not `Overridden`.  `AbandonedByCrash` and
  `Settles` do hold of rows that are run again, and except the edited ones only.

An intervention uses two of the `MaxFaults`.

### 3.4 ExtractionJob

| variables | code |
|---|---|
| `status` | column of `control_extractionjob` |
| `shard` | `control_extractionshard` by index: status, error, input artifact, parent |
| `offload` | the `control_job` row of a shard, as far as `_sync_shard` reads it |
| `store` | the input artifacts under the job's keys; a key names the planning attempt and the rows |
| `submits sent` | messages in flight |
| `pc loc` | one execution of `submit_extraction` or of a sweep: position, the plans, copies and lists it holds |
| `canceler` | the cancel route or the admin action, with the shards it has listed |
| `leaked extracted faulty` | history |

`submit_extraction` plans outside any lock, one artifact at a time (`Plan`), and
adopts or discards under the row lock (`Adopt`, `Abandon`, `Discard`);
`reconcile_extraction` is the chain `ReconcileRead`, `Load`, `Sync`, `Replan`,
`CreateOffload`, `Dispatch`, `Resync`, `Fold`, `Save`, in which the job is read
at the beginning and saved at the end.  Abstractions: nothing in this code tells
a queued shard or offload job from a running one, so both are `active`; the loop
that syncs the shards one by one is one step over the offload rows of that moment;
an error text is one of the four things it is compared with.  The offload job of a
shard is the environment here (`OffloadRun`, `OffloadCancel`, `OffloadRerun`): it
ends in one of the ways `OffloadJob` allows.  `WorkAccounted` says that, without a
fault, no shard waits for work nobody will do, although a shard is committed before
its offload job, and that before its message.  A scenario says how many rows the
source has, how many fit in an artifact, how a shard may end by its number of
rows, and what disturbs it.

### 3.5 TrainingRun

| variables | code |
|---|---|
| `kind traces` | what the request and the run's `traces.jsonl` fix: evaluation or training; well-formed, refused by `parse_traces`, or of a shape whose exception nobody catches |
| `status podId descriptors` | columns of `control_trainingrun` |
| `ledger incoming` | trajectories of the run in the table; outputs under its incoming keys, which all its executions share |
| `messages pc loc` | task messages and executions with their copy of the row |
| `pod` | RunPod: each pod |
| `lost cancels torn` | history: pods a fault left alone, cancels answered, an execution that died or failed between its two saves |

A round of polling is one step.  A pod may upload and end, or end without a
result, or never end.  `_finish` is two steps, the refresh and the save.

### 3.6 ControlPlane

| variables | code |
|---|---|
| `truth events sent` | WorkOS: the user, the organization's slug and the membership as they are, and the events about them, in flight in any order |
| `user tenant member` | the shadow rows; a tenant with its slug, whether it is the organization's, and `is_active` |
| `valkey memory` | the slug of the organization in Valkey, and in the process's own dict |
| `peers peerKey` | what the Rust peers hold: memberships by slug and role, the key |
| `key form revoking` | the machine key, an open change form of the admin, a revocation not yet published |
| `counter applied` | one meter of `control_usage`, and the reports committed since it was last reset (history) |
| `last irregular` | history: the last event taken of each kind; what went out of the ordinary |

One organization, one user, one key and one meter; each statement of
`_apply_event` is a step.  The events of all kinds are records with the same fields;
a field that a kind does not use is blank.  `irregular` names why a property cannot be asked for:
an event taken after a younger one of its kind (`late`), a membership ahead of its
organization (`early`), two handlers at once (`overlap`), an event given up on
(`lost`), Valkey out (`outage`), a rename (`renamed`), or a form of the admin site
that was saved with other values (below).  What the code cannot make
good is thereby said in the properties: a late `user.updated` activates a deleted
user again, a late `organization.updated` activates a tenant again, and a membership event
ahead of its organization is dropped for good.

The admin site writes too.  `Revoke` and `Publish` are the action that revokes a key,
`FormOpen` and `FormSave` the key's form, which writes back what it showed or a
`revoked_at` that was typed (`retyped`), and publishes nothing.  `ResetUsage` is the
action of that name, an ordinary step: its `UPDATE` waits for the row lock of a report.
`EditUsage` is the usage form, which may put back an older number (`recounted`).
`EditUser`, `EditTenant` and `EditMember` are the forms of the shadow rows (`edited`);
they invalidate no cache.  The properties are asked for as far as the code keeps
them: the rows and caches follow WorkOS until one of the three forms was saved with
other values, a revoked key is dropped by the peers until one was retyped, and the
counter is exact until it was recounted.  Deleting rows by hand is not modelled.

### 3.7 LayoutContract and LayoutService

`LayoutContract` is what a caller may rely on: the layout of the graph it sent as
the release that answers computes it, a refusal its request brings on, 503 or 504,
and nothing but a timeout after the deadline.  `LayoutService` has the threads of
two processes, with `held` (payload), `left` (its time: ample, under the 50 ms
`LayoutBudget` keeps, none), `memory` (the LRU cache of a process), `valkey`, `up`
and `version` (Graphviz of a process's release); the mapping takes `late` from
`left` and `release` from `version`.  The DOT of a graph and its digest are what
they are computed from: `DigestInput` is a tuple of the canonical DOT, the engine,
the parameters and the version, so that two digests are equal exactly when those
are.  The clock is a day counter for the expiry of entries, and a block under
the lock of the memory cache is a step.  The DOT's text and Graphviz's numbers are
left out, and so is the child's rlimit set-up.

### 3.8 ArtifactStore and RenderService

A key is its tenant, folder, name and digest; a digest is the payload it is the
digest of.  Each call of the storage service is a step and may fail before or after
it took effect; a put may also store other bytes (`Garbled`), and the service may
lose objects.  Links expire at any time, and a PUT link may be used as long as it
has not.  `disturbed` is the history of threads whose object somebody else has
changed since their call began: a failed readback under a disturbance is no
contradiction.  `RenderService` extends the module with the routes that draw,
publish and refresh; what a child draws is any payload.  `Services` composes
`LayoutService` and `RenderService`: they run in the same processes and share no
state, so that a behaviour is one of either while the other one rests.
`CallsAssumption` says what the callers of the store keep to: they name known
operations, no one but the rendering service writes drawings, and tables are
written, and PUT links handed out, for keys without a digest.
`rl_artifact_key` admits a name, `..`, that `validate_key` refuses: such an object
is put, its readback raises, and it stays (`clean`; the instance has such a call).

### 3.9 Programs

| module | code | state |
|---|---|---|
| `PodWorker` | the `runpod` workers' `handler` | objects under the input and the output key; a pod's position, request, bytes and answer |
| `BoundedProcess` | `run_bounded_process` | the child and a descendant (alive, the pipes each holds), the pipes, the selector, the deadline |
| `LocalOracle` | `run_oracles`, `main` | directory, binary, server and a descendant, port, log and its drain thread, failure, what cleanup reports, exit status |
| `ContainerOracle` | `run_container_oracle`, `main` | images and tag at the daemon, the image id read, answers, errors, exit status |

`PodWorker`: a digest is the bytes themselves; texts are sequences of characters,
some of which fold to two; the replies of ATLAS and vLLM are enumerated; columns
that are equal in all rows of an output are left out, and the canonical order of
rows makes them a set; nodes of a graph, strings in the code, are numbers, which are
ordered too.  Nothing keeps the ids of passages apart: a later passage hides an earlier
one from ATLAS, so that `RowsRight` asks for some passage of the id that a row names.  `BoundedProcess` counts output in chunks and has one
descendant.  Popen may refuse the command (`Open`); from its fork to the `try` block
(lines 153-166) an exception leaves the child to itself (`Unwatched`), and so does a
second one in the handler of the first (`Abandon`): `NothingLeft` names both
windows, and asks for the child's end everywhere else.  `LocalOracle` has `owned`, what
the script has assigned to a variable: an interrupt between a start and its assignment
(`Between`) leaves a server or a log thread that the cleanup knows nothing of.
`against` is the history of the binary and the port the server was proved with;
`VerifiedTrue` asks for the pinned binary on the script's own port, and that server,
port, pipe and directory are gone.  `LeftoversReported` speaks of every exit that
went through the whole cleanup, and not of what was never assigned.  Environments of
children and the finalizer of the temporary directory are left out; a silent
descendant of the server that holds neither pipe nor port cannot be noticed by the
script, and is not asked for.  `ContainerOracle`: others may move the tag, tag the
built image again, or prune; moving the tag away and back between two inspections
is possible and harmless, because the removal names the image id.  `Programs` composes
the four: they share no state, a behaviour is one of them, and the variables of the
others stay at none.

Where these programs depart from what is written about them:

* the contract worker's `validate_input` takes `rows` as "a non-negative integer or
  null" (`runpod/theorem_offload_contract_worker/worker.py:173`), but its handler
  compares a null with the row count and always fails; a null `max_bytes` passes
  validation and raises `TypeError` outside of what the handler catches;
* `_find_span` searches the casefolded text and returns the offset for the text
  itself: behind a character that folds to two, the span is shifted
  (`RowsRight` leaves such texts out);
* `run_bounded_process` says it will "kill the process group on either limit"
  (`apps/rendering/oracle_process.py:148`), but does nothing when the child itself
  has already exited, so that a descendant that holds a pipe lives on (`survivor`),
  and nothing looks after a child when an exception comes between its fork and the
  `try` block (lines 153-166);
* exit status 130 of the layout oracle is printed as "interrupted after cleanup"
  (`scripts/run-layout-local-oracles.py:770`), and the repository's README.md:397 says
  that it "means interruption completed its cleanup"; but it is only reached by an
  interrupt of the cleanup itself, which may leave the server running, or before the
  `try`.  An interrupt under the `try` is cleaned up after and exits with 1.

### 3.10 MC modules

`MCCompetence`, `MCOffload`, `MCDocument`, `MCExtraction`, `MCTraining` and
`MCControlPlane` give the values a `.cfg` cannot write: the scenarios (which inputs
come and what may disturb them; `Init` picks one, so that a run covers several
combinations of bounds without their product), the functions and the symmetry sets.
`MCLayout` and `MCServices` do so for `Services`, `MCPrograms` for `Programs`.
Symmetry is used over task ids, executions and (where no order
is involved) jobs, and never in a run with a liveness property.

## 4. Runs

| run | instance | shows |
|---|---|---|
| `CompetenceSafety` | 1 job, 2 task ids, 1 retry, 1 fault, 1 early recovery, 1 cleanup id; fair | `TypeOK`, `SucceededComplete`, `RecordedReadBack`, `ReceiptAccounts`, `AbandonedByFault`, `Immutable`, `Settles` |
| `CompetenceRefit` | a fit and its refit, 3 task ids, batch of 1 | `RefitChain` |
| `OffloadSafety` | 1 RunPod job with two of a cancel, a re-run and a fault; 1 R job with a cancel and a fault; 2 R jobs that compete for a quota of 1, with 3 messages or with a re-run; 2 R jobs and 2 rows of other producers under a quota of 2 | `TypeOK`, `SucceededHasOutput`, `OneRemotePerRun`, `OrphanAccounted`, `QuotaAccounted` |
| `OffloadLiveness` | 1 job of either queue, fair, no fault | `Settles` |
| `DocumentSafety` | 1 run, 2 executions, 3 stages, 1 request, 3 faults, of which a cancel, a re-run or an edit counts as two; fair | `TypeOK`, `OneOwner`, `RowsAgree`, `SucceededComplete`, `EscalationFollows`, `AbandonedByCrash`, `SucceededFinal`, `Settles` |
| `ExtractionSafety` | 1 job of at most 2 rows and 5 shards, 2 executions, 9 scenarios; fair | `TypeOK`, `SourceKept`, `PlansAccounted`, `SucceededExtracted`, `WorkAccounted`, `CancelLostToFold`, `Settles` |
| `TrainingSafety` | 1 run, 2 worker slots, 4 pods, 1 cancel, 2 faults; fair | `TypeOK`, `PodsAccounted`, `SucceededPublished`, `CancelOverwrittenOnlyBySave`, `Settles` |
| `ControlPlane` | 2 slugs, 2 workers, up to 5 events, 4 usage reports, 7 scenarios, edits by hand among them | `ControlPlaneConsistent`, `RemovesItsOwn` |
| `Services` | layouts: 3 threads of 2 processes, 2 releases, a cache of 1 entry; store and rendering: 2 threads, up to 3 calls, 1 fault | `ServicesSound`, `ServesContract` (a refinement) |
| `Programs` | edge lists over 4 nodes, texts of up to 4 characters, 2 pods, 3 requests, 2 faults; 2 chunks of output; 5 events around the layout oracle, 3 around the container oracle | `ProgramsSound`, `OutputsRight` |

Two more runs end in a counterexample: each checks what a document says of the
code, and shows how the code departs from it (`findings` in `PROJECT.json`):
`CompetenceSucceededStable` (a late duplicate turns a succeeded job into a failed
one) and `OffloadCancelSticks` (a dispatch saves running over a cancel).  More
departures can be read off the models without a run:

* a cancel that runs before the remote id is saved never reaches RunPod
  (`apps/orchestration/tasks.py:591`);
* a document run whose copy was read before its claim may put the output behind
  the stage history, and the last write of a failed execution may reach the
  artifact after a later execution succeeded
  (`apps/extraction/services/capture_admission.py:102,126`);
* the last save of a reconcile that read its job before a cancel overwrites the
  cancel (`apps/extraction/tasks.py:425`), and a cancel whose shards were listed
  before a plan was adopted leaves them running (`apps/extraction/api.py:400`);
* two executions work on one running competence job although no sweep took the
  lease away (`apps/competence/tasks.py:48-53,263`), and a cleaned artifact is
  written again by an execution that is still under way
  (`apps/competence/api.py:404`).

**Bounds.**  Two executions of one job are the least with which a duplicate can
overtake the owner.  In `CompetenceSafety` one early recovery and one fault let a
recovered execution and its replacement meet a crash, an error or a lost message;
`MaxRetries = 1` has both a retry that is left and one that is not; the safety
properties of this and every other module are proved without bounds (section 5).  Rows do not
influence each other except through the quota (two jobs), the refit (two jobs),
the sweep's batch (`BatchSize = 1` with two jobs) and the artifact of a document
run.  The quota is checked with the R queue: which runner computes makes no
difference to when a row becomes active.  Three faults of a document run let an
execution fail, its successor fail and a message be lost; the two executions are
a stale copy and the one that overtakes it, or an execution and a re-run's
dispatch; two of the three faults make an intervention, and the third one a crash, a
failure or a lost cancel beside it.  Three stages are Lift, Deduplicate and Distill;
the others do less than Lift.  Two rows are a shard that
can be split, or two shards; five shards hold a plan and two replans of it by both
executions.  Four pods are one more than the executions that two slots, a cancel and
two faults can start at once.  Five events reach a user, an organization, a rename,
a membership and its deletion in any order.  A cache of one entry evicts at every
second key; three threads are two of one process and one of another.  Two pods
and three requests let an input be written again between two uses of it and an
upload fail after it took effect.  The history variables do not influence any action.

**Deadlock** is not checked where the system may really stop: every row terminal
and every bounded message, event, call or request used.

**Fairness.**  An execution that is alive goes on (weak fairness of its steps,
handlers included).  Beat fires again and again and a sweep reaches every row it
selects (weak fairness of the competence sweep; strong fairness for a row of the
document sweep, whose message needs a free slot of the queue again and again; weak
fairness of the extraction sweep and of taking its messages).  An abandoned competence row no longer changes `updated_at`, so one of
the recurring sweeps finds it stale (strong fairness of `RecoverAbandoned`).  A wait
that polls for ever reaches its deadline, because the clock advances (strong
fairness of `ReachDeadline`).  The
offload job of a shard settles, as `OffloadJob` shows.  Nothing is assumed of
RunPod, of users, or of the cleanup's success.  The remaining modules state no
liveness.

## 5. Proofs

Eight modules prove theorems about the components, for every value of the
constants that meets the named assumptions (5.9).  They state every safety and action
property that a passing run checks, and the refinement of `LayoutContract`; only
liveness is left to TLC.  Most of the properties are not inductive as they stand.
Each module defines the strengthening, proves that the initial states have it and every
step keeps it, with a lemma per action or per conjunct, and derives the properties from
it; action properties follow from it by a case split over the steps.  Each
strengthening has been checked by TLC on the instances of section 4 before it was
proved.

### 5.1 CompetenceJobProofs

The type invariant and every safety and action property that `CompetenceSafety` and
`CompetenceRefit` check.  That a row may become `succeeded` with both keys depends on
what the position of the finishing execution implies.  `IInv` adds it: an execution
that is about to record an artifact has seen it in the store (or a cleanup has
deleted it since), one at `finish` has recorded both, one past the fit of a refit
stands on a published scorer, a cleanup in progress names only owned kinds and has
deleted those no longer left, and a running row has an execution or a message, or an
execution of it was dropped since the last claim.

### 5.2 DocumentAdmissionProofs

Every safety and action property that `DocumentSafety` checks, from these parts:

- `Slots`: an execution has a row while it is alive and stands where a row of its
  kind can bring it.
- `Owned`, of rows that are not overridden: `OneOwner`, the lease (whoever is past
  the claim finds its job running or canceled), the order of the handler's
  statements (a run is `failed` before its job is), `RowsAgree`, that nothing works on a
  run that is closed, and that an escalation starts with the success of its run.  The
  parts need each other: one execution per row is kept by the claim because every
  holder's job is running or canceled, and only a holder, or a cancel, takes it out of
  running.
- `Attended`: a running job has its holder, or its holder has died, or it was edited;
  a re-run's dispatch is a holder too.
- `Copies`: for a run never claimed with an outdated copy, the output is not
  behind the history, whoever holds the run works on the current history, and an
  unclaimed copy is at worst behind.  This is why `SucceededComplete` is stated
  for such runs only: an execution that reads the run, waits while another one
  works on it and fails, and then claims it, is not covered by it (it starts from
  the older history).
- `SucceededComplete` and `EscalationFollows` themselves.

### 5.3 TrainingRunProofs

`TypeOK`, `PodsAccounted`, `SucceededPublished` and `CancelOverwrittenOnlyBySave`.
A run can be claimed twice, so neither the row nor the copies tell which pods run.
What does is the position of the executions: only the training task creates pods
(`PodsOfTraining`), and a pod that is up has an execution that records or watches
it or is about to terminate it, or a fault left it alone (`Watched`).  That some
copy of the row names the pod would not do, because the next create overwrites the
copy.  For what a succeeded run has published: an execution that publishes or will
call the run succeeded has ingested (`PublishersIngested`), and, while no execution
was torn between its two saves, descriptors that are not complete are about to be
(`HalfPublished`).

### 5.4 OffloadJobProofs

`TypeOK`, `SucceededHasOutput`, `OneRemotePerRun`, `OrphanAccounted` and
`QuotaAccounted`.  `RunsPaid` counts, for each job, the executions that may still
write its output, have a remote job or wrote the output of the row: each admission
and each re-run pays for one, a `delay` that is still to come included, and a
hand-over to the R queue passes the place on.  From it follow `OneRemotePerRun` and
`OutputUntouched`: between readback and publication nobody else writes the
output of a job that was not run again.  `RemoteRemembered` says that what an
execution remembers of its remote job is still true; `CancelRequested` and `Waited`
trace a canceled row to a user's request, and an active remote job to an execution
that waits for it, a fault or a cancel.  `RefsSubmitted` (every remote id in a row, a
copy or a cancel task is that of a submitted remote job) and `CancelReached` (a cancel
task that goes on to its save has ended what it read) narrow the last case to cancels
that did not find the id.  The quota needs no strengthening beyond the
types, but the cardinality lemmas: an admission counts every active row of the tenant
under its lock, and whatever makes a terminal job active again enters `reopened`.

### 5.5 ExtractionJobProofs

`TypeOK`, `SourceKept`, `PlansAccounted`, `SucceededExtracted` and the action
properties of `ExtractionSafety`.  Three chains carry it.  Of names: shards are
numbered as they are created (`Numbered`), offload jobs belong to shards and messages
to offload jobs (`OffloadsOfShards`, `MessagesNameOffloads`), and what an execution has
loaded still exists (`NamesKept`).  Of rows: plans are written under an id of their
own (`PlansOwned`), a plan in hand holds the first rows of the source, and all of them
once it can be adopted (`PlansCover`), and no shard holds rows that are not the
source's (`RowsInside`).  Of success: whatever is said to have succeeded, by an offload
job, a shard or a copy of one, has been extracted (`SuccessExtracted`), the second loop
of a reconcile walks shards that cover the source (`LoadedCover`), so a fold to
`succeeded` has all of its rows (`FoldedExtracted`).

### 5.6 ServicesProofs

The layout service.  `LayoutService` implements `LayoutContract` (`LayoutServesContract`):
initial states map to initial states, and each step to a step or a stutter.  `LayoutInv`
says that what a cache holds is what its key stands for (`TrueEntries`), that a thread
past a lookup or a computation holds the layout of its own request by its own release
(`Holds`), and that a memory cache stays within its bound and has a key once
(`Bounded`).  Its heart is a lemma about the digest, `DigestDetermines`: pairs of a
request and a release with one key have one payload.

The rendering service and its store (`StoreSoundHolds`, `RendersTrueHolds`), for any
threads, keys and payloads and any calls that meet `CallsAssumption`.  `RenderInv`
follows a call from its admission (`Placed`) and its origin (`Origin`: a drawing that
was accepted, or one of the callers') to its object: from the readback on, the object
is what was sent or somebody else has been at it (`Published`).  `LinkTrue` keeps PUT
links away from what is named by its digest, which is what `NamedByDigest` and the
drawings need (`KeyTrue`).

The two together, as the run checks them: `ServicesInv` says that the service that
runs keeps its invariant and the other one is as it was.  From it follow
`ServicesSoundHolds` and, for the composed specification, `ServicesServeContract`.

### 5.7 ControlPlaneProofs

`ControlPlaneConsistent` and `RemovesItsOwn`, for any workers, slugs and events.  The
rows follow WorkOS although events come in any order; the invariant says how.
`Telling` has the number of the newest event of each kind and the id of the newest
membership.  `Numbered` says what an event, wherever it is, tells of WorkOS by its
number; `Follows` that, while nothing was late, early, overlapping or lost (`Calm`), the
newest event is still to come, is being handled, or has arrived in its row.  Until
two handlers overlap one works at a time, on one row (`Alone`).  The caches are
carried by what is still to come: the slug in Valkey is the organization's or about
to be written (`SlugCached`), a membership that a peer holds is backed by a row or
about to be evicted (`PeersCached`), and so is a revoked key (`KeyDropped`).  That no
usage report is lost is the row lock: what an `accumulate` has read is still there
when it writes, for a reset waits for it (`Locked`).  What the forms of the shadow rows
disturb is everything about them (`Kept`), so that the invariant asks for it only while
none was saved with other values; types, locks and the key's eviction
do not depend on them.

### 5.8 ProgramsProofs

`ProgramsSound` and `OutputsRight`.  `ProgramsInv` is one invariant per program.

- `WorkerInv`: what a pod runs on is the input its request describes (`Verifies`),
  what it uploads is the output of it within the limit (`Computes`), and a descriptor
  that was answered is that of the object unless another pod has written since
  (`Describes`).
- `OutputInv`: a pod that works on a request has admitted it (`Admits`), what it has
  fetched may have been under the input key (`Fetches`) and fits its descriptor
  (`Checks`), and what it uploads is what the operation promises (`Promises`).
- `BoundedInv`: what was written is captured or still in a pipe (`Conserved`), a
  stream that is read no more is at its end for good, and a call that ends leaves its
  child only where no handler looks after it.
- `LocalInv`: what the script has at each position (`Reached`), what each step of
  the cleanup has seen or reported (`Cleaned`), that only a reserved port is the
  server's (`Bound`), and what the proof was made with (`Proved`).
- `ContainerInv`: what each step has established or reported; the image that is removed is the one that was built, whoever moves the tag.

`Promises` needs what the operations compute, for every input.  The induction theorems
of the library cannot be instantiated here, so the numbers up to a bound are walked by
a least counterexample (`LeastOf`, `UpTo`), and a function that is defined by its
earlier values is shown to exist before it is used (`StepByStep`).

- `CommunitiesAreRight`: whatever the edges and their order, `CommunityAssign` numbers
  the connected parts by their least members.  Connection is told by the sets of nodes
  that the links of a forest do not leave (`ClosedSets`): halving a path changes no such
  set (`HalvedClosed`), joining two roots keeps those that the edge does not leave
  either (`HungClosed`), and two roots are never connected (`RootsApart`).  The search
  for a root ends because links go to lesser nodes (`SearchFinds`).
- Spans: `str.find` returns a place where the part stands (`FindFinds`), the offsets of
  the chunks of a passage are such places or none (`OffsetsPlace`), a span found in a
  chunk marks the subject up to case (`FindSpanMarks`), and selects it in the passage
  when it is moved by the offset of the chunk (`MarksSelect`).
- Rows: those of chunks, of concepts and of typed records are right one by one
  (`AtlasRowsRight`, `TypedRowsRight`), and `CanonicalRows` keeps one of each key
  (`CanonicalRowsRight`).

### 5.9 Assumptions

The `ConstantsAssumption` of a module says which constants are numbers and finite sets,
and that the values that stand for "none" are no elements; `CapsAssumption` and
`NoneAssumption` of `Programs` do so too.  Beyond that:

- `ExtractionJob`: the bound on shards is not below the bound on rows, so that a plan
  fits.  `ControlPlane`: the blank slug is no slug.  `LayoutService`: every request has
  one of the wire forms its admission tells apart.
- `Services`: `CallsOk`, the `CallsAssumption` of section 3.8, which the callers' code
  justifies at the lines it names, and `ScenariosApart`: a scenario is of one service.
- `Programs`: `DataOk`, the shapes that an Arrow schema, an admitted request, the output
  of ATLAS and the JSON schema of a typed answer impose (edges are pairs, passages have
  an id and a text), and that a character folds to one or more; `ImagesAssumption`: the
  image that is built is none that was there.

TLC evaluates each of them on the instances of section 4.

### 5.10 Only model-checked

Liveness (`Settles` of five components): fairness and `ENABLED` are beyond the proof
system used here.  That the inputs, requests and replies of the instances are those
the programs meet is a matter of the model, not of a proof.

## 6. Not modelled, and why

The components marked `not_modelled` in `PROJECT.json`: support (one insert),
observation (append-only rows), the bridge (a stub), settings, the smokes, the
benches and the native oracle script (sequential, one process, nothing left behind
but a directory), which keep no state that several steps could bring into
disagreement; the executors library, pure functions over one request.  Partly
modelled: the fitter appears as the `Fit` step of `CompetenceJob`, without its
arithmetic (weighted sums of floats); the `stub` and `local` execution modes of offload
jobs, the review rows and the status routes of an extraction are left out, and so
are the parsers of the document library.

Inside modelled components: timestamps and their order (except `age` and days),
logs and provenance, HTTP validation (a refused request changes nothing), the bytes
of artifacts (which execution wrote them is kept), retries inside one HTTP call.
