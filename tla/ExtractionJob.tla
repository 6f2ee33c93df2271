---------------------------- MODULE ExtractionJob ----------------------------
(***************************************************************************)
(* Fan-out extraction: apps/extraction/{api,tasks,planner,admin}.py.       *)
(*                                                                         *)
(* One job: its input is cut into shards, each written as an artifact and  *)
(* given an offload job.  submit_extraction plans outside any lock and     *)
(* adopts its plan under the job's lock; reconcile_extraction folds the    *)
(* offload rows into the shards and the job without one, and splits a      *)
(* shard whose output was too large.  The cancel route, the admin's        *)
(* actions and a periodic sweep run beside them.                           *)
(***************************************************************************)
EXTENDS Integers, FiniteSets, Sequences

CONSTANTS
    MaxRows,    \* rows of the largest source
    MaxShards,  \* bound on the shards: a first plan fits, splits stop there
    Execs,      \* Celery worker slots that run submit_extraction or a sweep
    Scenarios   \* sources and bounds to explore; Init picks one of them

\* A scenario: the rows of the source, the rows that fit in
\* EXTRACTION_MAX_INPUT_BYTES, the error texts that an offload job may end with,
\* by its number of rows ("" when it succeeds), and bounds on what happens:
\* splits of a shard, uses of a cancel and of the admin's re-run, faults
\* (crashes, refused calls, lost or repeated messages), and executions and
\* cancels under way at a time.
ScenarioSet == [rows : 0..MaxRows, fit : Nat \ {0},
                outcomes : [0..MaxRows -> SUBSET {"", "error", "oversize"}], splits : Nat,
                cancels : Nat, reruns : Nat, faults : Nat, actors : Nat]

ASSUME ConstantsAssumption ==
    /\ MaxRows \in Nat /\ MaxShards \in Nat \ {0} /\ MaxRows <= MaxShards
    /\ Scenarios \subseteq ScenarioSet

VARIABLES
    status,            \* control_extractionjob.status
    shard,             \* control_extractionshard, by index
    offload,           \* control_job: the offload job of a shard
    store,             \* object store: the input artifacts under the job
    submits,           \* submit_extraction messages in flight
    sent,              \* other messages in flight: <<kind, shard>>
    attempts,          \* planning ids drawn so far
    pc, loc,           \* one execution: position and locals
    canceler,          \* cancel route or admin action: position, shards to cancel
    leaked,            \* history: artifacts no one knows of after a fault
    extracted,         \* history: rows some offload job has extracted
    scenario,          \* the source, and what may still happen
    faulty             \* history: a fault has happened

rowVars == <<status, shard, offload>>
messageVars == <<submits, sent>>
execVars == <<pc, loc>>
historyVars == <<leaked, extracted, faulty>>
vars == <<rowVars, store, messageVars, attempts, execVars, canceler,
          scenario, historyVars>>

Shards == 1..MaxShards
Terminal == {"succeeded", "partial", "failed", "canceled"}
\* ExtractionJob.Status and ExtractionShard.Status; nothing here tells a queued
\* shard or offload job from a running one, both are "active".
JobStates == {"absent", "queued", "running"} \cup Terminal
OffloadStates == {"active", "succeeded", "failed", "canceled"}
ShardStates == OffloadStates \cup {"superseded"}
\* What an error text is looked at for: output_exceeds_max_bytes, with or
\* without the note that a replan was refused, or anything else.
Errors == {"", "error", "oversize", "refused"}

\* An artifact key names the planning attempt; its rows are lo..hi.
Artifacts == [plan : Nat, lo : 1..(MaxRows + 1), hi : 0..MaxRows]
NoShard == [status |-> "absent"]
NoOffload == [status |-> "none"]
ShardRows == [status : ShardStates, error : Errors, input : Artifacts]
OffloadRows == [status : OffloadStates, error : Errors]
\* What a query of shards returns: the columns the task looks at.
Copies == [status : ShardStates, error : Errors]
Locals == [id : Nat, plans : Seq(Artifacts), list : [Shards -> {NoShard} \cup Copies],
           create : Seq(Shards), fan : Seq(Shards), folded : JobStates \cup {""}]
NoList == [i \in Shards |-> NoShard]
Idle == [id |-> 0, plans |-> <<>>, list |-> NoList, create |-> <<>>, fan |-> <<>>,
         folded |-> ""]
NotCanceling == [at |-> "idle", todo |-> {}]
Positions == {"idle", "submit", "plan", "unplanned", "adopt", "abandon",
              "fanout", "read", "load", "sync", "replan", "create", "dispatch",
              "reload", "resync", "save"}

\* Type invariant: rows, messages and the locals of the executions.
TypeOK ==
    /\ status \in JobStates
    /\ shard \in [Shards -> {NoShard} \cup ShardRows]
    /\ offload \in [Shards -> {NoOffload} \cup OffloadRows]
    /\ store \subseteq Artifacts
    /\ submits \in Nat
    /\ sent \subseteq {"dispatch", "cancel", "rerun"} \X Shards
    /\ attempts \in Nat
    /\ pc \in [Execs -> Positions]
    /\ loc \in [Execs -> Locals]
    /\ canceler \in [at : {"idle", "shards", "job"}, todo : SUBSET Shards]
    /\ leaked \subseteq Artifacts /\ extracted \subseteq 1..MaxRows
    /\ scenario \in ScenarioSet /\ faulty \in BOOLEAN

Init ==
    /\ status = "absent"
    /\ shard = [i \in Shards |-> NoShard]
    /\ offload = [i \in Shards |-> NoOffload]
    /\ store = {} /\ submits = 0 /\ sent = {} /\ attempts = 0
    /\ pc = [e \in Execs |-> "idle"]
    /\ loc = [e \in Execs |-> Idle]
    /\ canceler = NotCanceling
    /\ leaked = {} /\ extracted = {}
    /\ scenario \in Scenarios /\ faulty = FALSE

(***************************************************************************)
(* Helpers                                                                 *)
(***************************************************************************)
Lowest(S) == CHOOSE x \in S : \A y \in S : x <= y
Elements(s) == {s[k] : k \in DOMAIN s}
SourceRows == 1..scenario.rows
RowsOf(artifact) == artifact.lo..artifact.hi

Created == {i \in Shards : shard[i] # NoShard}
Current == {i \in Created : shard[i].status # "superseded"}
NextIndex == Cardinality(Created) + 1

\* One use of what the scenario allows.
UseFault == scenario.faults > 0 /\ scenario' = [scenario EXCEPT !.faults = @ - 1]
UseSplit == scenario.splits > 0 /\ scenario' = [scenario EXCEPT !.splits = @ - 1]
UseCancel == scenario.cancels > 0 /\ scenario' = [scenario EXCEPT !.cancels = @ - 1]
UseRerun == scenario.reruns > 0 /\ scenario' = [scenario EXCEPT !.reruns = @ - 1]
Fault == UseFault /\ faulty' = TRUE

Begin == Cardinality({e \in Execs : pc[e] # "idle"})
         + (IF canceler.at = "idle" THEN 0 ELSE 1) < scenario.actors
Goto(e, label) == pc' = [pc EXCEPT ![e] = label] /\ UNCHANGED loc
GotoWith(e, label, locals) ==
    /\ pc' = [pc EXCEPT ![e] = label]
    /\ loc' = [loc EXCEPT ![e] = locals]
EndExec(e) == GotoWith(e, "idle", Idle)
NewShard(input) == [status |-> "active", error |-> "", input |-> input]
NewOffload == [status |-> "active", error |-> ""]
Loaded(S) ==
    [i \in Shards |-> IF i \in S THEN [status |-> shard[i].status, error |-> shard[i].error]
                                 ELSE NoShard]
Listed(list) == {i \in Shards : list[i] # NoShard}

(***************************************************************************)
(* POST /submit, and the delivery of its message                           *)
(***************************************************************************)
\* submit: one row per request under the tenant lock, the message after the
\* commit.  A replay of the request finds the row and changes nothing.
Submit ==
    /\ status = "absent"
    /\ status' = "queued"
    /\ submits' = submits + 1
    /\ UNCHANGED <<shard, offload, store, sent, attempts, execVars, canceler,
                   scenario, historyVars>>

\* The broker loses the message, or delivers it a second time.
DisturbSubmit ==
    /\ submits > 0
    /\ submits' \in {submits - 1, submits + 1}
    /\ Fault
    /\ UNCHANGED <<rowVars, store, sent, attempts, execVars, canceler,
                   leaked, extracted>>

Receive(e) ==
    /\ pc[e] = "idle" /\ Begin /\ submits > 0
    /\ submits' = submits - 1
    /\ Goto(e, "submit")
    /\ UNCHANGED <<rowVars, store, sent, attempts, canceler, scenario, historyVars>>

(***************************************************************************)
(* submit_extraction: plan, adopt, fan out                                 *)
(***************************************************************************)
\* A canceled job ends the task, one with shards is only reconciled.
SubmitRead(e) ==
    /\ pc[e] = "submit"
    /\ \/ status = "canceled" /\ EndExec(e) /\ UNCHANGED attempts
       \/ status # "canceled" /\ Created # {} /\ Goto(e, "read") /\ UNCHANGED attempts
       \/ /\ status # "canceled" /\ Created = {}
          /\ attempts' = attempts + 1
          /\ GotoWith(e, "plan", [Idle EXCEPT !.id = attempts + 1])
    /\ UNCHANGED <<rowVars, store, messageVars, canceler, scenario, historyVars>>

\* The next rows that fit together (_split_table); an empty source has one
\* empty shard.
NextPiece(plans, id) ==
    LET first == IF plans = <<>> THEN 1 ELSE plans[Len(plans)].hi + 1
        full == first + scenario.fit - 1
        last == IF full < scenario.rows THEN full ELSE scenario.rows
    IN [plan |-> id, lo |-> first, hi |-> last]

\* plan_shards writes one artifact after the other, without a lock.
Plan(e) ==
    LET piece == NextPiece(loc[e].plans, loc[e].id)
    IN /\ pc[e] = "plan"
       /\ \/ /\ piece.lo <= scenario.rows \/ loc[e].plans = <<>>
             /\ store' = store \cup {piece}
             /\ GotoWith(e, "plan", [loc[e] EXCEPT !.plans = Append(@, piece)])
          \/ /\ piece.lo > scenario.rows /\ loc[e].plans # <<>>
             /\ Goto(e, "adopt")
             /\ UNCHANGED store
       /\ UNCHANGED <<rowVars, messageVars, attempts, canceler, scenario, historyVars>>

\* Artifacts an execution has written and no shard refers to yet.
InHand(e) == Elements(loc[e].plans)

\* Mutant of Discard: everything under the job's prefix is deleted.
DiscardPrefix(e, kept) ==
    /\ store' = kept
    /\ leaked' = leaked \cup kept

\* discard_plans: some of the deletes may fail.
Discard(e, kept) ==
    /\ store' = store \ (InHand(e) \ kept)
    /\ leaked' = leaked \cup kept

\* The source or the store refuses: what was written is discarded, then ...
PlanError(e) ==
    /\ pc[e] = "plan"
    /\ \E kept \in SUBSET InHand(e) : Discard(e, kept)
    /\ GotoWith(e, "unplanned", Idle)
    /\ Fault
    /\ UNCHANGED <<rowVars, messageVars, attempts, canceler, extracted>>

\* ... the job fails, unless it was canceled or another delivery adopted its plan.
PlanFailed(e) ==
    /\ pc[e] = "unplanned"
    /\ status' = IF status = "canceled" \/ Created # {} THEN status ELSE "failed"
    /\ EndExec(e)
    /\ UNCHANGED <<shard, offload, store, messageVars, attempts, canceler,
                   scenario, historyVars>>

\* The first transaction that finds the job uncanceled and without shards
\* creates them all, with their offload jobs.
AdoptPlan(e) ==
    LET plans == loc[e].plans
    IN /\ status # "canceled" /\ Created = {}
       /\ status' = "running"
       /\ shard' = [i \in Shards |-> IF i \in DOMAIN plans
                                     THEN NewShard(plans[i]) ELSE NoShard]
       /\ offload' = [i \in Shards |-> IF i \in DOMAIN plans
                                       THEN NewOffload ELSE NoOffload]
       /\ GotoWith(e, "fanout", [Idle EXCEPT !.fan = [k \in DOMAIN plans |-> k]])

\* Mutant of Adopt: a plan that is not adopted is forgotten, not discarded.
AdoptOrForget(e) ==
    /\ pc[e] = "adopt"
    /\ \/ AdoptPlan(e)
       \/ (status = "canceled" \/ Created # {}) /\ EndExec(e) /\ UNCHANGED rowVars
    /\ UNCHANGED <<store, messageVars, attempts, canceler, scenario, historyVars>>

\* Mutant of Adopt: the locked row's status is not looked at.
AdoptCanceled(e) ==
    LET plans == loc[e].plans
    IN /\ pc[e] = "adopt" /\ Created = {}
       /\ status' = "running"
       /\ shard' = [i \in Shards |-> IF i \in DOMAIN plans
                                     THEN NewShard(plans[i]) ELSE NoShard]
       /\ offload' = [i \in Shards |-> IF i \in DOMAIN plans
                                       THEN NewOffload ELSE NoOffload]
       /\ GotoWith(e, "fanout", [Idle EXCEPT !.fan = [k \in DOMAIN plans |-> k]])
       /\ UNCHANGED <<store, messageVars, attempts, canceler, scenario, historyVars>>

Adopt(e) ==
    /\ pc[e] = "adopt"
    /\ \/ AdoptPlan(e)
       \/ /\ status = "canceled" \/ Created # {}
          /\ Goto(e, "abandon")
          /\ UNCHANGED rowVars
    /\ UNCHANGED <<store, messageVars, attempts, canceler, scenario, historyVars>>

Abandon(e) ==
    /\ pc[e] = "abandon"
    /\ Discard(e, {})
    /\ EndExec(e)
    /\ UNCHANGED <<rowVars, messageVars, attempts, canceler, scenario, extracted, faulty>>

\* _dispatch_shard for each new shard; afterwards submit_extraction reconciles,
\* and reconcile_extraction loads its shards again.
Dispatch(e) ==
    /\ \/ pc[e] = "fanout" /\ GotoWith(e, "read", Idle)
       \/ pc[e] = "dispatch" /\ GotoWith(e, "reload", Idle)
    /\ sent' = sent \cup {<<"dispatch", i>> : i \in Elements(loc[e].fan)}
    /\ UNCHANGED <<rowVars, store, submits, attempts, canceler, scenario, historyVars>>

\* The task dies part way through the messages.
DispatchFail(e) ==
    /\ pc[e] \in {"fanout", "dispatch"}
    /\ \E out \in SUBSET Elements(loc[e].fan) :
          sent' = sent \cup {<<"dispatch", i>> : i \in out}
    /\ EndExec(e)
    /\ Fault
    /\ UNCHANGED <<rowVars, store, submits, attempts, canceler, leaked, extracted>>

\* The process dies, or an exception ends the task: what it had written for an
\* adoption is discarded (plan_shards, submit_extraction) as far as it can be.
Fail(e) ==
    /\ pc[e] \notin {"idle", "fanout", "dispatch"}
    /\ \E kept \in SUBSET InHand(e) : Discard(e, kept)
    /\ EndExec(e)
    /\ Fault
    /\ UNCHANGED <<rowVars, messageVars, attempts, canceler, extracted>>

(***************************************************************************)
(* reconcile_extraction                                                    *)
(***************************************************************************)
\* Mutant of StartSweep: running jobs are not swept.
StartSweepQueued(e) ==
    /\ pc[e] = "idle" /\ Begin /\ status = "queued"
    /\ Goto(e, "read")
    /\ UNCHANGED <<rowVars, store, messageVars, attempts, canceler, scenario, historyVars>>

\* sweep_extraction_jobs picks the queued and running jobs.
StartSweep(e) ==
    /\ pc[e] = "idle" /\ Begin /\ status \in {"queued", "running"}
    /\ Goto(e, "read")
    /\ UNCHANGED <<rowVars, store, messageVars, attempts, canceler, scenario, historyVars>>

\* The only look at the job's status before it is saved at the end.
ReconcileRead(e) ==
    /\ pc[e] = "read"
    /\ \/ status = "canceled" /\ EndExec(e)
       \/ status # "canceled" /\ Goto(e, "load")
    /\ UNCHANGED <<rowVars, store, messageVars, attempts, canceler, scenario, historyVars>>

\* Both loops walk a list of rows loaded by one query.
Load(e) ==
    /\ \/ /\ pc[e] = "load"
          /\ GotoWith(e, "sync", [Idle EXCEPT !.list = Loaded(Created)])
       \/ /\ pc[e] = "reload"
          /\ GotoWith(e, "resync", [Idle EXCEPT !.list = Loaded(Current)])
    /\ UNCHANGED <<rowVars, store, messageVars, attempts, canceler, scenario, historyVars>>

\* The copy after _sync_shard; an unchanged copy is not saved, a changed one is
\* saved whole, over whatever the row has become since it was loaded.
Synced(list, i) == IF offload[i] = NoOffload THEN list[i] ELSE offload[i]
SaveCopies(list, synced) ==
    shard' = [i \in Shards |->
        IF i \in synced /\ Synced(list, i) # list[i]
        THEN [status |-> Synced(list, i).status, error |-> Synced(list, i).error,
              input |-> shard[i].input]
        ELSE shard[i]]
TooLarge(copy) == copy.status = "failed" /\ copy.error \in {"oversize", "refused"}

\* First loop: the copies up to the next shard whose output exceeded max_bytes
\* are synced (each touches only its own row), and that shard is split.
Sync(e) ==
    LET list == loc[e].list
        live == {i \in Listed(list) : list[i].status # "superseded"}
        large == {i \in live : TooLarge(Synced(list, i))}
        upto(i) == {k \in live : k <= i}
    IN /\ pc[e] = "sync"
       /\ IF large = {}
          THEN /\ SaveCopies(list, live)
               /\ GotoWith(e, "dispatch", [loc[e] EXCEPT !.list = NoList])
          ELSE /\ SaveCopies(list, upto(Lowest(large)))
               /\ GotoWith(e, "replan", [loc[e] EXCEPT !.list =
                     [k \in Shards |-> IF k < Lowest(large) THEN NoShard ELSE list[k]]])
       /\ UNCHANGED <<status, offload, store, messageVars, attempts, canceler,
                      scenario, historyVars>>

\* The two halves of a shard's rows, under a planning id of their own.
Halves(artifact, id) ==
    LET n == artifact.hi - artifact.lo + 1
        middle == artifact.lo + n \div 2 - 1
    IN <<[plan |-> id, lo |-> artifact.lo, hi |-> middle],
         [plan |-> id, lo |-> middle + 1, hi |-> artifact.hi]>>

NextShard(e) == Lowest(Listed(loc[e].list))
Rest(e) == [loc[e].list EXCEPT ![NextShard(e)] = NoShard]

\* A shard of fewer than two rows cannot be split: both rows are annotated.
ReplanRefused(e) ==
    LET i == NextShard(e)
    IN /\ pc[e] = "replan"
       /\ Cardinality(RowsOf(shard[i].input)) < 2
       /\ shard' = [shard EXCEPT ![i].error = "refused"]
       /\ offload' = [offload EXCEPT ![i].error = "refused"]
       /\ GotoWith(e, "sync", [loc[e] EXCEPT !.list = Rest(e)])
       /\ UNCHANGED <<status, store, messageVars, attempts, canceler,
                      scenario, historyVars>>

\* The transaction of replan_shard, job and shard locked: halves into a, b,
\* original superseded.
SplitInto(e, halves) ==
    LET i == NextShard(e)
        a == NextIndex
        b == NextIndex + 1
    IN /\ b <= MaxShards /\ UseSplit
       /\ shard' = [shard EXCEPT ![a] = NewShard(halves[1]),
                                 ![b] = NewShard(halves[2]),
                                 ![i].status = "superseded"]
       /\ store' = store \cup Elements(halves)
       /\ attempts' = attempts + 1
       /\ GotoWith(e, "create", [loc[e] EXCEPT !.list = Rest(e),
                                               !.create = <<a, b>>])
       /\ UNCHANGED <<status, offload, messageVars, canceler, historyVars>>

\* Mutant of Replan: the halves overlap the middle and leave the last row out.
ReplanShort(e) ==
    LET i == NextShard(e)
        halves == Halves(shard[i].input, attempts + 1)
    IN /\ pc[e] = "replan"
       /\ Cardinality(RowsOf(shard[i].input)) >= 2
       /\ shard[i].input \in store
       /\ \/ /\ shard[i].status = "superseded"
             /\ GotoWith(e, "sync", [loc[e] EXCEPT !.list = Rest(e)])
             /\ UNCHANGED <<rowVars, store, messageVars, attempts, canceler,
                            scenario, historyVars>>
          \/ /\ shard[i].status # "superseded"
             /\ SplitInto(e, <<halves[1], [halves[1] EXCEPT !.plan = @]>>)

\* The input is read back before the lock is taken.
Replan(e) ==
    LET i == NextShard(e)
    IN /\ pc[e] = "replan"
       /\ Cardinality(RowsOf(shard[i].input)) >= 2
       /\ shard[i].input \in store
       /\ \/ /\ shard[i].status = "superseded"
             /\ GotoWith(e, "sync", [loc[e] EXCEPT !.list = Rest(e)])
             /\ UNCHANGED <<rowVars, store, messageVars, attempts, canceler,
                            scenario, historyVars>>
          \/ /\ shard[i].status # "superseded"
             /\ SplitInto(e, Halves(shard[i].input, attempts + 1))

\* The transaction rolls back, or the process dies in it: halves already
\* written are discarded as far as they can be.
ReplanFail(e) ==
    /\ pc[e] = "replan"
    /\ Cardinality(RowsOf(shard[NextShard(e)].input)) >= 2
    /\ \E kept \in SUBSET Elements(Halves(shard[NextShard(e)].input, attempts + 1)) :
          store' = store \cup kept /\ leaked' = leaked \cup kept
    /\ attempts' = attempts + 1
    /\ EndExec(e)
    /\ Fault
    /\ UNCHANGED <<rowVars, messageVars, canceler, extracted>>

\* Mutant of CreateOffload: only the first replacement is given an offload job.
CreateOffloadFirst(e) ==
    /\ pc[e] = "create"
    /\ LET i == Head(loc[e].create)
       IN /\ offload' = [offload EXCEPT ![i] = NewOffload]
          /\ GotoWith(e, "sync", [loc[e] EXCEPT !.create = <<>>, !.fan = Append(@, i)])
    /\ UNCHANGED <<status, shard, store, messageVars, attempts, canceler,
                   scenario, historyVars>>

\* After the commit, an offload job for each replacement.
CreateOffload(e) ==
    /\ pc[e] = "create"
    /\ LET i == Head(loc[e].create)
       IN /\ offload' = [offload EXCEPT ![i] = NewOffload]
          /\ GotoWith(e, IF Len(loc[e].create) = 1 THEN "sync" ELSE "create",
                      [loc[e] EXCEPT !.create = Tail(@), !.fan = Append(@, i)])
    /\ UNCHANGED <<status, shard, store, messageVars, attempts, canceler,
                   scenario, historyVars>>

\* Mutant of Fold: a job without shards keeps an empty status.
FoldNone(seen) ==
    IF seen = {} THEN "" ELSE IF seen = {"succeeded"} THEN "succeeded" ELSE "running"

\* Mutant of Fold: one shard that succeeded is enough.
FoldAny(seen) ==
    CASE "succeeded" \in seen -> "succeeded"
      [] "active" \in seen -> "running"
      [] seen = {"canceled"} -> "canceled"
      [] OTHER -> "failed"

\* The job's status from those of its shards.
Fold(seen) ==
    CASE seen = {"succeeded"} -> "succeeded"
      [] "active" \in seen -> "running"
      [] seen = {"canceled"} -> "canceled"
      [] "active" \notin seen /\ "succeeded" \in seen /\ seen # {"succeeded"} -> "partial"
      [] OTHER -> "failed"

\* Second loop, over the shards that are not superseded.
Resync(e) ==
    LET list == loc[e].list
    IN /\ pc[e] = "resync"
       /\ SaveCopies(list, Listed(list))
       /\ GotoWith(e, "save", [Idle EXCEPT !.folded =
                                  Fold({Synced(list, i).status : i \in Listed(list)})])
       /\ UNCHANGED <<status, offload, store, messageVars, attempts, canceler,
                      scenario, historyVars>>

\* The folded status is saved over whatever the job has become.
Save(e) ==
    /\ pc[e] = "save"
    /\ status' = loc[e].folded
    /\ EndExec(e)
    /\ UNCHANGED <<shard, offload, store, messageVars, attempts, canceler,
                   scenario, historyVars>>

(***************************************************************************)
(* Cancel route, admin actions                                             *)
(***************************************************************************)
\* cancel ("api") and cancel_jobs ("admin") read the job and then its shards;
\* the route skips shards without an offload job.  Nothing is locked.
CancelStart ==
    /\ canceler.at = "idle" /\ Begin /\ UseCancel
    /\ status \in {"queued", "running", "partial"}
    /\ \E by \in {"api", "admin"} :
          canceler' = [at |-> "shards",
                       todo |-> {i \in Created : /\ shard[i].status = "active"
                                                 /\ by = "api" => offload[i] # NoOffload}]
    /\ UNCHANGED <<rowVars, store, messageVars, attempts, execVars,
                   historyVars>>

CancelShards ==
    /\ canceler.at = "shards"
    /\ canceler' = [at |-> "job", todo |-> {}]
    /\ sent' = sent \cup {<<"cancel", i>> :
                           i \in {i \in canceler.todo : offload[i] # NoOffload}}
    /\ shard' = [i \in Shards |-> IF i \in canceler.todo
                   THEN [shard[i] EXCEPT !.status = "canceled"] ELSE shard[i]]
    /\ UNCHANGED <<status, offload, store, submits, attempts, execVars,
                   scenario, historyVars>>

CancelSave ==
    /\ canceler.at = "job"
    /\ canceler' = NotCanceling
    /\ status' = "canceled"
    /\ UNCHANGED <<shard, offload, store, messageVars, attempts, execVars,
                   scenario, historyVars>>

CancelFail ==
    /\ canceler.at # "idle"
    /\ canceler' = NotCanceling
    /\ Fault
    /\ UNCHANGED <<rowVars, store, messageVars, attempts, execVars,
                   leaked, extracted>>

\* rerun_failed_shards: one transaction, the messages after its commit.
RerunFailed ==
    LET failed == {i \in Created : shard[i].status = "failed" /\ offload[i] # NoOffload}
    IN /\ failed # {} /\ UseRerun
       /\ shard' = [i \in Shards |-> IF i \in failed
                       THEN [shard[i] EXCEPT !.status = "active", !.error = ""]
                       ELSE shard[i]]
       /\ sent' = sent \cup {<<"rerun", i>> : i \in failed}
       /\ status' = IF status \in {"failed", "partial"} THEN "running" ELSE status
       /\ UNCHANGED <<offload, store, submits, attempts, execVars, canceler,
                      historyVars>>

(***************************************************************************)
(* The offload jobs, as this component sees them (module OffloadJob)       *)
(***************************************************************************)
\* dispatch_offload and the execution: a canceled row ends it.
OffloadSkip(i) ==
    /\ <<"dispatch", i>> \in sent /\ offload[i].status = "canceled"
    /\ sent' = sent \ {<<"dispatch", i>>}
    /\ UNCHANGED <<rowVars, store, submits, attempts, execVars, canceler,
                   scenario, historyVars>>

OffloadRun(i) ==
    /\ <<"dispatch", i>> \in sent /\ offload[i].status # "canceled"
    /\ sent' = sent \ {<<"dispatch", i>>}
    /\ \E outcome \in scenario.outcomes[Cardinality(RowsOf(shard[i].input))] :
          /\ offload' = [offload EXCEPT ![i] =
                [status |-> IF outcome = "" THEN "succeeded" ELSE "failed",
                 error |-> outcome]]
          /\ extracted' = IF outcome = "" THEN extracted \cup RowsOf(shard[i].input)
                          ELSE extracted
    /\ UNCHANGED <<status, shard, store, submits, attempts, execVars, canceler,
                   scenario, leaked, faulty>>

\* cancel_job_task
OffloadCancel(i) ==
    /\ <<"cancel", i>> \in sent
    /\ sent' = sent \ {<<"cancel", i>>}
    /\ offload' = [offload EXCEPT ![i].status = "canceled"]
    /\ UNCHANGED <<status, shard, store, submits, attempts, execVars, canceler,
                   scenario, historyVars>>

\* re_run_job
OffloadRerun(i) ==
    /\ <<"rerun", i>> \in sent
    /\ sent' = (sent \ {<<"rerun", i>>}) \cup {<<"dispatch", i>>}
    /\ offload' = [offload EXCEPT ![i] = NewOffload]
    /\ UNCHANGED <<status, shard, store, submits, attempts, execVars, canceler,
                   scenario, historyVars>>

\* The broker loses one of these messages.
LoseMessage ==
    /\ \E m \in sent : sent' = sent \ {m}
    /\ Fault
    /\ UNCHANGED <<rowVars, store, submits, attempts, execVars, canceler,
                   leaked, extracted>>

SubmitStep(e) ==
    \/ SubmitRead(e) \/ Plan(e) \/ PlanFailed(e) \/ Adopt(e) \/ Abandon(e)
    \/ Dispatch(e)
ReconcileStep(e) ==
    \/ ReconcileRead(e) \/ Load(e) \/ Sync(e) \/ Replan(e)
    \/ ReplanRefused(e) \/ CreateOffload(e) \/ Resync(e) \/ Save(e)
OffloadStep(i) ==
    OffloadSkip(i) \/ OffloadRun(i) \/ OffloadCancel(i) \/ OffloadRerun(i)
FaultStep ==
    \/ DisturbSubmit \/ LoseMessage
    \/ \E e \in Execs : PlanError(e) \/ DispatchFail(e) \/ ReplanFail(e) \/ Fail(e)
    \/ CancelFail

Next ==
    \/ Submit \/ RerunFailed \/ FaultStep
    \/ \E e \in Execs : Receive(e) \/ StartSweep(e) \/ SubmitStep(e) \/ ReconcileStep(e)
    \/ CancelStart \/ CancelShards \/ CancelSave
    \/ \E i \in Shards : OffloadStep(i)

Spec == Init /\ [][Next]_vars

\* Celery delivers messages and runs the tasks it has started, beat sweeps
\* every EXTRACTION_SWEEP_INTERVAL_SECONDS, offload jobs end (module OffloadJob)
\* and a web request that has begun goes on.
Fairness ==
    /\ \A e \in Execs : WF_vars(SubmitStep(e) \/ ReconcileStep(e))
    /\ WF_vars(\E e \in Execs : Receive(e))
    /\ WF_vars(\E e \in Execs : StartSweep(e))
    /\ \A i \in Shards : /\ WF_vars(OffloadSkip(i) \/ OffloadRun(i))
                         /\ WF_vars(OffloadCancel(i)) /\ WF_vars(OffloadRerun(i))
    /\ WF_vars(CancelShards \/ CancelSave)
FairSpec == Spec /\ Fairness

(***************************************************************************)
(* Properties                                                              *)
(***************************************************************************)
\* Once shards exist, every row of the source is the input of one that is not
\* superseded: no interleaving of replans, stale saves and faults loses rows.
RowsCovered ==
    Created # {} => UNION {RowsOf(shard[i].input) : i \in Current} = SourceRows

\* Discarding an unadopted plan never deletes the input of a shard.
InputsKept == \A i \in Created : shard[i].input \in store

\* Neither the rows nor the objects that hold them get lost
\* (planner.py discard_plans and replan_shard, tasks.py reconcile_extraction).
SourceKept == RowsCovered /\ InputsKept

\* An artifact without a shard is in the hands of an execution that will adopt
\* or discard it, or was left behind by a fault.
PlansAccounted ==
    store \subseteq {shard[i].input : i \in Created}
                    \cup (UNION {InHand(e) : e \in Execs}) \cup leaked

\* A job is reported succeeded only when every row has been extracted.
SucceededExtracted == status = "succeeded" => extracted = SourceRows

\* Without a fault no shard waits for work that nobody will do: one without an
\* offload job is in the hands of the execution that split its parent, and an
\* offload job that has yet to run has its message on the way, or an execution
\* that will send it.  Shards are committed before their offload jobs, and these
\* before their messages, while others adopt, split, cancel and re-run.
WorkAccounted ==
    \A i \in Created :
        \/ faulty
        \/ offload[i] = NoOffload /\ \E e \in Execs : i \in Elements(loc[e].create)
        \/ /\ offload[i].status = "active"
           /\ <<"dispatch", i>> \in sent \/ \E e \in Execs : i \in Elements(loc[e].fan)
        \/ offload[i].status \in {"succeeded", "failed", "canceled"}

\* A canceled job changes its status again only through the last save of a
\* reconcile that had read it before the cancel: planning and adoption never
\* bring it back.
CancelLostToFold ==
    [][status = "canceled" /\ status' # "canceled" =>
          \E e \in Execs : pc[e] = "save" /\ pc'[e] = "idle"]_vars

\* Without faults, and within the bound on splits, every job that is submitted
\* settles for good.
Settles ==
    <>[](\/ status \in {"absent"} \cup Terminal
         \/ faulty
         \/ \E e \in Execs : pc[e] = "replan" /\ scenario.splits = 0)
=============================================================================
