------------------------- MODULE ExtractionJobProofs -------------------------
(***************************************************************************)
(* Machine-checked safety of ExtractionJob, for any source, any number of  *)
(* workers and any bounds on splits, cancels, re-runs and faults.          *)
(***************************************************************************)
EXTENDS ExtractionJob, FiniteSetTheorems, SequenceTheorems, TLAPS

(***************************************************************************)
(* The strengthening                                                       *)
(***************************************************************************)

\* Shards are numbered as they are created, so that a replan takes free numbers.
Numbered == \E n \in 0..MaxShards : Created = 1..n

\* Offload jobs belong to shards, and only they make a shard fail.
OffloadsOfShards ==
    \A i \in Shards : /\ offload[i] # NoOffload => i \in Created
                      /\ shard[i].status = "failed" => offload[i] # NoOffload

MessagesNameOffloads == \A m \in sent : offload[m[2]] # NoOffload

\* What an execution and the cancel route have loaded or are about to create
\* and dispatch still exists.
LocalsName(e) ==
    /\ Listed(loc[e].list) \subseteq Created
    /\ \A i \in Shards : loc[e].list[i].status = "failed" => offload[i] # NoOffload
    /\ Elements(loc[e].create) \subseteq Created
    /\ \A i \in Elements(loc[e].fan) : offload[i] # NoOffload
    /\ pc[e] = "create" => loc[e].create # <<>>
    /\ pc[e] = "replan" => /\ Listed(loc[e].list) # {}
                           /\ offload[NextShard(e)] # NoOffload
    /\ pc[e] = "save" => loc[e].folded # ""

NamesKept == /\ \A e \in Execs : LocalsName(e)
             /\ canceler.todo \subseteq Created

\* Shards are in hand only between the transaction that commits them and the
\* message of the last of them.
HandsKept ==
    \A e \in Execs :
        /\ pc[e] # "create" => loc[e].create = <<>>
        /\ pc[e] \notin {"fanout", "sync", "replan", "create", "dispatch"} => loc[e].fan = <<>>

\* Every plan is written under an id of its own.
Planning(e) == pc[e] \in {"plan", "adopt", "abandon"}

PlanOwned(e) ==
    /\ loc[e].id \in 1..attempts
    /\ \A i \in Created : shard[i].input.plan # loc[e].id
    /\ \A f \in Execs : Planning(f) /\ f # e => loc[f].id # loc[e].id
    /\ \A p \in InHand(e) : p.plan = loc[e].id /\ p \in store

PlansOwned ==
    /\ \A e \in Execs : IF Planning(e) THEN PlanOwned(e) ELSE loc[e].plans = <<>>
    /\ \A i \in Created : shard[i].input.plan \in 0..attempts

\* A plan in hand holds the first rows of the source, and all of them once it is
\* ready to be adopted.
LastRow(plans) == IF plans = <<>> THEN 0 ELSE plans[Len(plans)].hi

PlansCover ==
    \A e \in Execs :
        LET plans == loc[e].plans
        IN /\ UNION {RowsOf(p) : p \in Elements(plans)} = 1..LastRow(plans)
           /\ LastRow(plans) <= scenario.rows
           /\ \/ Len(plans) <= LastRow(plans)
              \/ Len(plans) = 1 /\ scenario.rows = 0
           /\ pc[e] = "adopt" => plans # <<>> /\ LastRow(plans) = scenario.rows

\* The rows of every shard, a superseded one too, are rows of the source.
RowsInside == \A i \in Created : RowsOf(shard[i].input) \subseteq SourceRows

\* What is said to have succeeded has been extracted, whoever says it.
Extracted(i) == RowsOf(shard[i].input) \subseteq extracted

SuccessExtracted ==
    /\ extracted \subseteq SourceRows
    /\ \A i \in Created :
          /\ offload[i].status = "succeeded" => Extracted(i)
          /\ shard[i].status = "succeeded" => Extracted(i)
          /\ \A e \in Execs : loc[e].list[i].status = "succeeded" => Extracted(i)

\* The second loop of a reconcile walks shards that cover the source.
LoadedCover ==
    \A e \in Execs : pc[e] = "resync" =>
        LET listed == Listed(loc[e].list)
        IN listed = {} \/ UNION {RowsOf(shard[i].input) : i \in listed} = SourceRows

FoldedExtracted ==
    \A e \in Execs : loc[e].folded = "succeeded" => extracted = SourceRows

IInv ==
    /\ TypeOK
    /\ Numbered
    /\ OffloadsOfShards
    /\ MessagesNameOffloads
    /\ NamesKept
    /\ HandsKept
    /\ WorkAccounted
    /\ PlansOwned
    /\ PlansCover
    /\ RowsInside
    /\ SourceKept
    /\ PlansAccounted
    /\ SuccessExtracted
    /\ LoadedCover
    /\ FoldedExtracted
    /\ SucceededExtracted

(***************************************************************************)
(* The records of the model                                                *)
(***************************************************************************)
LEMMA RowTypes ==
    /\ \A s \in ShardRows : /\ s.status \in ShardStates /\ s.error \in Errors
                            /\ s.input \in Artifacts /\ s # NoShard /\ s.status # "absent"
    /\ \A c \in Copies, a \in Artifacts :
          LET s == [status |-> c.status, error |-> c.error, input |-> a]
          IN s \in ShardRows /\ s.status = c.status /\ s.input = a
    /\ \A a \in Artifacts : /\ NewShard(a) \in ShardRows /\ NewShard(a).input = a
                            /\ NewShard(a).status = "active"
    /\ NoShard.status = "absent"
<1>1. "absent" \notin ShardStates /\ "active" \in ShardStates /\ "" \in Errors
  BY DEF ShardStates, OffloadStates, Errors
<1>2. NoShard.status = "absent"
  BY DEF NoShard
<1>3. \A s \in ShardRows : /\ s.status \in ShardStates /\ s.error \in Errors
                           /\ s.input \in Artifacts
  BY DEF ShardRows
<1>4. \A s \in ShardRows : s # NoShard /\ s.status # "absent"
  BY <1>1, <1>2, <1>3
<1>5. \A c \in Copies, a \in Artifacts :
          LET s == [status |-> c.status, error |-> c.error, input |-> a]
          IN s \in ShardRows /\ s.status = c.status /\ s.input = a
  BY DEF ShardRows, Copies
<1>6. \A a \in Artifacts : /\ NewShard(a) \in ShardRows /\ NewShard(a).input = a
                           /\ NewShard(a).status = "active"
  BY <1>1 DEF ShardRows, NewShard
<1>7. QED  BY <1>2, <1>3, <1>4, <1>5, <1>6

\* An offload job's row, and the copy of it that a sync makes.
LEMMA OffloadTypes ==
    /\ \A o \in OffloadRows : /\ o.status \in OffloadStates /\ o.error \in Errors
                              /\ o # NoOffload /\ o \in Copies
    /\ \A x \in OffloadStates, y \in Errors :
          /\ [status |-> x, error |-> y] \in OffloadRows
          /\ [status |-> x, error |-> y].status = x
    /\ NewOffload \in OffloadRows /\ NewOffload.status = "active"
    /\ NoOffload.status = "none"
<1>1. "none" \notin OffloadStates /\ "active" \in OffloadStates /\ "" \in Errors
  BY DEF OffloadStates, Errors
<1>2. NoOffload.status = "none"
  BY DEF NoOffload
<1>3. \A o \in OffloadRows : o.status \in OffloadStates /\ o.error \in Errors
  BY DEF OffloadRows
<1>4. \A o \in OffloadRows : o # NoOffload
  BY <1>1, <1>2, <1>3
<1>5. \A o \in OffloadRows : o \in Copies
  BY DEF OffloadRows, Copies, ShardStates
<1>6. \A x \in OffloadStates, y \in Errors :
          /\ [status |-> x, error |-> y] \in OffloadRows
          /\ [status |-> x, error |-> y].status = x
  BY DEF OffloadRows
<1>7. NewOffload \in OffloadRows /\ NewOffload.status = "active"
  BY <1>1 DEF OffloadRows, NewOffload
<1>8. QED  BY <1>2, <1>3, <1>4, <1>5, <1>6, <1>7

\* The copies that a query of shards returns.
LEMMA CopyTypes ==
    /\ \A c \in Copies : /\ c.status \in ShardStates /\ c.error \in Errors /\ c # NoShard
                         /\ c.status # "absent"
    /\ \A s \in ShardRows :
          /\ [status |-> s.status, error |-> s.error] \in Copies
          /\ [status |-> s.status, error |-> s.error].status = s.status
<1>1. "absent" \notin ShardStates /\ NoShard.status = "absent"
  BY DEF ShardStates, OffloadStates, NoShard
<1>2. \A c \in Copies : c.status \in ShardStates /\ c.error \in Errors
  BY DEF Copies
<1>3. \A c \in Copies : c # NoShard /\ c.status # "absent"
  BY <1>1, <1>2
<1>4. \A s \in ShardRows :
          /\ [status |-> s.status, error |-> s.error] \in Copies
          /\ [status |-> s.status, error |-> s.error].status = s.status
  BY DEF ShardRows, Copies
<1>5. QED  BY <1>2, <1>3, <1>4

\* The artifacts of plans and halves.
LEMMA ArtifactTypes ==
    /\ \A a \in Artifacts : a.plan \in Nat /\ a.lo \in 1..(MaxRows + 1) /\ a.hi \in 0..MaxRows
    /\ \A p \in Nat, l \in 1..(MaxRows + 1), h \in 0..MaxRows :
          LET a == [plan |-> p, lo |-> l, hi |-> h]
          IN a \in Artifacts /\ a.plan = p /\ a.lo = l /\ a.hi = h
BY DEF Artifacts

Copied == [Shards -> {NoShard} \cup Copies]

\* The locals of an execution that has nothing in hand.
LEMMA IdleType ==
    /\ Idle \in Locals /\ Idle.id = 0 /\ Idle.plans = <<>> /\ Idle.list = NoList
    /\ Idle.create = <<>> /\ Idle.fan = <<>> /\ Idle.folded = ""
    /\ Listed(NoList) = {} /\ \A i \in Shards : NoList[i] = NoShard
BY DEF Idle, Locals, NoList, Listed

\* The fields of any other's.
LEMMA LocalsTypes ==
    ASSUME NEW l \in Locals
    PROVE  /\ l.id \in Nat /\ l.plans \in Seq(Artifacts) /\ l.list \in Copied
           /\ l.create \in Seq(Shards) /\ l.fan \in Seq(Shards)
           /\ l.folded \in JobStates \cup {""}
BY DEF Locals, Copied

\* The scenario's counts.
Uses == UseFault \/ UseSplit \/ UseCancel \/ UseRerun

\* A use of what the scenario allows is counted; the source is not touched.
LEMMA UsesType ==
    ASSUME scenario \in ScenarioSet, Uses \/ scenario' = scenario
    PROVE  /\ scenario' \in ScenarioSet /\ scenario'.rows = scenario.rows
           /\ scenario'.fit = scenario.fit /\ scenario'.outcomes = scenario.outcomes
<1> DEFINE R == [0..MaxRows -> SUBSET {"", "error", "oversize"}]
<1> HIDE DEF R
<1>0. ScenarioSet = [rows : 0..MaxRows, fit : Nat \ {0}, outcomes : R, splits : Nat,
                     cancels : Nat, reruns : Nat, faults : Nat, actors : Nat]
  BY DEF ScenarioSet, R
<1>1. /\ scenario.faults \in Nat /\ scenario.splits \in Nat
      /\ scenario.cancels \in Nat /\ scenario.reruns \in Nat
  BY <1>0
<1>2. \A n \in Nat : n > 0 => n - 1 \in Nat
  OBVIOUS
<1>3. CASE UseFault  BY <1>0, <1>1, <1>2, <1>3 DEF UseFault
<1>4. CASE UseSplit  BY <1>0, <1>1, <1>2, <1>4 DEF UseSplit
<1>5. CASE UseCancel  BY <1>0, <1>1, <1>2, <1>5 DEF UseCancel
<1>6. CASE UseRerun  BY <1>0, <1>1, <1>2, <1>6 DEF UseRerun
<1>7. QED  BY <1>3, <1>4, <1>5, <1>6 DEF Uses

\* CHOOSE finds the lowest number of a set.
LEMMA LowestIn ==
    ASSUME NEW S, S # {}, S \subseteq Nat
    PROVE  Lowest(S) \in S /\ \A y \in S : Lowest(S) <= y
<1>1. \E x \in S : \A y \in S : ~ (<<y, x>> \in OpToRel(<, Nat))
  BY NatLessThanWellFounded, WFMin
<1>2. PICK x \in S : \A y \in S : ~ (y < x)
  BY <1>1 DEF OpToRel
<1>3. \A y \in S : x <= y
  BY <1>2
<1>4. QED  BY <1>3 DEF Lowest

(***************************************************************************)
(* Who changes what                                                        *)
(***************************************************************************)
\* The status of the job.
LEMMA StatusSteps ==
    ASSUME [Next]_vars, status' # status
    PROVE  \/ Submit \/ CancelSave \/ RerunFailed
           \/ \E e \in Execs : PlanFailed(e) \/ Adopt(e) \/ Save(e)
BY DEF vars, rowVars, messageVars, execVars, historyVars, Next, SubmitStep,
       ReconcileStep, OffloadStep, FaultStep, DisturbSubmit, Receive, SubmitRead,
       Plan, PlanError, Abandon, Discard, Dispatch, DispatchFail, Fail, StartSweep,
       ReconcileRead, Load, Sync, ReplanRefused, Replan, SplitInto, ReplanFail,
       CreateOffload, Resync, CancelStart, CancelShards, CancelFail, OffloadSkip,
       OffloadRun, OffloadCancel, OffloadRerun, LoseMessage, Fault

\* The shards.
LEMMA ShardSteps ==
    ASSUME [Next]_vars, shard' # shard
    PROVE  \/ CancelShards \/ RerunFailed
           \/ \E e \in Execs : \/ Adopt(e) \/ Sync(e) \/ Resync(e)
                              \/ ReplanRefused(e) \/ Replan(e)
BY DEF vars, rowVars, messageVars, execVars, historyVars, Next, SubmitStep,
       ReconcileStep, OffloadStep, FaultStep, Submit, DisturbSubmit, Receive,
       SubmitRead, Plan, PlanError, PlanFailed, Abandon, Discard, Dispatch,
       DispatchFail, Fail, StartSweep, ReconcileRead, Load, ReplanFail,
       CreateOffload, Save, CancelStart, CancelSave, CancelFail, OffloadSkip,
       OffloadRun, OffloadCancel, OffloadRerun, LoseMessage, Goto, GotoWith,
        EndExec, Fault

\* Their offload jobs.
LEMMA OffloadSteps ==
    ASSUME [Next]_vars, offload' # offload
    PROVE  \/ \E e \in Execs : Adopt(e) \/ ReplanRefused(e) \/ CreateOffload(e)
           \/ \E i \in Shards : OffloadRun(i) \/ OffloadCancel(i) \/ OffloadRerun(i)
BY DEF vars, rowVars, messageVars, execVars, historyVars, Next, SubmitStep,
       ReconcileStep, OffloadStep, FaultStep, Submit, DisturbSubmit, Receive,
       SubmitRead, Plan, PlanError, PlanFailed, Abandon, Discard, Dispatch,
       DispatchFail, Fail, StartSweep, ReconcileRead, Load, Sync, Replan,
       SplitInto, ReplanFail, Resync, Save, CancelStart, CancelShards, CancelSave,
       CancelFail, RerunFailed, OffloadSkip, LoseMessage, Goto, GotoWith, EndExec,
       Fault

\* The input artifacts.
LEMMA StoreSteps ==
    ASSUME [Next]_vars, store' # store \/ leaked' # leaked
    PROVE  \E e \in Execs : \/ Plan(e) \/ PlanError(e) \/ Abandon(e) \/ Fail(e)
                              \/ Replan(e) \/ ReplanFail(e)
BY DEF vars, rowVars, messageVars, execVars, historyVars, Next, SubmitStep,
       ReconcileStep, OffloadStep, FaultStep, Submit, DisturbSubmit, Receive,
       SubmitRead, PlanFailed, Adopt, AdoptPlan, Dispatch, DispatchFail,
       StartSweep, ReconcileRead, Load, Sync, ReplanRefused, CreateOffload, Resync,
       Save, CancelStart, CancelShards, CancelSave, CancelFail, RerunFailed,
       OffloadSkip, OffloadRun, OffloadCancel, OffloadRerun, LoseMessage, Goto,
       GotoWith,  EndExec, Fault

\* The messages.
LEMMA SentSteps ==
    ASSUME [Next]_vars, sent' # sent
    PROVE  \/ \E e \in Execs : Dispatch(e) \/ DispatchFail(e)
           \/ CancelShards \/ RerunFailed \/ LoseMessage
           \/ \E i \in Shards : OffloadStep(i)
BY DEF vars, rowVars, messageVars, execVars, historyVars, Next, SubmitStep,
       ReconcileStep, FaultStep, Submit, DisturbSubmit, Receive, SubmitRead, Plan,
       PlanError, PlanFailed, Adopt, AdoptPlan, Abandon, Discard, Fail, StartSweep,
       ReconcileRead, Load, Sync, ReplanRefused, Replan, SplitInto, ReplanFail,
       CreateOffload, Resync, Save, CancelStart, CancelSave, CancelFail, Goto,
       GotoWith,  EndExec, Fault

\* The planning ids.
LEMMA AttemptsSteps ==
    ASSUME [Next]_vars, attempts' # attempts
    PROVE  attempts' = attempts + 1 /\ \E e \in Execs : SubmitRead(e) \/ Replan(e) \/ ReplanFail(e)
BY DEF vars, rowVars, messageVars, execVars, historyVars, Next, SubmitStep,
       ReconcileStep, OffloadStep, FaultStep, Submit, DisturbSubmit, Receive,
       SubmitRead, Plan, PlanError, PlanFailed, Adopt, AdoptPlan, Abandon, Discard,
       Dispatch, DispatchFail, Fail, StartSweep, ReconcileRead, Load, Sync,
       ReplanRefused, Replan, SplitInto, ReplanFail, CreateOffload, Resync, Save,
       CancelStart, CancelShards, CancelSave, CancelFail, RerunFailed, OffloadSkip,
       OffloadRun, OffloadCancel, OffloadRerun, LoseMessage, Goto, GotoWith,
        EndExec, Fault

\* What may still happen; the source stays.
LEMMA ScenarioSteps ==
    ASSUME [Next]_vars, TRUE
    PROVE  Uses \/ scenario' = scenario
BY DEF Uses, vars, rowVars, messageVars, execVars, historyVars, Next, SubmitStep,
       ReconcileStep, OffloadStep, FaultStep, Submit, DisturbSubmit, Receive,
       SubmitRead, Plan, PlanError, PlanFailed, Adopt, AdoptPlan, Abandon, Discard,
       Dispatch, DispatchFail, Fail, StartSweep, ReconcileRead, Load, Sync,
       ReplanRefused, Replan, SplitInto, ReplanFail, CreateOffload, Resync, Save,
       CancelStart, CancelShards, CancelSave, CancelFail, RerunFailed, OffloadSkip,
       OffloadRun, OffloadCancel, OffloadRerun, LoseMessage, Goto, GotoWith,
        EndExec, Fault

\* The rows that were extracted.
LEMMA ExtractedSteps ==
    ASSUME [Next]_vars, extracted' # extracted
    PROVE  \E i \in Shards : OffloadRun(i)
BY DEF vars, rowVars, messageVars, execVars, historyVars, Next, SubmitStep,
       ReconcileStep, OffloadStep, FaultStep, Submit, DisturbSubmit, Receive,
       SubmitRead, Plan, PlanError, PlanFailed, Adopt, AdoptPlan, Abandon, Discard,
       Dispatch, DispatchFail, Fail, StartSweep, ReconcileRead, Load, Sync,
       ReplanRefused, Replan, SplitInto, ReplanFail, CreateOffload, Resync, Save,
       CancelStart, CancelShards, CancelSave, CancelFail, RerunFailed, OffloadSkip,
       OffloadCancel, OffloadRerun, LoseMessage, Goto, GotoWith, EndExec, Fault

\* The cancel route.
LEMMA CancelerSteps ==
    ASSUME [Next]_vars, canceler' # canceler
    PROVE  CancelStart \/ CancelShards \/ CancelSave \/ CancelFail
BY DEF vars, rowVars, messageVars, execVars, historyVars, Next, SubmitStep,
       ReconcileStep, OffloadStep, FaultStep, Submit, DisturbSubmit, Receive,
       SubmitRead, Plan, PlanError, PlanFailed, Adopt, AdoptPlan, Abandon, Discard,
       Dispatch, DispatchFail, Fail, StartSweep, ReconcileRead, Load, Sync,
       ReplanRefused, Replan, SplitInto, ReplanFail, CreateOffload, Resync, Save,
       RerunFailed, OffloadSkip, OffloadRun, OffloadCancel, OffloadRerun,
       LoseMessage, Goto, GotoWith, EndExec, Fault

\* An execution.
ExecMoves(e) ==
    \/ Receive(e) \/ StartSweep(e) \/ SubmitStep(e) \/ ReconcileStep(e)
    \/ PlanError(e) \/ DispatchFail(e) \/ ReplanFail(e) \/ Fail(e)

\* Locals and positions change only by an execution's own move.
LEMMA ExecSteps ==
    ASSUME [Next]_vars, execVars' # execVars
    PROVE  \E e \in Execs : ExecMoves(e)
BY DEF ExecMoves, vars, rowVars, messageVars, execVars, historyVars, Next,
       OffloadStep, FaultStep, Submit, DisturbSubmit, CancelStart, CancelShards,
       CancelSave, CancelFail, RerunFailed, OffloadSkip, OffloadRun, OffloadCancel,
       OffloadRerun, LoseMessage, Fault

\* A move leaves the other executions alone.
LEMMA OthersStay ==
    ASSUME TypeOK, NEW e \in Execs, ExecMoves(e)
    PROVE  \A f \in Execs \ {e} : pc'[f] = pc[f] /\ loc'[f] = loc[f]
<1> USE DEF rowVars, messageVars, execVars, historyVars, SubmitStep, ReconcileStep,
           OffloadStep, FaultStep, Submit, DisturbSubmit, Receive, SubmitRead,
           Plan, PlanError, PlanFailed, Adopt, AdoptPlan, Abandon, Discard,
           Dispatch, DispatchFail, Fail, StartSweep, ReconcileRead, Load, Sync,
           ReplanRefused, Replan, SplitInto, ReplanFail, CreateOffload, Resync,
           Save, CancelStart, CancelShards, CancelSave, CancelFail, RerunFailed,
           OffloadSkip, OffloadRun, OffloadCancel, OffloadRerun, LoseMessage, Goto,
           GotoWith, EndExec, Fault
<1>1. DOMAIN pc = Execs /\ DOMAIN loc = Execs
  BY DEF TypeOK
<1>2. QED  BY <1>1 DEF ExecMoves

(***************************************************************************)
(* Type correctness                                                        *)
(***************************************************************************)
\* The piece that a plan goes on with.
LEMMA PieceType ==
    ASSUME TypeOK, PlansCover, NEW e \in Execs, NEW piece,
           piece = NextPiece(loc[e].plans, loc[e].id),
           piece.lo <= scenario.rows \/ loc[e].plans = <<>>
    PROVE  /\ piece \in Artifacts /\ piece.plan = loc[e].id
           /\ piece.lo = LastRow(loc[e].plans) + 1
           /\ piece.hi <= scenario.rows
           /\ \/ piece.lo <= piece.hi
              \/ loc[e].plans = <<>> /\ scenario.rows = 0 /\ piece.hi = 0
<1> DEFINE plans == loc[e].plans
           first == LastRow(plans) + 1
           full == first + scenario.fit - 1
           last == IF full < scenario.rows THEN full ELSE scenario.rows
<1>1. /\ scenario.rows \in 0..MaxRows /\ scenario.fit \in Nat \ {0} /\ MaxRows \in Nat
      /\ loc[e].id \in Nat /\ plans \in Seq(Artifacts)
  BY ConstantsAssumption, LocalsTypes DEF TypeOK, ScenarioSet
<1>2. LastRow(plans) \in 0..MaxRows /\ LastRow(plans) <= scenario.rows
  <2>1. CASE plans = <<>>
    BY <1>1, <2>1 DEF LastRow
  <2>2. CASE plans # <<>>
    <3>1. plans[Len(plans)] \in Artifacts
      BY <1>1, <2>2
    <3>2. QED  BY <2>2, <3>1, ArtifactTypes DEF LastRow, PlansCover
  <2>3. QED  BY <2>1, <2>2
<1>3. piece = [plan |-> loc[e].id, lo |-> first, hi |-> last]
  BY DEF NextPiece, LastRow
<1>4. first \in 1..(MaxRows + 1)
  BY <1>1, <1>2
<1>5. piece.plan = loc[e].id /\ piece.lo = first /\ piece.hi = last
  BY <1>3
<1>6. first <= scenario.rows \/ plans = <<>>
  BY <1>5
<1>7. /\ last \in 0..MaxRows /\ last <= scenario.rows
      /\ \/ first <= last
         \/ plans = <<>> /\ scenario.rows = 0 /\ last = 0
  <2>1. plans = <<>> => first = 1
    BY DEF LastRow
  <2> HIDE DEF first, plans
  <2>2. QED  BY <1>1, <1>4, <1>6, <2>1
<1>8. piece \in Artifacts
  <2> HIDE DEF first, last
  <2>1. QED  BY <1>1, <1>3, <1>4, <1>7, ArtifactTypes
<1>9. QED  BY <1>5, <1>7, <1>8

\* A plan that is ready to be adopted has shards enough.
LEMMA PlanFits ==
    ASSUME TypeOK, PlansCover, NEW e \in Execs, pc[e] = "adopt"
    PROVE  /\ loc[e].plans \in Seq(Artifacts) /\ Len(loc[e].plans) \in 1..MaxShards
           /\ DOMAIN loc[e].plans = 1..Len(loc[e].plans)
           /\ [k \in DOMAIN loc[e].plans |-> k] \in Seq(Shards)
<1> DEFINE plans == loc[e].plans
<1>1. /\ plans \in Seq(Artifacts) /\ plans # <<>> /\ LastRow(plans) = scenario.rows
      /\ Len(plans) <= LastRow(plans) \/ Len(plans) = 1
      /\ scenario.rows \in 0..MaxRows
      /\ MaxRows \in Nat /\ MaxShards \in Nat \ {0} /\ MaxRows <= MaxShards
  BY ConstantsAssumption, LocalsTypes DEF TypeOK, PlansCover, ScenarioSet
<1> HIDE DEF plans
<1>2. Len(plans) \in Nat /\ Len(plans) # 0 /\ DOMAIN plans = 1..Len(plans)
  BY <1>1
<1>3. Len(plans) \in 1..MaxShards
  BY <1>1, <1>2
<1>4. [k \in 1..Len(plans) |-> k] \in Seq(Shards)
  <2>1. \A k \in 1..Len(plans) : k \in Shards
    BY <1>1, <1>3 DEF Shards
  <2>2. [k \in 1..Len(plans) |-> k] \in [1..Len(plans) -> Shards]
    BY <2>1
  <2>3. QED  BY <1>2, <2>2, SeqDef
<1>5. QED  BY <1>1, <1>2, <1>3, <1>4 DEF plans

\* The copies of a list, before and after the sync.
LEMMA SyncedType ==
    ASSUME TypeOK, NEW list \in Copied, NEW i \in Listed(list)
    PROVE  i \in Shards /\ Synced(list, i) \in Copies
<1>1. i \in Shards /\ list[i] \in Copies
  BY DEF Listed, Copied
<1>2. offload[i] # NoOffload => offload[i] \in Copies
  BY <1>1, OffloadTypes DEF TypeOK
<1>3. QED  BY <1>1, <1>2 DEF Synced

\* Saving copies keeps inputs; a row that changes takes what its offload job says.
LEMMA SaveCopiesType ==
    ASSUME TypeOK, NEW list \in Copied, NEW S \in SUBSET Listed(list),
           Listed(list) \subseteq Created, SaveCopies(list, S)
    PROVE  /\ shard' \in [Shards -> {NoShard} \cup ShardRows]
           /\ \A i \in Shards : shard[i] # NoShard <=> shard'[i] # NoShard
           /\ \A i \in Created : shard'[i].input = shard[i].input
           /\ \A i \in Shards : \/ shard'[i] = shard[i]
                                \/ /\ offload[i] # NoOffload
                                   /\ shard'[i].status = offload[i].status
<1> DEFINE New(i) == [status |-> Synced(list, i).status, error |-> Synced(list, i).error,
                      input |-> shard[i].input]
<1>1. shard' = [i \in Shards |-> IF i \in S /\ Synced(list, i) # list[i] THEN New(i) ELSE shard[i]]
  BY DEF SaveCopies
<1>2. \A i \in Created : shard[i] \in ShardRows /\ shard[i].input \in Artifacts
  BY RowTypes DEF Created, TypeOK
<1>3. \A i \in S : /\ i \in Created /\ New(i) \in ShardRows /\ New(i) # NoShard
                   /\ New(i).input = shard[i].input /\ New(i).status = Synced(list, i).status
  <2>1. \A i \in S : Synced(list, i) \in Copies /\ shard[i].input \in Artifacts
    BY <1>2, SyncedType
  <2>2. QED  BY <2>1, RowTypes
<1>4. \A i \in S : Synced(list, i) # list[i] => /\ offload[i] # NoOffload
                                               /\ Synced(list, i).status = offload[i].status
  BY DEF Synced
<1> HIDE DEF New
<1>5. shard \in [Shards -> {NoShard} \cup ShardRows]
  BY DEF TypeOK
<1>6. QED  BY <1>1, <1>2, <1>3, <1>4, <1>5 DEF Created

\* The rows of an artifact, counted.
LEMMA RowsCount ==
    ASSUME NEW a \in Artifacts
    PROVE  Cardinality(RowsOf(a)) = IF a.lo > a.hi THEN 0 ELSE a.hi - a.lo + 1
<1>1. a.lo \in Int /\ a.hi \in Int
  BY ConstantsAssumption, ArtifactTypes
<1>2. QED  BY <1>1, FS_Interval DEF RowsOf

\* The halves of an artifact have all its rows.
LEMMA HalvesType ==
    ASSUME NEW a \in Artifacts, NEW id \in Nat, Cardinality(RowsOf(a)) >= 2
    PROVE  /\ Halves(a, id)[1] \in Artifacts /\ Halves(a, id)[2] \in Artifacts
           /\ Halves(a, id)[1].plan = id /\ Halves(a, id)[2].plan = id
           /\ RowsOf(Halves(a, id)[1]) \cup RowsOf(Halves(a, id)[2]) = RowsOf(a)
           /\ Elements(Halves(a, id)) = {Halves(a, id)[1], Halves(a, id)[2]}
<1> DEFINE middle == a.lo + (a.hi - a.lo + 1) \div 2 - 1
           x == [plan |-> id, lo |-> a.lo, hi |-> middle]
           y == [plan |-> id, lo |-> middle + 1, hi |-> a.hi]
<1>1. Halves(a, id) = <<x, y>>
  BY DEF Halves
<1>2. Halves(a, id)[1] = x /\ Halves(a, id)[2] = y /\ Elements(Halves(a, id)) = {x, y}
  BY <1>1 DEF Elements
<1>3. a.lo \in 1..(MaxRows + 1) /\ a.hi \in 0..MaxRows /\ MaxRows \in Nat
  BY ConstantsAssumption, ArtifactTypes
<1>4. a.hi - a.lo + 1 >= 2
  BY <1>3, RowsCount
<1>5. middle \in Nat /\ a.lo <= middle /\ middle < a.hi
  BY <1>3, <1>4
<1>6. x \in Artifacts /\ y \in Artifacts
  <2>1. middle \in 0..MaxRows /\ middle + 1 \in 1..(MaxRows + 1)
    BY <1>3, <1>5
  <2> HIDE DEF middle
  <2>2. QED  BY <1>3, <2>1, ArtifactTypes
<1>7. RowsOf(x) \cup RowsOf(y) = RowsOf(a)
  <2>1. RowsOf(x) = a.lo..middle /\ RowsOf(y) = (middle + 1)..a.hi
    BY DEF RowsOf
  <2>2. \A l \in Nat, m \in Nat, h \in Nat : l <= m /\ m < h => (l..m) \cup ((m + 1)..h) = l..h
    OBVIOUS
  <2>3. a.lo \in Nat /\ a.hi \in Nat
    BY <1>3
  <2> HIDE DEF middle, x, y
  <2>4. (a.lo..middle) \cup ((middle + 1)..a.hi) = a.lo..a.hi
    BY <1>5, <2>2, <2>3
  <2>5. RowsOf(a) = a.lo..a.hi
    BY DEF RowsOf
  <2>6. QED  BY <2>1, <2>4, <2>5
<1>8. QED
  <2> HIDE DEF middle
  <2>1. x.plan = id /\ y.plan = id
    OBVIOUS
  <2>2. QED  BY <1>2, <1>6, <1>7, <2>1

\* The numbers after the shards are free.
LEMMA NextFree ==
    ASSUME TypeOK, Numbered
    PROVE  /\ NextIndex \in Nat \ {0} /\ Created = 1..(NextIndex - 1)
           /\ NextIndex \notin Created /\ NextIndex + 1 \notin Created
<1>1. PICK n \in 0..MaxShards : Created = 1..n
  BY DEF Numbered
<1>2. n \in Nat
  BY <1>1, ConstantsAssumption
<1>3. Cardinality(1..n) = n
  BY <1>2, FS_Interval
<1>4. NextIndex = n + 1
  BY <1>1, <1>3 DEF NextIndex
<1>5. QED  BY <1>1, <1>2, <1>4

\* The shard that a replan is about, and what the replan needs of it.
LEMMA ReplanOf ==
    ASSUME TypeOK, NamesKept, NEW e \in Execs, pc[e] = "replan"
    PROVE  /\ NextShard(e) \in Created /\ NextShard(e) \in Shards
           /\ shard[NextShard(e)] \in ShardRows
           /\ shard[NextShard(e)].input \in Artifacts
           /\ offload[NextShard(e)] \in OffloadRows
<1>1. /\ Listed(loc[e].list) \subseteq Created /\ Listed(loc[e].list) # {}
      /\ offload[NextShard(e)] # NoOffload
  BY DEF NamesKept, LocalsName
<1>2. Listed(loc[e].list) \subseteq Nat /\ Listed(loc[e].list) \subseteq Shards
  BY DEF Listed, Shards
<1>3. NextShard(e) \in Listed(loc[e].list)
  BY <1>1, <1>2, LowestIn DEF NextShard
<1>4. QED  BY <1>1, <1>2, <1>3, RowTypes DEF TypeOK, Created

\* Shards keep their types and their inputs.
LEMMA ShardsStay ==
    ASSUME TypeOK, Numbered, NamesKept, PlansCover, [Next]_vars
    PROVE  /\ shard' \in [Shards -> {NoShard} \cup ShardRows]
           /\ \A i \in Created : i \in Created' /\ shard'[i].input = shard[i].input
<1> DEFINE Kept == /\ shard' \in [Shards -> {NoShard} \cup ShardRows]
                   /\ \A i \in Created : i \in Created' /\ shard'[i].input = shard[i].input
<1>0. shard \in [Shards -> {NoShard} \cup ShardRows] /\ Created \subseteq Shards
      /\ \A i \in Created : shard[i] \in ShardRows
  BY DEF TypeOK, Created
<1>1. CASE CancelShards
  <2>1. shard' = [i \in Shards |-> IF i \in canceler.todo
                   THEN [shard[i] EXCEPT !.status = "canceled"] ELSE shard[i]]
        /\ canceler.todo \subseteq Created /\ "canceled" \in ShardStates
    BY <1>1 DEF CancelShards, NamesKept, ShardStates, OffloadStates
  <2>2. \A i \in canceler.todo : /\ shard'[i] \in ShardRows /\ shard'[i].input = shard[i].input
    <3>1. ASSUME NEW i \in canceler.todo
          PROVE  /\ [shard[i] EXCEPT !.status = "canceled"] \in ShardRows
                 /\ [shard[i] EXCEPT !.status = "canceled"].input = shard[i].input
                 /\ shard'[i] = [shard[i] EXCEPT !.status = "canceled"]
      BY <1>0, <2>1 DEF ShardRows
    <3>2. QED  BY <3>1
  <2>3. QED  BY <1>0, <2>1, <2>2, RowTypes DEF Created
<1>2. CASE RerunFailed
  <2> DEFINE failed == {i \in Created : shard[i].status = "failed" /\ offload[i] # NoOffload}
  <2>1. shard' = [i \in Shards |-> IF i \in failed
                       THEN [shard[i] EXCEPT !.status = "active", !.error = ""]
                       ELSE shard[i]]
    BY <1>2 DEF RerunFailed
  <2>2. failed \subseteq Created
    OBVIOUS
  <2> HIDE DEF failed
  <2>3. \A i \in failed : /\ shard'[i] \in ShardRows /\ shard'[i].input = shard[i].input
    <3>1. "active" \in ShardStates /\ "" \in Errors
      BY DEF ShardStates, OffloadStates, Errors
    <3>2. ASSUME NEW i \in failed
          PROVE  /\ [shard[i] EXCEPT !.status = "active", !.error = ""] \in ShardRows
                 /\ [shard[i] EXCEPT !.status = "active", !.error = ""].input = shard[i].input
                 /\ shard'[i] = [shard[i] EXCEPT !.status = "active", !.error = ""]
      BY <1>0, <2>1, <2>2, <3>1 DEF ShardRows
    <3>3. QED  BY <3>2
  <2>4. QED  BY <1>0, <2>1, <2>2, <2>3, RowTypes DEF Created
<1>3. ASSUME NEW e \in Execs, Adopt(e), shard' # shard
      PROVE  Kept
  <2>1. Created = {} /\ pc[e] = "adopt"
        /\ shard' = [i \in Shards |-> IF i \in DOMAIN loc[e].plans
                                     THEN NewShard(loc[e].plans[i]) ELSE NoShard]
    BY <1>3 DEF Adopt, AdoptPlan, rowVars
  <2>2. \A i \in DOMAIN loc[e].plans : loc[e].plans[i] \in Artifacts
    BY <2>1, PlanFits, ElementOfSeq
  <2>3. QED  BY <2>1, <2>2, RowTypes
<1>4. ASSUME NEW e \in Execs, Sync(e) \/ Resync(e)
      PROVE  Kept
  <2>1. loc[e].list \in Copied /\ Listed(loc[e].list) \subseteq Created
    BY LocalsTypes DEF TypeOK, NamesKept, LocalsName
  <2>2. \E S \in SUBSET Listed(loc[e].list) : SaveCopies(loc[e].list, S)
    BY <1>4 DEF Sync, Resync
  <2>3. QED  BY <2>1, <2>2, SaveCopiesType DEF Created
<1>5. ASSUME NEW e \in Execs, ReplanRefused(e)
      PROVE  Kept
  <2>1. pc[e] = "replan" /\ shard' = [shard EXCEPT ![NextShard(e)].error = "refused"]
        /\ "refused" \in Errors
    BY <1>5 DEF ReplanRefused, Errors
  <2>2. NextShard(e) \in Created /\ shard[NextShard(e)] \in ShardRows
    BY <2>1, ReplanOf
  <2>3. shard'[NextShard(e)] = [shard[NextShard(e)] EXCEPT !.error = "refused"]
    BY <1>0, <2>1, <2>2
  <2>4. /\ shard'[NextShard(e)] \in ShardRows /\ shard'[NextShard(e)] # NoShard
        /\ shard'[NextShard(e)].input = shard[NextShard(e)].input
    <3>1. /\ [shard[NextShard(e)] EXCEPT !.error = "refused"] \in ShardRows
          /\ [shard[NextShard(e)] EXCEPT !.error = "refused"].input = shard[NextShard(e)].input
      BY <2>1, <2>2 DEF ShardRows
    <3>2. QED  BY <2>3, <3>1, RowTypes
  <2>5. \A i \in Shards : i # NextShard(e) => shard'[i] = shard[i]
    BY <1>0, <2>1
  <2>6. DOMAIN shard' = Shards /\ shard' = [i \in Shards |-> shard'[i]]
    BY <1>0, <2>1
  <2>7. QED  BY <1>0, <2>2, <2>4, <2>5, <2>6 DEF Created
<1>6. ASSUME NEW e \in Execs, Replan(e), shard' # shard
      PROVE  Kept
  <2> DEFINE i == NextShard(e)
             h == Halves(shard[i].input, attempts + 1)
             a == NextIndex
             b == NextIndex + 1
  <2>1. /\ pc[e] = "replan" /\ Cardinality(RowsOf(shard[i].input)) >= 2 /\ b <= MaxShards
        /\ shard' = [shard EXCEPT ![a] = NewShard(h[1]), ![b] = NewShard(h[2]),
                                  ![i].status = "superseded"]
    BY <1>6 DEF Replan, SplitInto, rowVars
  <2>2. /\ i \in Created /\ shard[i] \in ShardRows /\ shard[i].input \in Artifacts
        /\ a \notin Created /\ b \notin Created /\ a # b
    BY <2>1, ReplanOf, NextFree
  <2>3. NewShard(h[1]) \in ShardRows /\ NewShard(h[2]) \in ShardRows
    <3>1. attempts + 1 \in Nat
      BY DEF TypeOK
    <3>2. h[1] \in Artifacts /\ h[2] \in Artifacts
      BY <2>1, <2>2, <3>1, HalvesType
    <3>3. QED  BY <3>2, RowTypes
  <2>4. /\ [shard[i] EXCEPT !.status = "superseded"] \in ShardRows
        /\ [shard[i] EXCEPT !.status = "superseded"].input = shard[i].input
    <3>1. "superseded" \in ShardStates
      BY DEF ShardStates
    <3>2. QED  BY <2>2, <3>1 DEF ShardRows
  <2> HIDE DEF i, h, a, b
  <2>5. /\ shard'[i] = [shard[i] EXCEPT !.status = "superseded"]
        /\ \A k \in Shards : k \in {a, b} => shard'[k] \in ShardRows
        /\ \A k \in Shards : k \notin {a, b, i} => shard'[k] = shard[k]
        /\ shard' = [k \in Shards |-> shard'[k]]
    BY <1>0, <2>1, <2>2, <2>3
  <2>6. \A k \in Shards : /\ shard'[k] \in {NoShard} \cup ShardRows
                          /\ k \in Created => /\ shard'[k].input = shard[k].input
                                             /\ shard'[k] # NoShard
    <3>1. ASSUME NEW k \in Shards, k \in {a, b}
          PROVE  shard'[k] \in ShardRows /\ k \notin Created
      BY <2>2, <2>5, <3>1
    <3>2. ASSUME NEW k \in Shards, k = i
          PROVE  /\ shard'[k] \in ShardRows /\ shard'[k].input = shard[k].input
                 /\ shard'[k] # NoShard
      BY <2>4, <2>5, <3>2, RowTypes
    <3>3. ASSUME NEW k \in Shards, k \notin {a, b, i}
          PROVE  shard'[k] = shard[k]
      BY <2>5, <3>3
    <3>4. QED  BY <1>0, <3>1, <3>2, <3>3 DEF Created
  <2>7. shard' \in [Shards -> {NoShard} \cup ShardRows]
    <3>1. shard' = [k \in Shards |-> shard'[k]]
      BY <2>5
    <3>2. \A k \in Shards : shard'[k] \in {NoShard} \cup ShardRows
      BY <2>6
    <3>3. QED  BY <3>1, <3>2
  <2>8. \A k \in Created : k \in Created' /\ shard'[k].input = shard[k].input
    <3>1. \A k \in Created : shard'[k] # NoShard /\ shard'[k].input = shard[k].input
      BY <1>0, <2>6
    <3>2. QED  BY <1>0, <3>1 DEF Created
  <2>9. QED  BY <2>7, <2>8
<1>7. CASE shard' = shard
  BY <1>0, <1>7 DEF Created
<1>8. QED
  BY <1>1, <1>2, <1>3, <1>4, <1>5, <1>6, <1>7, ShardSteps

\* So do their offload jobs.
LEMMA OffloadsStay ==
    ASSUME TypeOK, OffloadsOfShards, MessagesNameOffloads, NamesKept, PlansCover, [Next]_vars
    PROVE  /\ offload' \in [Shards -> {NoOffload} \cup OffloadRows]
           /\ \A i \in Shards : offload[i] # NoOffload => offload'[i] # NoOffload
<1> DEFINE Kept == /\ offload' \in [Shards -> {NoOffload} \cup OffloadRows]
                   /\ \A i \in Shards : offload[i] # NoOffload => offload'[i] # NoOffload
<1>0. offload \in [Shards -> {NoOffload} \cup OffloadRows]
  BY DEF TypeOK
<1>1. ASSUME NEW e \in Execs, Adopt(e), offload' # offload
      PROVE  Kept
  <2>1. \A i \in Shards : offload[i] = NoOffload
    BY <1>1 DEF Adopt, AdoptPlan, rowVars, OffloadsOfShards
  <2>2. offload' = [i \in Shards |-> IF i \in DOMAIN loc[e].plans THEN NewOffload ELSE NoOffload]
    BY <1>1 DEF Adopt, AdoptPlan, rowVars
  <2>3. QED  BY <2>1, <2>2, OffloadTypes
<1>2. ASSUME NEW e \in Execs, ReplanRefused(e)
      PROVE  Kept
  <2>1. pc[e] = "replan" /\ offload' = [offload EXCEPT ![NextShard(e)].error = "refused"]
        /\ "refused" \in Errors
    BY <1>2 DEF ReplanRefused, Errors
  <2>2. offload[NextShard(e)] \in OffloadRows
    BY <2>1, ReplanOf
  <2>3. [offload[NextShard(e)] EXCEPT !.error = "refused"] \in OffloadRows
    BY <2>1, <2>2 DEF OffloadRows
  <2>4. offload' = [offload EXCEPT ![NextShard(e)] =
                         [offload[NextShard(e)] EXCEPT !.error = "refused"]]
    BY <2>1
  <2>5. QED  BY <1>0, <2>3, <2>4, OffloadTypes
<1>3. ASSUME NEW e \in Execs, CreateOffload(e)
      PROVE  Kept
  BY <1>0, <1>3, OffloadTypes DEF CreateOffload
<1>4. ASSUME NEW i \in Shards, OffloadCancel(i)
      PROVE  Kept
  <2>1. offload[i] \in OffloadRows /\ "canceled" \in OffloadStates
    BY <1>0, <1>4 DEF OffloadCancel, MessagesNameOffloads, OffloadStates
  <2>2. [offload[i] EXCEPT !.status = "canceled"] \in OffloadRows
    BY <2>1 DEF OffloadRows
  <2>3. offload' = [offload EXCEPT ![i] = [offload[i] EXCEPT !.status = "canceled"]]
    BY <1>4 DEF OffloadCancel
  <2>4. QED  BY <1>0, <2>2, <2>3, OffloadTypes
<1>5. ASSUME NEW i \in Shards, OffloadRerun(i)
      PROVE  Kept
  BY <1>0, <1>5, OffloadTypes DEF OffloadRerun
<1>6. ASSUME NEW i \in Shards, OffloadRun(i)
      PROVE  Kept
  <2>1. PICK outcome \in scenario.outcomes[Cardinality(RowsOf(shard[i].input))] :
          offload' = [offload EXCEPT ![i] =
                [status |-> IF outcome = "" THEN "succeeded" ELSE "failed",
                 error |-> outcome]]
    BY <1>6 DEF OffloadRun
  <2>2. i \in Created
    BY <1>6 DEF OffloadRun, MessagesNameOffloads, OffloadsOfShards
  <2>3. shard[i].input \in Artifacts
    BY <2>2, RowTypes DEF TypeOK, Created
  <2>4. Cardinality(RowsOf(shard[i].input)) \in 0..MaxRows
    BY <2>3, RowsCount, ArtifactTypes, ConstantsAssumption
  <2>5. outcome \in Errors
    BY <2>1, <2>4 DEF TypeOK, ScenarioSet, Errors
  <2>6. [status |-> IF outcome = "" THEN "succeeded" ELSE "failed",
         error |-> outcome] \in OffloadRows
    BY <2>5, OffloadTypes DEF OffloadStates
  <2>7. QED  BY <1>0, <2>1, <2>6, OffloadTypes
<1>7. CASE offload' = offload
  BY <1>0, <1>7
<1>8. QED
  BY <1>1, <1>2, <1>3, <1>4, <1>5, <1>6, <1>7, OffloadSteps

(***************************************************************************)
(* The locals of an execution                                              *)
(***************************************************************************)
\* The moves that leave no plan and no list behind, or change no local.
Quiet(e) ==
    \/ loc'[e] = Idle /\ pc'[e] \in {"idle", "unplanned", "read", "reload"}
    \/ loc'[e] = loc[e] /\ \/ pc[e] = "idle" /\ pc'[e] \in {"submit", "read"}
                           \/ pc[e] = "submit" /\ pc'[e] = "read"
                           \/ pc[e] = "read" /\ pc'[e] = "load"

StartPlan(e) ==
    /\ pc[e] = "submit" /\ Created = {} /\ attempts' = attempts + 1
    /\ pc'[e] = "plan" /\ loc'[e] = [Idle EXCEPT !.id = attempts + 1]

Loud(e) ==
    \/ StartPlan(e) \/ Plan(e) \/ Adopt(e) \/ Load(e) \/ Sync(e)
    \/ ReplanRefused(e) \/ Replan(e) \/ CreateOffload(e) \/ Resync(e)

\* A move is one of these.
LEMMA QuietMoves ==
    ASSUME TypeOK, NEW e \in Execs, ExecMoves(e)
    PROVE  Quiet(e) \/ Loud(e)
<1>1. DOMAIN pc = Execs /\ DOMAIN loc = Execs
  BY DEF TypeOK
<1>2. Receive(e) \/ StartSweep(e) => Quiet(e)
  BY <1>1 DEF Receive, StartSweep, Goto, Quiet
<1>3. SubmitRead(e) => Quiet(e) \/ StartPlan(e)
  BY <1>1 DEF SubmitRead, Goto, GotoWith, EndExec, Quiet, StartPlan
<1>4. PlanFailed(e) \/ Abandon(e) \/ Dispatch(e) \/ Save(e) => Quiet(e)
  BY <1>1 DEF PlanFailed, Abandon, Dispatch, Save, GotoWith, EndExec, Quiet
<1>5. ReconcileRead(e) => Quiet(e)
  BY <1>1 DEF ReconcileRead, Goto, GotoWith, EndExec, Quiet
<1>6. PlanError(e) \/ DispatchFail(e) \/ ReplanFail(e) \/ Fail(e) => Quiet(e)
  BY <1>1 DEF PlanError, DispatchFail, ReplanFail, Fail, GotoWith, EndExec, Quiet
<1>7. QED
  BY <1>2, <1>3, <1>4, <1>5, <1>6 DEF ExecMoves, SubmitStep, ReconcileStep, Loud

\* What an execution's locals become is what it does itself.
LEMMA OwnMoves ==
    ASSUME TypeOK, [Next]_vars, NEW e \in Execs
    PROVE  (pc'[e] = pc[e] /\ loc'[e] = loc[e]) \/ Quiet(e) \/ Loud(e)
<1>1. CASE execVars' = execVars  BY <1>1 DEF execVars
<1>2. CASE execVars' # execVars
  <2>1. PICK f \in Execs : ExecMoves(f)
    BY <1>2, ExecSteps
  <2>2. CASE f = e  BY <2>1, <2>2, QuietMoves
  <2>3. CASE f # e  BY <2>1, <2>3, OthersStay
  <2>4. QED  BY <2>2, <2>3
<1>3. QED  BY <1>1, <1>2

\* The locals after each of the loud moves.  A plan begins empty.
LEMMA StartPlanLocals ==
    ASSUME TypeOK, NEW e \in Execs, StartPlan(e)
    PROVE  /\ loc'[e] \in Locals /\ loc'[e].id = attempts + 1 /\ loc'[e].plans = <<>>
           /\ loc'[e].list = NoList /\ loc'[e].create = <<>> /\ loc'[e].fan = <<>>
           /\ loc'[e].folded = ""
<1>1. attempts + 1 \in Nat  BY DEF TypeOK
<1>2. loc'[e] = [Idle EXCEPT !.id = attempts + 1]  BY DEF StartPlan
<1>3. QED  BY <1>1, <1>2, IdleType DEF Locals

\* Plan goes on with a piece, or is done.
LEMMA PlanLocals ==
    ASSUME TypeOK, PlansCover, NEW e \in Execs, Plan(e)
    PROVE  /\ pc[e] = "plan"
           /\ \/ /\ pc'[e] = "adopt" /\ loc'[e] = loc[e] /\ store' = store
                 /\ loc[e].plans # <<>> /\ LastRow(loc[e].plans) = scenario.rows
              \/ \E piece \in Artifacts :
                    /\ piece = NextPiece(loc[e].plans, loc[e].id)
                    /\ piece.lo <= scenario.rows \/ loc[e].plans = <<>>
                    /\ pc'[e] = "plan" /\ store' = store \cup {piece}
                    /\ loc'[e] \in Locals
                    /\ loc'[e].plans = Append(loc[e].plans, piece)
                    /\ loc'[e].id = loc[e].id /\ loc'[e].list = loc[e].list
                    /\ loc'[e].create = loc[e].create /\ loc'[e].fan = loc[e].fan
                    /\ loc'[e].folded = loc[e].folded
<1> DEFINE piece == NextPiece(loc[e].plans, loc[e].id)
<1>1. DOMAIN pc = Execs /\ DOMAIN loc = Execs /\ loc[e] \in Locals
  BY DEF TypeOK
<1>2. pc[e] = "plan" /\ loc[e].plans \in Seq(Artifacts)
  BY <1>1, LocalsTypes DEF Plan
<1>3. ASSUME piece.lo <= scenario.rows \/ loc[e].plans = <<>>,
             store' = store \cup {piece},
             GotoWith(e, "plan", [loc[e] EXCEPT !.plans = Append(@, piece)])
      PROVE  /\ piece \in Artifacts /\ pc'[e] = "plan" /\ loc'[e] \in Locals
             /\ loc'[e].plans = Append(loc[e].plans, piece)
             /\ loc'[e].id = loc[e].id /\ loc'[e].list = loc[e].list
             /\ loc'[e].create = loc[e].create /\ loc'[e].fan = loc[e].fan
             /\ loc'[e].folded = loc[e].folded
  <2>1. piece \in Artifacts
    BY <1>3, PieceType
  <2>2. pc'[e] = "plan" /\ loc'[e] = [loc[e] EXCEPT !.plans = Append(loc[e].plans, piece)]
    BY <1>1, <1>3 DEF GotoWith
  <2> HIDE DEF piece
  <2>3. Append(loc[e].plans, piece) \in Seq(Artifacts)
    BY <1>2, <2>1
  <2>4. QED  BY <1>1, <2>1, <2>2, <2>3 DEF Locals
<1>4. ASSUME piece.lo > scenario.rows, loc[e].plans # <<>>, Goto(e, "adopt")
      PROVE  pc'[e] = "adopt" /\ loc'[e] = loc[e] /\ LastRow(loc[e].plans) = scenario.rows
  <2>1. pc'[e] = "adopt" /\ loc'[e] = loc[e]
    BY <1>1, <1>4 DEF Goto
  <2>2. piece.lo = LastRow(loc[e].plans) + 1
    BY <1>4 DEF NextPiece, LastRow
  <2>3. LastRow(loc[e].plans) \in Int
    <3>1. loc[e].plans[Len(loc[e].plans)] \in Artifacts
      <4> DEFINE plans == loc[e].plans
      <4>1. plans \in Seq(Artifacts) /\ plans # <<>>
        BY <1>2, <1>4
      <4> HIDE DEF plans
      <4>2. plans[Len(plans)] \in Artifacts
        BY <4>1
      <4>3. QED  BY <4>2 DEF plans
    <3>2. QED  BY <1>4, <3>1, ArtifactTypes, ConstantsAssumption DEF LastRow
  <2>4. LastRow(loc[e].plans) <= scenario.rows /\ scenario.rows \in Int
    <3>1. LastRow(loc[e].plans) <= scenario.rows
      BY DEF PlansCover
    <3>2. scenario.rows \in 0..MaxRows /\ MaxRows \in Nat
      BY ConstantsAssumption DEF TypeOK, ScenarioSet
    <3> HIDE DEF piece
    <3>3. scenario.rows \in Int
      BY <3>2
    <3>4. QED  BY <3>1, <3>3
  <2> HIDE DEF piece
  <2>5. QED  BY <1>4, <2>1, <2>2, <2>3, <2>4
<1>5. QED  BY <1>2, <1>3, <1>4 DEF Plan

\* Adoption has the shards to dispatch in hand, or hands the plan to Abandon.
LEMMA AdoptLocals ==
    ASSUME TypeOK, PlansCover, NEW e \in Execs, Adopt(e)
    PROVE  /\ pc[e] = "adopt"
           /\ \/ /\ pc'[e] = "abandon" /\ loc'[e] = loc[e] /\ shard' = shard
                 /\ offload' = offload /\ status' = status
              \/ /\ status # "canceled" /\ Created = {} /\ AdoptPlan(e) /\ status' = "running"
                 /\ pc'[e] = "fanout" /\ loc'[e] \in Locals /\ loc'[e].id = 0
                 /\ loc'[e].plans = <<>>  /\ loc'[e].list = NoList
                 /\ loc'[e].create = <<>> /\ loc'[e].folded = ""
                 /\ loc'[e].fan = [k \in DOMAIN loc[e].plans |-> k]
<1>1. DOMAIN pc = Execs /\ DOMAIN loc = Execs /\ loc[e] \in Locals
  BY DEF TypeOK
<1>2. pc[e] = "adopt"
  BY DEF Adopt
<1>3. ASSUME AdoptPlan(e)
      PROVE  /\ pc'[e] = "fanout" /\ loc'[e] \in Locals /\ loc'[e].id = 0
             /\ loc'[e].plans = <<>>  /\ loc'[e].list = NoList
             /\ loc'[e].create = <<>> /\ loc'[e].folded = ""
             /\ loc'[e].fan = [k \in DOMAIN loc[e].plans |-> k]
  <2> DEFINE fan == [k \in DOMAIN loc[e].plans |-> k]
  <2>1. fan \in Seq(Shards)
    BY <1>2, PlanFits
  <2>2. pc'[e] = "fanout" /\ loc'[e] = [Idle EXCEPT !.fan = fan]
    BY <1>1, <1>3 DEF AdoptPlan, GotoWith
  <2> HIDE DEF fan
  <2>3. /\ loc'[e] \in Locals /\ loc'[e].id = 0
        /\ loc'[e].plans = <<>>  /\ loc'[e].list = NoList
        /\ loc'[e].create = <<>> /\ loc'[e].folded = "" /\ loc'[e].fan = fan
    BY <2>1, <2>2, IdleType DEF Locals
  <2>4. QED  BY <2>2, <2>3 DEF fan
<1>4. QED  BY <1>1, <1>2, <1>3 DEF Adopt, AdoptPlan, Goto, rowVars

\* What the query of some shards returns.
LEMMA LoadedType ==
    ASSUME TypeOK, NEW S \in SUBSET Created
    PROVE  /\ Loaded(S) \in Copied /\ Listed(Loaded(S)) = S
           /\ \A i \in S : Loaded(S)[i].status = shard[i].status
           /\ \A i \in Shards \ S : Loaded(S)[i] = NoShard
<1>1. \A i \in S : i \in Shards /\ shard[i] \in ShardRows
  BY DEF Created, TypeOK
<1>2. \A i \in S : /\ [status |-> shard[i].status, error |-> shard[i].error] \in Copies
                   /\ [status |-> shard[i].status, error |-> shard[i].error].status = shard[i].status
                   /\ [status |-> shard[i].status, error |-> shard[i].error] # NoShard
  BY <1>1, CopyTypes
<1>3. \A i \in S : Loaded(S)[i] = [status |-> shard[i].status, error |-> shard[i].error]
  BY <1>1 DEF Loaded
<1>4. \A i \in Shards \ S : Loaded(S)[i] = NoShard
  BY DEF Loaded
<1>5. Loaded(S) = [i \in Shards |-> Loaded(S)[i]]
  BY DEF Loaded
<1>6. Loaded(S) \in Copied
  BY <1>2, <1>3, <1>4, <1>5 DEF Copied
<1>7. Listed(Loaded(S)) = S
  BY <1>1, <1>2, <1>3, <1>4 DEF Listed
<1>8. QED  BY <1>2, <1>3, <1>4, <1>6, <1>7

\* Load holds the copies of all shards, or of those not superseded.
LEMMA LoadLocals ==
    ASSUME TypeOK, NEW e \in Execs, Load(e)
    PROVE  /\ loc'[e] \in Locals /\ loc'[e].id = 0 /\ loc'[e].plans = <<>>
           /\ loc'[e].create = <<>> /\ loc'[e].fan = <<>> /\ loc'[e].folded = ""
           /\ \/ pc'[e] = "sync" /\ loc'[e].list = Loaded(Created)
              \/ pc'[e] = "resync" /\ loc'[e].list = Loaded(Current)
<1>1. DOMAIN pc = Execs /\ DOMAIN loc = Execs
  BY DEF TypeOK
<1>2. PICK S \in SUBSET Created :
        /\ loc'[e] = [Idle EXCEPT !.list = Loaded(S)]
        /\ \/ pc'[e] = "sync" /\ S = Created
           \/ pc'[e] = "resync" /\ S = Current
  BY <1>1 DEF Load, GotoWith, Current
<1>3. Loaded(S) \in Copied
  BY LoadedType
<1>4. /\ loc'[e] \in Locals /\ loc'[e].id = 0 /\ loc'[e].plans = <<>>
      /\ loc'[e].create = <<>> /\ loc'[e].fan = <<>> /\ loc'[e].folded = ""
      /\ loc'[e].list = Loaded(S)
  BY <1>2, <1>3, IdleType DEF Locals, Copied
<1>5. QED  BY <1>2, <1>4

\* The lowest number is unique.
LEMMA LowestIs ==
    ASSUME NEW S, S \subseteq Nat, NEW x \in S, \A y \in S : x <= y
    PROVE  Lowest(S) = x
<1>1. Lowest(S) \in S /\ Lowest(S) <= x /\ x <= Lowest(S)
  BY LowestIn
<1>2. Lowest(S) \in Nat /\ x \in Nat
  BY <1>1
<1>3. QED  BY <1>1, <1>2

\* A list from which shards have been dropped.
Shorter(list, other) == \A i \in Shards : other[i] = NoShard \/ other[i] = list[i]

\* The first loop goes on with the shards from the next large one.
LEMMA SyncLocals ==
    ASSUME TypeOK, NamesKept, NEW e \in Execs, Sync(e)
    PROVE  /\ pc[e] = "sync" /\ loc'[e] \in Locals
           /\ loc'[e].id = loc[e].id /\ loc'[e].plans = loc[e].plans
           /\ loc'[e].create = loc[e].create /\ loc'[e].fan = loc[e].fan
           /\ loc'[e].folded = loc[e].folded
           /\ Shorter(loc[e].list, loc'[e].list)
           /\ \/ pc'[e] = "dispatch"
              \/ /\ pc'[e] = "replan" /\ Listed(loc'[e].list) # {}
                 /\ offload[Lowest(Listed(loc'[e].list))] # NoOffload
<1> DEFINE list == loc[e].list
           live == {i \in Listed(list) : list[i].status # "superseded"}
           large == {i \in live : TooLarge(Synced(list, i))}
           later == [k \in Shards |-> IF k < Lowest(large) THEN NoShard ELSE list[k]]
<1>1. /\ DOMAIN pc = Execs /\ DOMAIN loc = Execs /\ loc[e] \in Locals /\ list \in Copied
      /\ pc[e] = "sync"
  BY LocalsTypes DEF TypeOK, Sync
<1>2. \/ pc'[e] = "dispatch" /\ loc'[e] = [loc[e] EXCEPT !.list = NoList]
      \/ large # {} /\ pc'[e] = "replan" /\ loc'[e] = [loc[e] EXCEPT !.list = later]
  BY <1>1 DEF Sync, GotoWith
<1>3. NoList \in Copied /\ Shorter(list, NoList)
  BY DEF NoList, Copied, Shorter
<1>4. later \in Copied /\ Shorter(list, later)
  BY <1>1 DEF Copied, Shorter
<1>5. large # {} => /\ Listed(later) # {} /\ Lowest(Listed(later)) = Lowest(large)
                    /\ offload[Lowest(large)] # NoOffload
  <2> SUFFICES ASSUME large # {}
               PROVE  /\ Listed(later) # {} /\ Lowest(Listed(later)) = Lowest(large)
                      /\ offload[Lowest(large)] # NoOffload
    OBVIOUS
  <2>1. large \subseteq Nat /\ large \subseteq Listed(list) /\ Listed(list) \subseteq Shards
        /\ Shards \subseteq Nat
    BY DEF Listed, Shards
  <2>2. Lowest(large) \in large
    BY <2>1, LowestIn
  <2>3. TooLarge(Synced(list, Lowest(large)))
    BY <2>2
  <2> DEFINE low == Lowest(large)
  <2> HIDE DEF large
  <2>4. low \in Listed(later) /\ \A y \in Listed(later) : low <= y
    <3>1. low \in Nat /\ low \in Shards /\ list[low] # NoShard
      BY <2>1, <2>2 DEF Listed
    <3>2. later[low] = list[low]
      BY <3>1
    <3>3. \A y \in Shards : later[y] # NoShard => ~ (y < low)
      OBVIOUS
    <3>4. \A y \in Shards : y \in Nat
      BY <2>1
    <3> HIDE DEF later, low
    <3>5. low \in Listed(later)
      BY <3>1, <3>2 DEF Listed
    <3>6. \A y \in Listed(later) : y \in Nat /\ ~ (y < low)
      BY <3>3, <3>4 DEF Listed
    <3>7. QED  BY <3>1, <3>5, <3>6
  <2>5. Listed(later) \subseteq Nat
    BY DEF Listed, Shards
  <2>6. Lowest(Listed(later)) = low
    BY <2>4, <2>5, LowestIs
  <2>7. offload[low] # NoOffload
    BY <2>1, <2>2, <2>3 DEF TooLarge, Synced, NamesKept, LocalsName
  <2>8. QED  BY <2>4, <2>6, <2>7
<1> HIDE DEF later, large
<1>7. CASE loc'[e] = [loc[e] EXCEPT !.list = NoList] /\ pc'[e] = "dispatch"
  <2>1. LET l == [loc[e] EXCEPT !.list = NoList]
        IN /\ l \in Locals /\ l.id = loc[e].id /\ l.plans = loc[e].plans /\ l.list = NoList
           /\ l.create = loc[e].create /\ l.fan = loc[e].fan /\ l.folded = loc[e].folded
    BY <1>1, <1>3 DEF Locals, Copied
  <2>2. QED  BY <1>1, <1>3, <1>7, <2>1
<1>8. CASE large # {} /\ pc'[e] = "replan" /\ loc'[e] = [loc[e] EXCEPT !.list = later]
  <2>1. LET l == [loc[e] EXCEPT !.list = later]
        IN /\ l \in Locals /\ l.id = loc[e].id /\ l.plans = loc[e].plans /\ l.list = later
           /\ l.create = loc[e].create /\ l.fan = loc[e].fan /\ l.folded = loc[e].folded
    BY <1>1, <1>4 DEF Locals, Copied
  <2>2. QED  BY <1>1, <1>4, <1>5, <1>8, <2>1
<1>9. QED  BY <1>2, <1>7, <1>8

\* A replan drops its shard from the list, and may leave two to create.
LEMMA ReplanLocals ==
    ASSUME TypeOK, Numbered, NamesKept, NEW e \in Execs, Replan(e) \/ ReplanRefused(e)
    PROVE  /\ pc[e] = "replan" /\ loc'[e] \in Locals
           /\ loc'[e].id = loc[e].id /\ loc'[e].plans = loc[e].plans
           /\ loc'[e].fan = loc[e].fan /\ loc'[e].folded = loc[e].folded
           /\ Shorter(loc[e].list, loc'[e].list)
           /\ \/ pc'[e] = "sync" /\ loc'[e].create = loc[e].create
              \/ /\ Replan(e) /\ pc'[e] = "create"
                 /\ loc'[e].create = <<NextIndex, NextIndex + 1>>
                 /\ NextIndex \in Shards /\ NextIndex + 1 \in Shards
<1> DEFINE Others(l) == /\ l \in Locals /\ l.id = loc[e].id /\ l.plans = loc[e].plans
                        /\ l.fan = loc[e].fan /\ l.folded = loc[e].folded /\ l.list = Rest(e)
<1>1. /\ DOMAIN pc = Execs /\ DOMAIN loc = Execs /\ loc[e] \in Locals /\ loc[e].list \in Copied
      /\ pc[e] = "replan"
  BY LocalsTypes DEF TypeOK, Replan, ReplanRefused
<1>2. Rest(e) \in Copied /\ Shorter(loc[e].list, Rest(e))
  BY <1>1 DEF Rest, Copied, Shorter
<1>3. \/ pc'[e] = "sync" /\ loc'[e] = [loc[e] EXCEPT !.list = Rest(e)]
      \/ /\ Replan(e) /\ pc'[e] = "create" /\ NextIndex + 1 <= MaxShards
         /\ loc'[e] = [loc[e] EXCEPT !.list = Rest(e), !.create = <<NextIndex, NextIndex + 1>>]
  BY <1>1 DEF Replan, SplitInto, ReplanRefused, GotoWith
<1>4. CASE pc'[e] = "sync" /\ loc'[e] = [loc[e] EXCEPT !.list = Rest(e)]
  <2>1. /\ Others([loc[e] EXCEPT !.list = Rest(e)])
        /\ [loc[e] EXCEPT !.list = Rest(e)].create = loc[e].create
    BY <1>1, <1>2 DEF Locals, Copied
  <2>2. QED  BY <1>1, <1>2, <1>4, <2>1
<1>5. CASE /\ Replan(e) /\ pc'[e] = "create" /\ NextIndex + 1 <= MaxShards
           /\ loc'[e] = [loc[e] EXCEPT !.list = Rest(e), !.create = <<NextIndex, NextIndex + 1>>]
  <2> DEFINE create == <<NextIndex, NextIndex + 1>>
  <2>1. NextIndex \in Shards /\ NextIndex + 1 \in Shards
    BY <1>5, NextFree, ConstantsAssumption DEF Shards
  <2>2. create \in Seq(Shards)
    BY <2>1
  <2> HIDE DEF create
  <2>3. /\ Others([loc[e] EXCEPT !.list = Rest(e), !.create = create])
        /\ [loc[e] EXCEPT !.list = Rest(e), !.create = create].create = create
    BY <1>1, <1>2, <2>2 DEF Locals, Copied
  <2>4. QED  BY <1>1, <1>2, <1>5, <2>1, <2>3 DEF create
<1>6. QED  BY <1>3, <1>4, <1>5

\* CreateOffload takes the next shard from one list to the other.
LEMMA CreateLocals ==
    ASSUME TypeOK, NamesKept, NEW e \in Execs, CreateOffload(e)
    PROVE  /\ pc[e] = "create" /\ loc'[e] \in Locals
           /\ loc'[e].id = loc[e].id /\ loc'[e].plans = loc[e].plans
           /\ loc'[e].list = loc[e].list /\ loc'[e].folded = loc[e].folded
           /\ loc'[e].create = Tail(loc[e].create)
           /\ loc'[e].fan = Append(loc[e].fan, Head(loc[e].create))
           /\ Elements(loc'[e].create) \subseteq Elements(loc[e].create)
           /\ Elements(loc'[e].fan) = Elements(loc[e].fan) \cup {Head(loc[e].create)}
           /\ Head(loc[e].create) \in Created
           /\ pc'[e] \in {"sync", "create"}
           /\ pc'[e] = "create" => loc'[e].create # <<>>
<1> DEFINE create == loc[e].create
           fan == loc[e].fan
<1>1. /\ DOMAIN pc = Execs /\ DOMAIN loc = Execs /\ loc[e] \in Locals
      /\ create \in Seq(Shards) /\ fan \in Seq(Shards) /\ pc[e] = "create"
      /\ create # <<>> /\ Elements(create) \subseteq Created
  BY LocalsTypes DEF TypeOK, CreateOffload, NamesKept, LocalsName
<1>2. /\ pc'[e] = (IF Len(create) = 1 THEN "sync" ELSE "create")
      /\ loc'[e] = [loc[e] EXCEPT !.create = Tail(create), !.fan = Append(fan, Head(create))]
  BY <1>1 DEF CreateOffload, GotoWith
<1>3. /\ Tail(create) \in Seq(Shards) /\ Head(create) \in Shards
      /\ Append(fan, Head(create)) \in Seq(Shards)
      /\ Len(create) # 1 => Tail(create) # <<>>
  <2> HIDE DEF create, fan
  <2>1. Head(create) \in Shards /\ Tail(create) \in Seq(Shards)
    BY <1>1, HeadTailProperties
  <2>2. Append(fan, Head(create)) \in Seq(Shards)
    BY <1>1, <2>1
  <2>3. Len(Tail(create)) = Len(create) - 1 /\ Len(create) \in Nat \ {0}
    BY <1>1, HeadTailProperties
  <2>4. Len(create) # 1 => Tail(create) # <<>>
    BY <2>3
  <2>5. QED  BY <2>1, <2>2, <2>4
<1>4. Elements(Tail(create)) \subseteq Elements(create) /\ Head(create) \in Elements(create)
  <2> HIDE DEF create, fan
  <2>1. QED  BY <1>1 DEF Elements
<1>5. Elements(Append(fan, Head(create))) = Elements(fan) \cup {Head(create)}
  <2> DEFINE more == Append(fan, Head(create))
  <2> HIDE DEF create, fan
  <2>1. /\ DOMAIN fan = 1..Len(fan) /\ Len(fan) \in Nat /\ DOMAIN more = 1..(Len(fan) + 1)
        /\ more[Len(fan) + 1] = Head(create) /\ \A k \in 1..Len(fan) : more[k] = fan[k]
    BY <1>1, <1>3
  <2> HIDE DEF more
  <2>2. QED  BY <2>1 DEF Elements
<1> HIDE DEF create, fan
<1>6. LET l == [loc[e] EXCEPT !.create = Tail(create), !.fan = Append(fan, Head(create))]
      IN /\ l \in Locals /\ l.id = loc[e].id /\ l.plans = loc[e].plans /\ l.list = loc[e].list
         /\ l.create = Tail(create) /\ l.fan = Append(fan, Head(create))
         /\ l.folded = loc[e].folded
  BY <1>1, <1>3 DEF Locals
<1>7. QED
  <2>1. /\ loc'[e] \in Locals /\ loc'[e].id = loc[e].id /\ loc'[e].plans = loc[e].plans
        /\ loc'[e].list = loc[e].list
        /\ loc'[e].create = Tail(create) /\ loc'[e].fan = Append(fan, Head(create))
        /\ loc'[e].folded = loc[e].folded
    BY <1>2, <1>6
  <2>2. QED  BY <1>1, <1>2, <1>3, <1>4, <1>5, <2>1 DEF create, fan

\* Fold yields a status.
LEMMA FoldType ==
    ASSUME NEW seen
    PROVE  Fold(seen) \in JobStates /\ Fold(seen) # ""
BY DEF Fold, JobStates, Terminal

\* The second loop ends with the folded status.
LEMMA ResyncLocals ==
    ASSUME TypeOK, NEW e \in Execs, Resync(e)
    PROVE  /\ pc[e] = "resync" /\ pc'[e] = "save" /\ loc'[e] \in Locals
           /\ loc'[e].id = 0 /\ loc'[e].plans = <<>> /\ loc'[e].list = NoList
           /\ loc'[e].create = <<>> /\ loc'[e].fan = <<>>
           /\ loc'[e].folded = Fold({Synced(loc[e].list, i).status : i \in Listed(loc[e].list)})
           /\ loc'[e].folded # ""
<1> DEFINE folded == Fold({Synced(loc[e].list, i).status : i \in Listed(loc[e].list)})
<1>1. DOMAIN pc = Execs /\ DOMAIN loc = Execs
  BY DEF TypeOK
<1>2. pc[e] = "resync" /\ pc'[e] = "save" /\ loc'[e] = [Idle EXCEPT !.folded = folded]
  BY <1>1 DEF Resync, GotoWith
<1>3. folded \in JobStates /\ folded # ""
  BY FoldType
<1> HIDE DEF folded
<1>4. /\ loc'[e] \in Locals /\ loc'[e].id = 0 /\ loc'[e].plans = <<>> /\ loc'[e].list = NoList
      /\ loc'[e].create = <<>> /\ loc'[e].fan = <<>> /\ loc'[e].folded = folded
  BY <1>2, <1>3, IdleType DEF Locals
<1>5. QED  BY <1>2, <1>3, <1>4 DEF folded

\* Positions and locals stay functions of the executions.
LEMMA StaysMap ==
    ASSUME TypeOK, NEW e \in Execs, ExecMoves(e)
    PROVE  pc' = [f \in Execs |-> pc'[f]] /\ loc' = [f \in Execs |-> loc'[f]]
<1> USE DEF rowVars, messageVars, execVars, historyVars, SubmitStep, ReconcileStep,
           OffloadStep, FaultStep, Submit, DisturbSubmit, Receive, SubmitRead,
           Plan, PlanError, PlanFailed, Adopt, AdoptPlan, Abandon, Discard,
           Dispatch, DispatchFail, Fail, StartSweep, ReconcileRead, Load, Sync,
           ReplanRefused, Replan, SplitInto, ReplanFail, CreateOffload, Resync,
           Save, CancelStart, CancelShards, CancelSave, CancelFail, RerunFailed,
           OffloadSkip, OffloadRun, OffloadCancel, OffloadRerun, LoseMessage, Goto,
           GotoWith, EndExec, Fault
<1>1. pc = [f \in Execs |-> pc[f]] /\ loc = [f \in Execs |-> loc[f]]
  BY DEF TypeOK
<1>2. QED  BY <1>1 DEF ExecMoves

\* They keep their types.
LEMMA ExecType ==
    ASSUME TypeOK, Numbered, NamesKept, PlansCover, [Next]_vars
    PROVE  pc' \in [Execs -> Positions] /\ loc' \in [Execs -> Locals]
<1>1. ASSUME NEW e \in Execs
      PROVE  pc'[e] \in Positions /\ loc'[e] \in Locals
  <2>1. pc[e] \in Positions /\ loc[e] \in Locals
    BY DEF TypeOK
  <2>2. CASE Quiet(e)
    BY <2>1, <2>2, IdleType DEF Quiet, Positions
  <2>3. CASE StartPlan(e)
    BY <2>3, StartPlanLocals DEF StartPlan, Positions
  <2>4. CASE Plan(e)
    BY <2>1, <2>4, PlanLocals DEF Positions
  <2>5. CASE Adopt(e)
    BY <2>1, <2>5, AdoptLocals DEF Positions
  <2>6. CASE Load(e)
    BY <2>6, LoadLocals DEF Positions
  <2>7. CASE Sync(e)
    BY <2>7, SyncLocals DEF Positions
  <2>8. CASE Replan(e) \/ ReplanRefused(e)
    BY <2>8, ReplanLocals DEF Positions
  <2>9. CASE CreateOffload(e)
    BY <2>9, CreateLocals DEF Positions
  <2>10. CASE Resync(e)
    BY <2>10, ResyncLocals DEF Positions
  <2>11. QED
    BY <2>1, <2>2, <2>3, <2>4, <2>5, <2>6, <2>7, <2>8, <2>9, <2>10, OwnMoves DEF Loud
<1>2. pc' = [f \in Execs |-> pc'[f]] /\ loc' = [f \in Execs |-> loc'[f]]
  <2>1. CASE execVars' = execVars
    BY <2>1 DEF execVars, TypeOK
  <2>2. CASE execVars' # execVars
    BY <2>2, ExecSteps, StaysMap
  <2>3. QED  BY <2>1, <2>2
<1>3. QED  BY <1>1, <1>2

\* The messages of POST /submit, and the fault flag.
LEMMA SubmitsSteps ==
    ASSUME [Next]_vars, submits' # submits
    PROVE  Submit \/ DisturbSubmit \/ \E e \in Execs : Receive(e)
BY DEF vars, rowVars, messageVars, execVars, historyVars, Next, SubmitStep,
       ReconcileStep, OffloadStep, FaultStep, SubmitRead,
       Plan, PlanError, PlanFailed, Adopt, AdoptPlan, Abandon, Discard,
       Dispatch, DispatchFail, Fail, StartSweep, ReconcileRead, Load, Sync,
       ReplanRefused, Replan, SplitInto, ReplanFail, CreateOffload, Resync, Save,
       CancelStart, CancelShards, CancelSave, CancelFail, RerunFailed, OffloadSkip,
       OffloadRun, OffloadCancel, OffloadRerun, LoseMessage, Goto, GotoWith,
       EndExec, Fault

\* A fault is remembered.
LEMMA FaultySteps ==
    ASSUME [Next]_vars, faulty' # faulty
    PROVE  faulty' = TRUE
BY DEF vars, rowVars, messageVars, execVars, historyVars, Next, SubmitStep,
       ReconcileStep, OffloadStep, FaultStep, Submit, DisturbSubmit, Receive, SubmitRead,
       Plan, PlanError, PlanFailed, Adopt, AdoptPlan, Abandon, Discard,
       Dispatch, DispatchFail, Fail, StartSweep, ReconcileRead, Load, Sync,
       ReplanRefused, Replan, SplitInto, ReplanFail, CreateOffload, Resync, Save,
       CancelStart, CancelShards, CancelSave, CancelFail, RerunFailed, OffloadSkip,
       OffloadRun, OffloadCancel, OffloadRerun, LoseMessage, Goto, GotoWith,
       EndExec, Fault

\* A plan in hand consists of artifacts.
LEMMA InHandType ==
    ASSUME TypeOK, NEW e \in Execs
    PROVE  InHand(e) \subseteq Artifacts
<1>1. loc[e].plans \in Seq(Artifacts)
  BY LocalsTypes DEF TypeOK
<1>2. \A k \in DOMAIN loc[e].plans : loc[e].plans[k] \in Artifacts
  BY <1>1, ElementOfSeq
<1>3. QED  BY <1>2 DEF InHand, Elements

\* The halves of the shard that a replan is about.
LEMMA HalvesOf ==
    ASSUME TypeOK, NamesKept, NEW e \in Execs, pc[e] = "replan",
           Cardinality(RowsOf(shard[NextShard(e)].input)) >= 2,
           NEW h, h = Halves(shard[NextShard(e)].input, attempts + 1)
    PROVE  /\ h[1] \in Artifacts /\ h[2] \in Artifacts
           /\ h[1].plan = attempts + 1 /\ h[2].plan = attempts + 1
           /\ RowsOf(h[1]) \cup RowsOf(h[2]) = RowsOf(shard[NextShard(e)].input)
           /\ Elements(h) = {h[1], h[2]}
<1>1. attempts + 1 \in Nat
  BY DEF TypeOK
<1>2. shard[NextShard(e)].input \in Artifacts
  BY ReplanOf
<1>3. QED  BY <1>1, <1>2, HalvesType

\* Only artifacts are stored, or left behind.
LEMMA StoreType ==
    ASSUME TypeOK, NamesKept, PlansCover, [Next]_vars
    PROVE  store' \subseteq Artifacts /\ leaked' \subseteq Artifacts
<1>1. store \subseteq Artifacts /\ leaked \subseteq Artifacts
  BY DEF TypeOK
<1>2. ASSUME NEW e \in Execs, Plan(e)
      PROVE  store' \subseteq Artifacts /\ leaked' = leaked
  BY <1>1, <1>2, PlanLocals DEF Plan, historyVars
<1>3. ASSUME NEW e \in Execs, PlanError(e) \/ Abandon(e) \/ Fail(e)
      PROVE  store' \subseteq Artifacts /\ leaked' \subseteq Artifacts
  <2>1. PICK kept \in SUBSET InHand(e) : Discard(e, kept)
    BY <1>3 DEF PlanError, Abandon, Fail
  <2>2. QED  BY <1>1, <2>1, InHandType DEF Discard
<1>4. ASSUME NEW e \in Execs, Replan(e)
      PROVE  store' \subseteq Artifacts /\ leaked' = leaked
  <2>1. /\ pc[e] = "replan" /\ Cardinality(RowsOf(shard[NextShard(e)].input)) >= 2
        /\ leaked' = leaked
        /\ \/ store' = store
           \/ store' = store \cup Elements(Halves(shard[NextShard(e)].input, attempts + 1))
    BY <1>4 DEF Replan, SplitInto, historyVars
  <2>2. QED  BY <1>1, <2>1, HalvesOf
<1>5. ASSUME NEW e \in Execs, ReplanFail(e)
      PROVE  store' \subseteq Artifacts /\ leaked' \subseteq Artifacts
  <2>1. /\ pc[e] = "replan" /\ Cardinality(RowsOf(shard[NextShard(e)].input)) >= 2
        /\ \E kept \in SUBSET Elements(Halves(shard[NextShard(e)].input, attempts + 1)) :
              store' = store \cup kept /\ leaked' = leaked \cup kept
    BY <1>5 DEF ReplanFail
  <2>2. QED  BY <1>1, <2>1, HalvesOf
<1>6. CASE store' = store /\ leaked' = leaked
  BY <1>1, <1>6
<1>7. QED  BY <1>1, <1>2, <1>3, <1>4, <1>5, <1>6, StoreSteps

\* The job's status stays one of ExtractionJob.Status.
LEMMA StatusType ==
    ASSUME TypeOK, NamesKept, [Next]_vars
    PROVE  status' \in JobStates
<1>1. status \in JobStates /\ {"queued", "running", "canceled", "failed"} \subseteq JobStates
  BY DEF TypeOK, JobStates, Terminal
<1>2. ASSUME NEW e \in Execs, Save(e)
      PROVE  status' \in JobStates
  <2>1. status' = loc[e].folded /\ loc[e].folded # "" /\ loc[e] \in Locals
    BY <1>2 DEF Save, NamesKept, LocalsName, TypeOK
  <2>2. QED  BY <2>1, LocalsTypes
<1>3. Submit \/ CancelSave \/ RerunFailed => status' \in JobStates
  BY <1>1 DEF Submit, CancelSave, RerunFailed
<1>4. \A e \in Execs : PlanFailed(e) \/ Adopt(e) => status' \in JobStates
  BY <1>1 DEF PlanFailed, Adopt, AdoptPlan, rowVars
<1>5. QED  BY <1>1, <1>2, <1>3, <1>4, StatusSteps

\* Messages name shards.
LEMMA SentType ==
    ASSUME TypeOK, NamesKept, [Next]_vars
    PROVE  sent' \subseteq {"dispatch", "cancel", "rerun"} \X Shards
<1>1. sent \subseteq {"dispatch", "cancel", "rerun"} \X Shards /\ canceler.todo \subseteq Shards
  BY DEF TypeOK
<1>2. ASSUME NEW e \in Execs, Dispatch(e) \/ DispatchFail(e)
      PROVE  sent' \subseteq {"dispatch", "cancel", "rerun"} \X Shards
  <2>1. loc[e].fan \in Seq(Shards)
    BY LocalsTypes DEF TypeOK
  <2>2. \A k \in DOMAIN loc[e].fan : loc[e].fan[k] \in Shards
    BY <2>1, ElementOfSeq
  <2>3. Elements(loc[e].fan) \subseteq Shards
    BY <2>2 DEF Elements
  <2>4. \E out \in SUBSET Elements(loc[e].fan) :
           sent' = sent \cup {<<"dispatch", i>> : i \in out}
    BY <1>2 DEF Dispatch, DispatchFail
  <2>5. QED  BY <1>1, <2>3, <2>4
<1>3. CancelShards => sent' \subseteq {"dispatch", "cancel", "rerun"} \X Shards
  BY <1>1 DEF CancelShards
<1>4. RerunFailed => sent' \subseteq {"dispatch", "cancel", "rerun"} \X Shards
  <2>1. Created \subseteq Shards
    BY DEF Created
  <2>2. RerunFailed => \E S \in SUBSET Created : sent' = sent \cup {<<"rerun", i>> : i \in S}
    BY DEF RerunFailed
  <2>3. QED  BY <1>1, <2>1, <2>2
<1>5. LoseMessage => sent' \subseteq {"dispatch", "cancel", "rerun"} \X Shards
  BY <1>1 DEF LoseMessage
<1>6. \A i \in Shards : OffloadStep(i) => sent' \subseteq {"dispatch", "cancel", "rerun"} \X Shards
  <2>1. \A i \in Shards : OffloadStep(i) => sent' \subseteq sent \cup {<<"dispatch", i>>}
    BY DEF OffloadStep, OffloadSkip, OffloadRun, OffloadCancel, OffloadRerun
  <2>2. QED  BY <1>1, <2>1
<1>7. QED  BY <1>1, <1>2, <1>3, <1>4, <1>5, <1>6, SentSteps

\* The cancel route holds shards that existed when it read them.
LEMMA CancelerType ==
    ASSUME TypeOK, NamesKept, [Next]_vars
    PROVE  /\ canceler' \in [at : {"idle", "shards", "job"}, todo : SUBSET Shards]
           /\ canceler'.todo \subseteq Created
<1> DEFINE Fine == /\ canceler' \in [at : {"idle", "shards", "job"}, todo : SUBSET Shards]
                   /\ canceler'.todo \subseteq Created
<1>1. Created \subseteq Shards
  BY DEF Created
<1>2. CancelStart => Fine
  BY <1>1 DEF CancelStart
<1>3. CancelShards \/ CancelSave \/ CancelFail => Fine
  BY DEF CancelShards, CancelSave, CancelFail, NotCanceling
<1>4. CASE canceler' = canceler
  BY <1>4 DEF TypeOK, NamesKept
<1>5. QED  BY <1>2, <1>3, <1>4, CancelerSteps

\* Extracted rows are rows of some artifact.
LEMMA ExtractedType ==
    ASSUME TypeOK, OffloadsOfShards, MessagesNameOffloads, [Next]_vars
    PROVE  extracted' \subseteq 1..MaxRows
<1>1. extracted \subseteq 1..MaxRows
  BY DEF TypeOK
<1>2. ASSUME NEW i \in Shards, OffloadRun(i)
      PROVE  extracted' \subseteq 1..MaxRows
  <2>1. /\ i \in Created
        /\ extracted' = extracted \/ extracted' = extracted \cup RowsOf(shard[i].input)
    BY <1>2 DEF OffloadRun, MessagesNameOffloads, OffloadsOfShards
  <2>2. shard[i].input \in Artifacts
    BY <2>1, RowTypes DEF TypeOK, Created
  <2>3. RowsOf(shard[i].input) \subseteq 1..MaxRows
    BY <2>2, ArtifactTypes, ConstantsAssumption DEF RowsOf
  <2>4. QED  BY <1>1, <2>1, <2>3
<1>3. QED  BY <1>1, <1>2, ExtractedSteps

\* TypeOK is preserved, given what the strengthening says of names and plans.
LEMMA TypeStep ==
    ASSUME TypeOK, Numbered, OffloadsOfShards, MessagesNameOffloads, NamesKept, PlansCover,
           [Next]_vars
    PROVE  TypeOK'
<1>1. submits' \in Nat
  BY SubmitsSteps DEF TypeOK, Submit, DisturbSubmit, Receive
<1>2. attempts' \in Nat
  BY AttemptsSteps DEF TypeOK
<1>3. scenario' \in ScenarioSet
  BY ScenarioSteps, UsesType DEF TypeOK
<1>4. faulty' \in BOOLEAN
  BY FaultySteps DEF TypeOK
<1>5. QED
  BY <1>1, <1>2, <1>3, <1>4, ShardsStay, OffloadsStay, ExecType, StoreType, StatusType,
     SentType, CancelerType, ExtractedType DEF TypeOK

(***************************************************************************)
(* What a step makes of the shards and their offload jobs                  *)
(***************************************************************************)
\* Adoption.
LEMMA AdoptShards ==
    ASSUME TypeOK, PlansCover, NEW e \in Execs, pc[e] = "adopt", AdoptPlan(e)
    PROVE  /\ Created = {} /\ status # "canceled"
           /\ Created' = DOMAIN loc[e].plans /\ DOMAIN loc[e].plans \subseteq Shards
           /\ \A i \in Shards : offload'[i] # NoOffload <=> i \in Created'
           /\ \A i \in DOMAIN loc[e].plans :
                 /\ loc[e].plans[i] \in Artifacts
                 /\ shard'[i] = NewShard(loc[e].plans[i])
                 /\ shard'[i].input = loc[e].plans[i] /\ shard'[i].status = "active"
                 /\ offload'[i].status = "active"
<1>1. /\ Created = {} /\ status # "canceled"
      /\ shard' = [i \in Shards |-> IF i \in DOMAIN loc[e].plans
                                     THEN NewShard(loc[e].plans[i]) ELSE NoShard]
      /\ offload' = [i \in Shards |-> IF i \in DOMAIN loc[e].plans
                                     THEN NewOffload ELSE NoOffload]
  BY DEF AdoptPlan
<1>2. loc[e].plans \in Seq(Artifacts) /\ DOMAIN loc[e].plans \subseteq Shards
  <2>1. /\ loc[e].plans \in Seq(Artifacts) /\ Len(loc[e].plans) \in 1..MaxShards
        /\ DOMAIN loc[e].plans = 1..Len(loc[e].plans)
    BY PlanFits
  <2>2. MaxShards \in Nat
    BY ConstantsAssumption
  <2>3. QED  BY <2>1, <2>2 DEF Shards
<1>3. \A i \in DOMAIN loc[e].plans : loc[e].plans[i] \in Artifacts
  BY <1>2, ElementOfSeq
<1>4. \A i \in DOMAIN loc[e].plans :
         /\ shard'[i] = NewShard(loc[e].plans[i]) /\ shard'[i] # NoShard
         /\ shard'[i].input = loc[e].plans[i] /\ shard'[i].status = "active"
  BY <1>1, <1>2, <1>3, RowTypes
<1>5. Created' = DOMAIN loc[e].plans
  BY <1>1, <1>2, <1>4 DEF Created
<1>6. \A i \in Shards : /\ offload'[i] # NoOffload <=> i \in Created'
                        /\ i \in DOMAIN loc[e].plans => offload'[i].status = "active"
  BY <1>1, <1>2, <1>5, OffloadTypes
<1>7. QED  BY <1>1, <1>2, <1>3, <1>4, <1>5, <1>6

\* A split.
LEMMA SplitShards ==
    ASSUME TypeOK, Numbered, NamesKept, NEW e \in Execs, Replan(e), shard' # shard,
           NEW i, i = NextShard(e), NEW h, h = Halves(shard[i].input, attempts + 1),
           NEW a, a = NextIndex, NEW b, b = NextIndex + 1
    PROVE  /\ i \in Created /\ a \in Shards \ Created /\ b \in Shards \ Created
           /\ Created' = Created \cup {a, b}
           /\ shard[i].status # "superseded" /\ shard'[i].status = "superseded"
           /\ shard'[a] = NewShard(h[1]) /\ shard'[b] = NewShard(h[2])
           /\ shard'[a].status = "active" /\ shard'[b].status = "active"
           /\ shard'[a].input = h[1] /\ shard'[b].input = h[2]
           /\ \A k \in Shards \ {i, a, b} : shard'[k] = shard[k]
           /\ offload' = offload /\ status' = status
           /\ attempts' = attempts + 1 /\ store' = store \cup {h[1], h[2]}
           /\ h[1] \in Artifacts /\ h[2] \in Artifacts
           /\ h[1].plan = attempts + 1 /\ h[2].plan = attempts + 1
           /\ RowsOf(h[1]) \cup RowsOf(h[2]) = RowsOf(shard[i].input)
           /\ pc'[e] = "create"
<1>1. /\ pc[e] = "replan" /\ Cardinality(RowsOf(shard[i].input)) >= 2 /\ b <= MaxShards
      /\ shard' = [shard EXCEPT ![a] = NewShard(h[1]), ![b] = NewShard(h[2]),
                                ![i].status = "superseded"]
      /\ shard[i].status # "superseded"
      /\ offload' = offload /\ status' = status /\ attempts' = attempts + 1
      /\ store' = store \cup Elements(h) /\ pc' = [pc EXCEPT ![e] = "create"]
  BY DEF Replan, SplitInto, GotoWith, rowVars
<1>2. /\ i \in Created /\ i \in Shards /\ shard[i] \in ShardRows /\ shard[i].input \in Artifacts
      /\ a \notin Created /\ b \notin Created /\ a # b
      /\ a \in Nat \ {0} /\ b = a + 1
  BY <1>1, ReplanOf, NextFree
<1>3. a \in Shards /\ b \in Shards
  BY <1>1, <1>2, ConstantsAssumption DEF Shards
<1>4. /\ h[1] \in Artifacts /\ h[2] \in Artifacts
      /\ h[1].plan = attempts + 1 /\ h[2].plan = attempts + 1
      /\ RowsOf(h[1]) \cup RowsOf(h[2]) = RowsOf(shard[i].input)
      /\ Elements(h) = {h[1], h[2]}
  BY <1>1, HalvesOf
<1>5. DOMAIN shard = Shards /\ DOMAIN pc = Execs
  BY DEF TypeOK
<1>6. /\ shard'[i] = [shard[i] EXCEPT !.status = "superseded"]
      /\ shard'[a] = NewShard(h[1]) /\ shard'[b] = NewShard(h[2])
      /\ \A k \in Shards \ {i, a, b} : shard'[k] = shard[k]
  BY <1>1, <1>2, <1>3, <1>5
<1>7. shard'[i].status = "superseded" /\ shard'[i] # NoShard
  <2>1. [shard[i] EXCEPT !.status = "superseded"].status = "superseded"
    BY <1>2 DEF ShardRows
  <2>2. QED  BY <1>6, <2>1, RowTypes
<1>8. /\ shard'[a].status = "active" /\ shard'[b].status = "active"
      /\ shard'[a].input = h[1] /\ shard'[b].input = h[2]
      /\ shard'[a] # NoShard /\ shard'[b] # NoShard
  BY <1>4, <1>6, RowTypes
<1>9. Created' = Created \cup {a, b}
  BY <1>2, <1>3, <1>6, <1>7, <1>8 DEF Created
<1>10. QED  BY <1>1, <1>2, <1>3, <1>4, <1>5, <1>6, <1>7, <1>8, <1>9

\* Everything else: a shard is set to canceled or active, or to what became of
\* its offload job.
Touched ==
    /\ Created' = Created
    /\ \A i \in Created :
          \/ shard'[i].status = shard[i].status
          \/ shard'[i].status \in {"canceled", "active"}
          \/ offload[i] # NoOffload /\ shard'[i].status = offload[i].status

\* Adoption, a split, or Touched: nothing else happens to shards.
LEMMA ShardMoves ==
    ASSUME TypeOK, Numbered, NamesKept, PlansCover, [Next]_vars
    PROVE  \/ Touched
           \/ \E e \in Execs : pc[e] = "adopt" /\ AdoptPlan(e)
           \/ \E e \in Execs : Replan(e) /\ shard' # shard
<1>1. /\ shard \in [Shards -> {NoShard} \cup ShardRows]
      /\ \A i \in Created : i \in Shards /\ shard[i] \in ShardRows
  BY DEF TypeOK, Created
<1>2. CASE CancelShards
  <2>1. shard' = [i \in Shards |-> IF i \in canceler.todo
                   THEN [shard[i] EXCEPT !.status = "canceled"] ELSE shard[i]]
        /\ canceler.todo \subseteq Created
    BY <1>2 DEF CancelShards, NamesKept
  <2>2. \A i \in canceler.todo : shard'[i].status = "canceled" /\ shard'[i] # NoShard
    <3>1. ASSUME NEW i \in canceler.todo
          PROVE  /\ [shard[i] EXCEPT !.status = "canceled"].status = "canceled"
                 /\ shard'[i] = [shard[i] EXCEPT !.status = "canceled"]
      BY <1>1, <2>1 DEF ShardRows
    <3>2. \A i \in canceler.todo : shard'[i].status = "canceled"
      BY <3>1
    <3>3. QED  BY <3>2, RowTypes
  <2>3. QED  BY <1>1, <2>1, <2>2 DEF Created, Touched
<1>3. CASE RerunFailed
  <2>1. PICK failed \in SUBSET Created :
          shard' = [i \in Shards |-> IF i \in failed
                       THEN [shard[i] EXCEPT !.status = "active", !.error = ""]
                       ELSE shard[i]]
    BY <1>3 DEF RerunFailed
  <2>2. \A i \in failed : shard'[i].status = "active" /\ shard'[i] # NoShard
    <3>1. ASSUME NEW i \in failed
          PROVE  /\ [shard[i] EXCEPT !.status = "active", !.error = ""].status = "active"
                 /\ shard'[i] = [shard[i] EXCEPT !.status = "active", !.error = ""]
      BY <1>1, <2>1 DEF ShardRows
    <3>2. \A i \in failed : shard'[i].status = "active"
      BY <3>1
    <3>3. QED  BY <3>2, RowTypes
  <2>3. QED  BY <1>1, <2>1, <2>2 DEF Created, Touched
<1>4. ASSUME NEW e \in Execs, Sync(e) \/ Resync(e)
      PROVE  Touched
  <2>1. loc[e].list \in Copied /\ Listed(loc[e].list) \subseteq Created
    BY LocalsTypes DEF TypeOK, NamesKept, LocalsName
  <2>2. \E S \in SUBSET Listed(loc[e].list) : SaveCopies(loc[e].list, S)
    BY <1>4 DEF Sync, Resync
  <2>3. /\ \A i \in Shards : shard[i] # NoShard <=> shard'[i] # NoShard
        /\ \A i \in Shards : \/ shard'[i] = shard[i]
                             \/ offload[i] # NoOffload /\ shard'[i].status = offload[i].status
    BY <2>1, <2>2, SaveCopiesType
  <2>4. QED  BY <1>1, <2>3 DEF Created, Touched
<1>5. ASSUME NEW e \in Execs, ReplanRefused(e)
      PROVE  Touched
  <2>1. pc[e] = "replan" /\ shard' = [shard EXCEPT ![NextShard(e)].error = "refused"]
    BY <1>5 DEF ReplanRefused
  <2>2. NextShard(e) \in Shards /\ shard[NextShard(e)] \in ShardRows
    BY <2>1, ReplanOf
  <2>3. [shard[NextShard(e)] EXCEPT !.error = "refused"].status = shard[NextShard(e)].status
    BY <2>2 DEF ShardRows
  <2>4. /\ shard'[NextShard(e)] = [shard[NextShard(e)] EXCEPT !.error = "refused"]
        /\ \A i \in Shards : i # NextShard(e) => shard'[i] = shard[i]
    BY <1>1, <2>1, <2>2
  <2>5. shard'[NextShard(e)].status = shard[NextShard(e)].status /\ shard'[NextShard(e)] # NoShard
        /\ shard[NextShard(e)] # NoShard
    BY <2>2, <2>3, <2>4, RowTypes
  <2>6. QED  BY <1>1, <2>4, <2>5 DEF Created, Touched
<1>6. CASE shard' = shard
  BY <1>6 DEF Touched, Created
<1>7. ASSUME NEW e \in Execs, Adopt(e), shard' # shard
      PROVE  pc[e] = "adopt" /\ AdoptPlan(e)
  BY <1>7 DEF Adopt, rowVars
<1>8. QED  BY <1>2, <1>3, <1>4, <1>5, <1>6, <1>7, ShardSteps

(***************************************************************************)
(* Shards, offload jobs, messages and locals name what exists              *)
(***************************************************************************)
Named == TypeOK /\ Numbered /\ OffloadsOfShards /\ MessagesNameOffloads /\ NamesKept

\* Shards stay numbered 1..n: adoption numbers a plan, a split takes the next two.
LEMMA NumberedStep ==
    ASSUME TypeOK, Numbered, NamesKept, PlansCover, [Next]_vars
    PROVE  Numbered'
<1>1. CASE Touched
  BY <1>1 DEF Touched, Numbered
<1>2. ASSUME NEW e \in Execs, pc[e] = "adopt", AdoptPlan(e)
      PROVE  Numbered'
  <2>1. Created' = 1..Len(loc[e].plans) /\ Len(loc[e].plans) \in 1..MaxShards
    BY <1>2, AdoptShards, PlanFits
  <2>2. Len(loc[e].plans) \in 0..MaxShards
    BY <2>1, ConstantsAssumption
  <2>3. QED  BY <2>1, <2>2 DEF Numbered
<1>3. ASSUME NEW e \in Execs, Replan(e), shard' # shard
      PROVE  Numbered'
  <2>1. Created' = Created \cup {NextIndex, NextIndex + 1} /\ NextIndex + 1 \in Shards
    BY <1>3, SplitShards
  <2>2. Created = 1..(NextIndex - 1) /\ NextIndex \in Nat \ {0}
    BY NextFree
  <2>3. Created' = 1..(NextIndex + 1)
    BY <2>1, <2>2
  <2>4. NextIndex + 1 \in 0..MaxShards
    BY <2>1, <2>2, ConstantsAssumption DEF Shards
  <2>5. QED  BY <2>3, <2>4 DEF Numbered
<1>4. QED  BY <1>1, <1>2, <1>3, ShardMoves

\* An offload job is given to a shard only.
LEMMA OffloadsGrow ==
    ASSUME Named, PlansCover, [Next]_vars, NEW i \in Shards, offload'[i] # NoOffload
    PROVE  i \in Created'
<1>1. CASE offload[i] # NoOffload
  BY <1>1, ShardsStay DEF Named, OffloadsOfShards
<1>2. CASE offload[i] = NoOffload
  <2>1. offload' # offload /\ offload \in [Shards -> {NoOffload} \cup OffloadRows]
    BY <1>2 DEF Named, TypeOK
  <2>2. ASSUME NEW e \in Execs, Adopt(e)
        PROVE  i \in Created'
    <3>1. pc[e] = "adopt" /\ AdoptPlan(e)
      BY <2>1, <2>2 DEF Adopt, rowVars
    <3>2. QED  BY <3>1, AdoptShards DEF Named
  <2>3. ASSUME NEW e \in Execs, ReplanRefused(e)
        PROVE  i \in Created'
    <3>1. NextShard(e) \in Created /\ offload' = [offload EXCEPT ![NextShard(e)].error = "refused"]
      BY <2>3, ReplanOf DEF ReplanRefused, Named
    <3>2. i = NextShard(e)
      BY <1>2, <2>1, <3>1
    <3>3. QED  BY <3>1, <3>2, ShardsStay DEF Named
  <2>4. ASSUME NEW e \in Execs, CreateOffload(e)
        PROVE  i \in Created'
    <3>1. /\ Head(loc[e].create) \in Created
          /\ offload' = [offload EXCEPT ![Head(loc[e].create)] = NewOffload]
      BY <2>4, CreateLocals DEF CreateOffload, Named
    <3>2. i = Head(loc[e].create)
      BY <1>2, <2>1, <3>1
    <3>3. QED  BY <3>1, <3>2, ShardsStay DEF Named
  <2>5. ASSUME NEW k \in Shards, OffloadRun(k) \/ OffloadCancel(k) \/ OffloadRerun(k)
        PROVE  i \in Created'
    <3>1. offload[k] # NoOffload
      BY <2>5 DEF OffloadRun, OffloadCancel, OffloadRerun, Named, MessagesNameOffloads
    <3>2. i # k => offload'[i] = offload[i]
      BY <2>1, <2>5 DEF OffloadRun, OffloadCancel, OffloadRerun
    <3>3. QED  BY <1>2, <3>1, <3>2
  <2>6. QED  BY <2>1, <2>2, <2>3, <2>4, <2>5, OffloadSteps
<1>3. QED  BY <1>1, <1>2

\* A shard fails only by the sync with its offload job.
LEMMA OffloadsOfShardsStep ==
    ASSUME Named, PlansCover, [Next]_vars
    PROVE  OffloadsOfShards'
<1>1. \A i \in Shards : offload[i] # NoOffload => offload'[i] # NoOffload
  BY OffloadsStay DEF Named
<1>2. ASSUME NEW i \in Shards, shard'[i].status = "failed"
      PROVE  offload'[i] # NoOffload
  <2>1. CASE shard'[i] = shard[i]
    BY <1>1, <1>2, <2>1 DEF Named, OffloadsOfShards
  <2>2. CASE Touched /\ shard'[i] # shard[i]
    <3>1. i \in Created
      <4>1. shard' \in [Shards -> {NoShard} \cup ShardRows]
        BY ShardsStay DEF Named
      <4>2. shard'[i] # NoShard
        BY <1>2, RowTypes
      <4>3. QED  BY <2>2, <4>2 DEF Touched, Created
    <3>2. QED  BY <1>1, <1>2, <2>2, <3>1 DEF Touched, Named, OffloadsOfShards
  <2>3. ASSUME NEW e \in Execs, pc[e] = "adopt", AdoptPlan(e)
        PROVE  offload'[i] # NoOffload
    <3>1. i \in Created'
      BY <1>2, RowTypes DEF Created
    <3>2. QED  BY <2>3, <3>1, AdoptShards DEF Named
  <2>4. ASSUME NEW e \in Execs, Replan(e), shard' # shard
        PROVE  shard'[i] = shard[i]
    BY <1>2, <2>4, SplitShards DEF Named
  <2>5. QED  BY <2>1, <2>2, <2>3, <2>4, ShardMoves DEF Named
<1>3. QED  BY <1>2, OffloadsGrow DEF OffloadsOfShards

\* _dispatch_shard, the cancel and the re-run name offload jobs that exist.
LEMMA MessagesNameOffloadsStep ==
    ASSUME Named, PlansCover, [Next]_vars
    PROVE  MessagesNameOffloads'
<1> DEFINE Names(S) == \A m \in S : m[2] \in Shards /\ offload[m[2]] # NoOffload
<1>1. Names(sent)
  BY DEF Named, TypeOK, MessagesNameOffloads
<1>2. ASSUME NEW e \in Execs, Dispatch(e) \/ DispatchFail(e)
      PROVE  Names(sent')
  <2>1. \E out \in SUBSET Elements(loc[e].fan) : sent' = sent \cup {<<"dispatch", i>> : i \in out}
    BY <1>2 DEF Dispatch, DispatchFail
  <2>2. \A i \in Elements(loc[e].fan) : i \in Shards /\ offload[i] # NoOffload
    <3>1. loc[e].fan \in Seq(Shards)
      BY LocalsTypes DEF Named, TypeOK
    <3>2. \A k \in DOMAIN loc[e].fan : loc[e].fan[k] \in Shards
      BY <3>1, ElementOfSeq
    <3>3. QED  BY <3>2 DEF Named, NamesKept, LocalsName, Elements
  <2>3. QED  BY <1>1, <2>1, <2>2
<1>3. CancelShards => Names(sent')
  <2>1. CancelShards => \E S \in SUBSET {i \in canceler.todo : offload[i] # NoOffload} :
                           sent' = sent \cup {<<"cancel", i>> : i \in S}
    BY DEF CancelShards
  <2>2. canceler.todo \subseteq Shards
    BY DEF Named, TypeOK
  <2>3. QED  BY <1>1, <2>1, <2>2
<1>4. RerunFailed => Names(sent')
  <2>1. RerunFailed => \E S \in SUBSET {i \in Created : offload[i] # NoOffload} :
                           sent' = sent \cup {<<"rerun", i>> : i \in S}
    BY DEF RerunFailed
  <2>2. Created \subseteq Shards
    BY DEF Created
  <2>3. QED  BY <1>1, <2>1, <2>2
<1>5. LoseMessage => Names(sent')
  BY <1>1 DEF LoseMessage
<1>6. \A i \in Shards : OffloadStep(i) => Names(sent')
  <2>1. \A i \in Shards : OffloadStep(i) =>
            \/ sent' \subseteq sent
            \/ <<"rerun", i>> \in sent /\ sent' \subseteq sent \cup {<<"dispatch", i>>}
    BY DEF OffloadStep, OffloadSkip, OffloadRun, OffloadCancel, OffloadRerun
  <2>2. \A i \in Shards : <<"rerun", i>> \in sent => offload[i] # NoOffload
    BY <1>1
  <2>3. ASSUME NEW i \in Shards, OffloadStep(i), NEW m \in sent'
        PROVE  m[2] \in Shards /\ offload[m[2]] # NoOffload
    <3>1. CASE m \in sent
      BY <1>1, <3>1
    <3>2. CASE m \notin sent
      <4>1. m = <<"dispatch", i>> /\ <<"rerun", i>> \in sent
        BY <2>1, <2>3, <3>2
      <4>2. m[2] = i
        BY <4>1
      <4>3. QED  BY <2>2, <4>1, <4>2
    <3>3. QED  BY <3>1, <3>2
  <2>4. QED  BY <2>3
<1>7. Names(sent')
  BY <1>1, <1>2, <1>3, <1>4, <1>5, <1>6, SentSteps
<1>8. \A m \in sent' : offload'[m[2]] # NoOffload
  BY <1>7, OffloadsStay DEF Named
<1>9. QED  BY <1>8 DEF MessagesNameOffloads

\* Loaded lists, shards to create and to dispatch, name what exists and goes on to.
LEMMA NamesKeptStep ==
    ASSUME Named, PlansCover, [Next]_vars
    PROVE  NamesKept'
<1>1. /\ \A i \in Created : i \in Created'
      /\ \A i \in Shards : offload[i] # NoOffload => offload'[i] # NoOffload
  BY ShardsStay, OffloadsStay DEF Named
<1>2. ASSUME NEW e \in Execs
      PROVE  LocalsName(e)'
  <2> DEFINE Lists == /\ \A i \in Shards : loc'[e].list[i] # NoShard => i \in Created
                      /\ \A i \in Shards : loc'[e].list[i].status = "failed" => offload[i] # NoOffload
             Creates == /\ Elements(loc'[e].create) \subseteq Created'
                        /\ pc'[e] = "create" => loc'[e].create # <<>>
             Fans == \A i \in Elements(loc'[e].fan) : i \in Shards /\ offload'[i] # NoOffload
             Replans == pc'[e] = "replan" => /\ Listed(loc'[e].list) # {}
                                             /\ offload'[Lowest(Listed(loc'[e].list))] # NoOffload
             Saves == pc'[e] = "save" => loc'[e].folded # ""
  <2>0. /\ LocalsName(e) /\ Elements(<<>>) = {} /\ Created \subseteq Shards
        /\ \A i \in Elements(loc[e].fan) : i \in Shards
        /\ \A i \in Shards : loc[e].list[i] # NoShard => i \in Created
        /\ \A i \in Shards : NoList[i] = NoShard /\ NoList[i].status = "absent"
        /\ NoShard.status = "absent"
    <3>1. loc[e].fan \in Seq(Shards)
      BY LocalsTypes DEF Named, TypeOK
    <3>2. \A k \in DOMAIN loc[e].fan : loc[e].fan[k] \in Shards
      BY <3>1, ElementOfSeq
    <3>3. LocalsName(e) /\ Created \subseteq Shards
      BY DEF Named, NamesKept, Created
    <3>4. \A i \in Shards : loc[e].list[i] # NoShard => i \in Created
      BY <3>3 DEF LocalsName, Listed
    <3>5. Elements(<<>>) = {} /\ \A i \in Elements(loc[e].fan) : i \in Shards
      BY <3>2 DEF Elements
    <3>6. \A i \in Shards : NoList[i] = NoShard
      BY IdleType
    <3>7. NoShard.status = "absent"
      BY RowTypes
    <3>8. QED  BY <3>3, <3>4, <3>5, <3>6, <3>7
  <2>1. CASE pc'[e] = pc[e] /\ loc'[e] = loc[e]
    <3>1. pc[e] = "replan" => NextShard(e) \in Shards
      BY ReplanOf DEF Named
    <3>2. Lists /\ Creates /\ Fans /\ Replans /\ Saves
      BY <1>1, <2>0, <2>1, <3>1 DEF LocalsName, NextShard
    <3>3. QED  BY <1>1, <3>2 DEF LocalsName, NextShard, Listed
  <2>2. CASE Quiet(e)
    <3>1. Lists /\ Creates /\ Fans /\ Replans /\ Saves
      BY <1>1, <2>0, <2>2, IdleType DEF Quiet, LocalsName
    <3>2. QED  BY <1>1, <3>1 DEF LocalsName, NextShard, Listed
  <2>3. CASE StartPlan(e)
    <3>1. Lists /\ Creates /\ Fans /\ Replans /\ Saves
      BY <2>0, <2>3, StartPlanLocals DEF StartPlan, Named
    <3>2. QED  BY <1>1, <3>1 DEF LocalsName, NextShard, Listed
  <2>4. CASE Plan(e)
    <3>1. /\ pc'[e] \in {"plan", "adopt"} /\ loc'[e].list = loc[e].list
          /\ loc'[e].create = loc[e].create /\ loc'[e].fan = loc[e].fan
      BY <2>4, PlanLocals DEF Named
    <3>2. Lists /\ Creates /\ Fans /\ Replans /\ Saves
      BY <1>1, <2>0, <3>1 DEF LocalsName
    <3>3. QED  BY <1>1, <3>2 DEF LocalsName, NextShard, Listed
  <2>5. CASE Adopt(e)
    <3>1. CASE pc'[e] = "abandon" /\ loc'[e] = loc[e]
      <4>1. Lists /\ Creates /\ Fans /\ Replans /\ Saves
        BY <1>1, <2>0, <3>1 DEF LocalsName
      <4>2. QED  BY <1>1, <4>1 DEF LocalsName, NextShard, Listed
    <3>2. CASE /\ AdoptPlan(e) /\ pc'[e] = "fanout" /\ loc'[e].list = NoList
               /\ loc'[e].create = <<>> /\ loc'[e].fan = [k \in DOMAIN loc[e].plans |-> k]
      <4>1. pc[e] = "adopt"
        BY <2>5 DEF Adopt
      <4>2. Elements(loc'[e].fan) \subseteq DOMAIN loc[e].plans
        BY <3>2 DEF Elements
      <4>3. Fans
        BY <3>2, <4>1, <4>2, AdoptShards DEF Named
      <4>4. Lists /\ Creates /\ Replans /\ Saves
        BY <2>0, <3>2
      <4>5. QED  BY <1>1, <4>3, <4>4 DEF LocalsName, NextShard, Listed
    <3>3. QED  BY <2>5, <3>1, <3>2, AdoptLocals DEF Named
  <2>6. CASE Load(e)
    <3>1. /\ pc'[e] \in {"sync", "resync"} /\ loc'[e].create = <<>> /\ loc'[e].fan = <<>>
          /\ \E S \in SUBSET Created : loc'[e].list = Loaded(S)
      BY <2>6, LoadLocals DEF Named, Current
    <3>2. Lists
      <4>1. PICK S \in SUBSET Created : loc'[e].list = Loaded(S)
        BY <3>1
      <4>2. /\ \A i \in S : loc'[e].list[i].status = shard[i].status
            /\ \A i \in Shards \ S : loc'[e].list[i] = NoShard
        BY <4>1, LoadedType DEF Named
      <4>3. \A i \in Shards : loc'[e].list[i] # NoShard => i \in S
        BY <4>2
      <4>4. \A i \in Shards : loc'[e].list[i].status = "failed" =>
                               i \in S /\ shard[i].status = "failed"
        BY <2>0, <4>2
      <4>5. QED  BY <2>0, <4>3, <4>4 DEF Named, OffloadsOfShards
    <3>3. Creates /\ Fans /\ Replans /\ Saves
      BY <2>0, <3>1
    <3>4. QED  BY <1>1, <3>2, <3>3 DEF LocalsName, NextShard, Listed
  <2>7. CASE Sync(e)
    <3>1. /\ pc'[e] \in {"dispatch", "replan"} /\ Shorter(loc[e].list, loc'[e].list)
          /\ loc'[e].create = loc[e].create /\ loc'[e].fan = loc[e].fan
          /\ pc'[e] = "replan" => /\ Listed(loc'[e].list) # {}
                                  /\ offload[Lowest(Listed(loc'[e].list))] # NoOffload
      BY <2>7, SyncLocals DEF Named
    <3>2. Replans
      <4>1. ASSUME Listed(loc'[e].list) # {}
            PROVE  Lowest(Listed(loc'[e].list)) \in Shards
        BY <4>1, LowestIn DEF Listed, Shards
      <4>2. QED  BY <1>1, <3>1, <4>1
    <3>3. Lists
      BY <2>0, <3>1 DEF Shorter, LocalsName
    <3>4. Creates /\ Fans /\ Saves
      BY <1>1, <2>0, <3>1 DEF LocalsName
    <3>5. QED  BY <1>1, <3>2, <3>3, <3>4 DEF LocalsName, NextShard, Listed
  <2>8. CASE Replan(e) \/ ReplanRefused(e)
    <3>1. /\ pc'[e] \in {"sync", "create"} /\ Shorter(loc[e].list, loc'[e].list)
          /\ loc'[e].fan = loc[e].fan
      BY <2>8, ReplanLocals DEF Named
    <3>2. Lists
      BY <2>0, <3>1 DEF Shorter, LocalsName
    <3>3. Creates
      <4>1. CASE pc'[e] = "sync" /\ loc'[e].create = loc[e].create
        BY <1>1, <2>0, <4>1 DEF LocalsName
      <4>2. CASE /\ Replan(e) /\ pc'[e] = "create"
                 /\ loc'[e].create = <<NextIndex, NextIndex + 1>>
        <5>1. Elements(loc'[e].create) = {NextIndex, NextIndex + 1}
          BY <4>2 DEF Elements
        <5>2. shard' # shard
          <6>1. SplitInto(e, Halves(shard[NextShard(e)].input, attempts + 1))
            <7>1. DOMAIN pc = Execs
              BY DEF Named, TypeOK
            <7>2. pc'[e] # "sync"
              BY <4>2
            <7>3. QED  BY <4>2, <7>1, <7>2 DEF Replan, GotoWith
          <6>2. pc[e] = "replan"
            BY <4>2 DEF Replan
          <6>3. NextIndex \in Shards /\ NextIndex # NextShard(e) /\ NextIndex # NextIndex + 1
            BY <2>8, <4>2, <6>2, NextFree, ReplanOf, ReplanLocals DEF Named
          <6>4. shard'[NextIndex] = NewShard(Halves(shard[NextShard(e)].input, attempts + 1)[1])
            BY <6>1, <6>3 DEF SplitInto, Named, TypeOK
          <6>5. shard[NextIndex] = NoShard
            BY <6>3, NextFree DEF Named, Created
          <6>6. shard'[NextIndex].status = "active"
            <7>1. \A x : NewShard(x).status = "active"
              BY DEF NewShard
            <7>2. QED  BY <6>4, <7>1
          <6>7. QED  BY <6>5, <6>6, RowTypes
        <5>3. Created' = Created \cup {NextIndex, NextIndex + 1}
          BY <4>2, <5>2, SplitShards DEF Named
        <5>4. QED  BY <4>2, <5>1, <5>3
      <4>3. QED  BY <2>8, <4>1, <4>2, ReplanLocals DEF Named
    <3>4. Fans /\ Replans /\ Saves
      BY <1>1, <2>0, <3>1 DEF LocalsName
    <3>5. QED  BY <1>1, <3>2, <3>3, <3>4 DEF LocalsName, NextShard, Listed
  <2>9. CASE CreateOffload(e)
    <3>1. /\ pc'[e] \in {"sync", "create"} /\ loc'[e].list = loc[e].list
          /\ Elements(loc'[e].create) \subseteq Elements(loc[e].create)
          /\ Elements(loc'[e].fan) = Elements(loc[e].fan) \cup {Head(loc[e].create)}
          /\ Head(loc[e].create) \in Created
          /\ pc'[e] = "create" => loc'[e].create # <<>>
      BY <2>9, CreateLocals DEF Named
    <3>2. offload'[Head(loc[e].create)] # NoOffload
      BY <2>0, <2>9, <3>1, OffloadTypes DEF CreateOffload, Named, TypeOK
    <3>3. Lists /\ Creates /\ Fans /\ Replans /\ Saves
      BY <1>1, <2>0, <3>1, <3>2 DEF LocalsName
    <3>4. QED  BY <1>1, <3>3 DEF LocalsName, NextShard, Listed
  <2>10. CASE Resync(e)
    <3>1. Lists /\ Creates /\ Fans /\ Replans /\ Saves
      BY <2>0, <2>10, ResyncLocals DEF Named
    <3>2. QED  BY <1>1, <3>1 DEF LocalsName, NextShard, Listed
  <2>11. QED
    BY <2>1, <2>2, <2>3, <2>4, <2>5, <2>6, <2>7, <2>8, <2>9, <2>10, OwnMoves DEF Loud, Named
<1>3. canceler'.todo \subseteq Created'
  BY <1>1, CancelerType DEF Named
<1>4. QED  BY <1>2, <1>3 DEF NamesKept

(***************************************************************************)
(* Work that is yet to be done                                             *)
(***************************************************************************)
Ended == {"succeeded", "failed", "canceled"}

\* Someone has the work of shard i before them, or it has been done.
Given(i) ==
    \/ offload[i] = NoOffload /\ \E e \in Execs : i \in Elements(loc[e].create)
    \/ /\ offload[i].status = "active"
       /\ <<"dispatch", i>> \in sent \/ \E e \in Execs : i \in Elements(loc[e].fan)
    \/ offload[i].status \in Ended

\* CreateOffload takes the next shard in hand, and leaves create when it was the
\* last one.
LEMMA CreateTakes ==
    ASSUME TypeOK, NamesKept, NEW e \in Execs, CreateOffload(e)
    PROVE  /\ pc'[e] # "create" => loc'[e].create = <<>>
           /\ Elements(loc[e].create) = {Head(loc[e].create)} \cup Elements(loc'[e].create)
<1> DEFINE create == loc[e].create
<1>1. create \in Seq(Shards) /\ create # <<>> /\ loc'[e].create = Tail(create)
  BY CreateLocals, LocalsTypes DEF TypeOK, CreateOffload, NamesKept, LocalsName
<1>2. pc'[e] = (IF Len(create) = 1 THEN "sync" ELSE "create")
  BY DEF CreateOffload, GotoWith, TypeOK
<1> HIDE DEF create
<1>3. /\ Len(create) \in Nat \ {0} /\ Tail(create) \in Seq(Shards)
      /\ Len(Tail(create)) = Len(create) - 1
  BY <1>1, HeadTailProperties
<1>4. Len(create) = 1 => Tail(create) = <<>>
  <2> DEFINE rest == Tail(create)
  <2>1. rest \in Seq(Shards) /\ (Len(create) = 1 => Len(rest) = 0)
    BY <1>3
  <2> HIDE DEF rest
  <2>2. Len(rest) = 0 => rest = <<>>
    BY <2>1, EmptySeq
  <2>3. QED  BY <2>1, <2>2 DEF rest
<1>5. Elements(create) = {Head(create)} \cup Elements(Tail(create))
  <2>1. /\ DOMAIN create = 1..Len(create) /\ DOMAIN Tail(create) = 1..(Len(create) - 1)
        /\ Head(create) = create[1]
        /\ \A k \in 1..(Len(create) - 1) : Tail(create)[k] = create[k + 1]
    BY <1>1, <1>3
  <2>2. \A k \in 2..Len(create) : k - 1 \in 1..(Len(create) - 1) /\ (k - 1) + 1 = k
    BY <1>3
  <2>3. \A k \in 1..Len(create) : k = 1 \/ k \in 2..Len(create)
    BY <1>3
  <2>4. \A k \in 1..(Len(create) - 1) : k + 1 \in 1..Len(create)
    BY <1>3
  <2>5. 1 \in 1..Len(create)
    BY <1>3
  <2>6. \A k \in 1..Len(create) : create[k] = Head(create) \/ create[k] \in Elements(Tail(create))
    BY <2>1, <2>2, <2>3 DEF Elements
  <2>7. \A k \in 1..(Len(create) - 1) : Tail(create)[k] \in Elements(create)
    BY <2>1, <2>4 DEF Elements
  <2>8. Head(create) \in Elements(create)
    BY <2>1, <2>5 DEF Elements
  <2>9. QED  BY <2>1, <2>6, <2>7, <2>8 DEF Elements
<1>6. QED  BY <1>1, <1>2, <1>4, <1>5 DEF create

\* An execution has shards in hand only where it goes on to create or dispatch.
LEMMA HandsKeptStep ==
    ASSUME Named, PlansCover, HandsKept, [Next]_vars
    PROVE  HandsKept'
<1> SUFFICES ASSUME NEW e \in Execs
             PROVE  /\ pc'[e] # "create" => loc'[e].create = <<>>
                    /\ pc'[e] \notin {"fanout", "sync", "replan", "create", "dispatch"}
                           => loc'[e].fan = <<>>
  BY DEF HandsKept
<1>0. /\ pc[e] # "create" => loc[e].create = <<>>
      /\ pc[e] \notin {"fanout", "sync", "replan", "create", "dispatch"} => loc[e].fan = <<>>
      /\ TypeOK /\ Numbered /\ NamesKept
  BY DEF HandsKept, Named
<1>1. CASE pc'[e] = pc[e] /\ loc'[e] = loc[e]
  BY <1>0, <1>1
<1>2. CASE Quiet(e)
  BY <1>0, <1>2, IdleType DEF Quiet
<1>3. CASE StartPlan(e)
  BY <1>0, <1>3, StartPlanLocals
<1>4. CASE Plan(e)
  BY <1>0, <1>4, PlanLocals
<1>5. CASE Adopt(e)
  BY <1>0, <1>5, AdoptLocals
<1>6. CASE Load(e)
  BY <1>0, <1>6, LoadLocals
<1>7. CASE Sync(e)
  BY <1>0, <1>7, SyncLocals
<1>8. CASE Replan(e) \/ ReplanRefused(e)
  BY <1>0, <1>8, ReplanLocals
<1>9. CASE CreateOffload(e)
  BY <1>0, <1>9, CreateLocals, CreateTakes
<1>10. CASE Resync(e)
  BY <1>0, <1>10, ResyncLocals
<1>11. QED
  BY <1>0, <1>1, <1>2, <1>3, <1>4, <1>5, <1>6, <1>7, <1>8, <1>9, <1>10, OwnMoves DEF Loud

\* What may become of the offload job of a shard.
OffloadBecomes(i) ==
    \/ offload'[i] = offload[i]
    \/ offload[i] # NoOffload /\ offload'[i].status = offload[i].status
    \/ offload'[i].status = "active" /\ \E e \in Execs : i \in Elements(loc'[e].fan)
    \/ offload'[i].status = "active" /\ <<"dispatch", i>> \in sent'
    \/ offload'[i].status \in Ended

LEMMA OffloadMoves ==
    ASSUME Named, PlansCover, [Next]_vars, NEW i \in Created
    PROVE  OffloadBecomes(i)
<1>0. /\ i \in Shards /\ DOMAIN offload = Shards
      /\ offload \in [Shards -> {NoOffload} \cup OffloadRows]
  BY DEF Created, Named, TypeOK
<1>1. ASSUME NEW e \in Execs, Adopt(e)
      PROVE  OffloadBecomes(i)
  BY <1>1, AdoptLocals DEF OffloadBecomes, Named
<1>2. ASSUME NEW e \in Execs, ReplanRefused(e)
      PROVE  OffloadBecomes(i)
  <2>1. pc[e] = "replan" /\ offload' = [offload EXCEPT ![NextShard(e)].error = "refused"]
    BY <1>2 DEF ReplanRefused
  <2>2. offload[NextShard(e)] \in OffloadRows
    BY <2>1, ReplanOf DEF Named
  <2>3. [offload[NextShard(e)] EXCEPT !.error = "refused"].status = offload[NextShard(e)].status
    BY <2>2 DEF OffloadRows
  <2>4. CASE i = NextShard(e)
    BY <1>0, <2>1, <2>2, <2>3, <2>4, OffloadTypes DEF OffloadBecomes
  <2>5. CASE i # NextShard(e)
    BY <1>0, <2>1, <2>5 DEF OffloadBecomes
  <2>6. QED  BY <2>4, <2>5
<1>3. ASSUME NEW e \in Execs, CreateOffload(e)
      PROVE  OffloadBecomes(i)
  <2>1. /\ offload' = [offload EXCEPT ![Head(loc[e].create)] = NewOffload]
        /\ Head(loc[e].create) \in Elements(loc'[e].fan)
    BY <1>3, CreateLocals DEF CreateOffload, Named
  <2>2. QED  BY <1>0, <2>1, OffloadTypes DEF OffloadBecomes
<1>4. ASSUME NEW k \in Shards, OffloadCancel(k)
      PROVE  OffloadBecomes(i)
  <2>1. /\ offload' = [offload EXCEPT ![k].status = "canceled"]
        /\ offload[k] \in OffloadRows
    BY <1>0, <1>4 DEF OffloadCancel, Named, MessagesNameOffloads
  <2>2. [offload[k] EXCEPT !.status = "canceled"].status = "canceled"
    BY <2>1 DEF OffloadRows
  <2>3. QED  BY <1>0, <2>1, <2>2 DEF OffloadBecomes, Ended
<1>5. ASSUME NEW k \in Shards, OffloadRerun(k)
      PROVE  OffloadBecomes(i)
  BY <1>0, <1>5, OffloadTypes DEF OffloadBecomes, OffloadRerun
<1>6. ASSUME NEW k \in Shards, OffloadRun(k)
      PROVE  OffloadBecomes(i)
  <2>1. PICK outcome \in scenario.outcomes[Cardinality(RowsOf(shard[k].input))] :
          offload' = [offload EXCEPT ![k] =
                [status |-> IF outcome = "" THEN "succeeded" ELSE "failed",
                 error |-> outcome]]
    BY <1>6 DEF OffloadRun
  <2>2. QED  BY <1>0, <2>1 DEF OffloadBecomes, Ended
<1>7. CASE offload' = offload
  BY <1>7 DEF OffloadBecomes
<1>8. QED
  BY <1>1, <1>2, <1>3, <1>4, <1>5, <1>6, <1>7, OffloadSteps

\* A message to dispatch stays until the offload job runs, unless it is lost.
LEMMA DispatchKept ==
    ASSUME TypeOK, [Next]_vars, ~faulty', NEW i \in Shards,
           <<"dispatch", i>> \in sent, offload[i].status = "active"
    PROVE  <<"dispatch", i>> \in sent' \/ offload'[i].status \in Ended
<1>0. DOMAIN offload = Shards
  BY DEF TypeOK
<1>1. CASE sent \subseteq sent'
  BY <1>1
<1>2. ASSUME NEW k \in Shards, OffloadSkip(k)
      PROVE  <<"dispatch", i>> \in sent'
  BY <1>2 DEF OffloadSkip
<1>3. ASSUME NEW k \in Shards, OffloadRun(k)
      PROVE  <<"dispatch", i>> \in sent' \/ offload'[i].status \in Ended
  <2>1. PICK outcome \in scenario.outcomes[Cardinality(RowsOf(shard[k].input))] :
          offload' = [offload EXCEPT ![k] =
                [status |-> IF outcome = "" THEN "succeeded" ELSE "failed",
                 error |-> outcome]]
    BY <1>3 DEF OffloadRun
  <2>2. k = i => offload'[i].status \in Ended
    BY <1>0, <2>1 DEF Ended
  <2>3. k # i => <<"dispatch", i>> \in sent'
    BY <1>3 DEF OffloadRun
  <2>4. QED  BY <2>2, <2>3
<1>4. ASSUME NEW k \in Shards, OffloadCancel(k) \/ OffloadRerun(k)
      PROVE  <<"dispatch", i>> \in sent'
  BY <1>4 DEF OffloadCancel, OffloadRerun
<1>5. ~LoseMessage
  BY DEF LoseMessage, Fault
<1>6. CASE CancelShards \/ RerunFailed \/ \E e \in Execs : Dispatch(e) \/ DispatchFail(e)
  BY <1>6, <1>1 DEF CancelShards, RerunFailed, Dispatch, DispatchFail
<1>7. QED  BY <1>1, <1>2, <1>3, <1>4, <1>5, <1>6, SentSteps DEF OffloadStep

\* The moves of an execution that has shards in hand.
LEMMA HandsMove ==
    ASSUME TypeOK, [Next]_vars, ~faulty', NEW e \in Execs,
           pc[e] \in {"fanout", "sync", "replan", "create", "dispatch"}
    PROVE  \/ pc'[e] = pc[e] /\ loc'[e] = loc[e]
           \/ Dispatch(e) \/ Sync(e) \/ Replan(e) \/ ReplanRefused(e) \/ CreateOffload(e)
<1>1. CASE execVars' = execVars
  BY <1>1 DEF execVars
<1>2. ASSUME NEW f \in Execs, ExecMoves(f), f # e
      PROVE  pc'[e] = pc[e] /\ loc'[e] = loc[e]
  BY <1>2, OthersStay
<1>3. ASSUME ExecMoves(e)
      PROVE  Dispatch(e) \/ Sync(e) \/ Replan(e) \/ ReplanRefused(e) \/ CreateOffload(e)
  BY <1>3 DEF ExecMoves, SubmitStep, ReconcileStep, Receive, StartSweep, SubmitRead, Plan,
       PlanFailed, Adopt, Abandon, ReconcileRead, Load, Resync, Save, PlanError,
       DispatchFail, ReplanFail, Fail, Fault
<1>4. QED  BY <1>1, <1>2, <1>3, ExecSteps

\* A shard to dispatch stays in hand until its message is sent.
LEMMA FanKept ==
    ASSUME Named, HandsKept, [Next]_vars, ~faulty', NEW e \in Execs,
           NEW i \in Elements(loc[e].fan)
    PROVE  i \in Elements(loc'[e].fan) \/ <<"dispatch", i>> \in sent'
<1>1. TypeOK /\ Numbered /\ NamesKept
  BY DEF Named
<1>2. pc[e] \in {"fanout", "sync", "replan", "create", "dispatch"}
  BY DEF HandsKept, Elements
<1>3. CASE pc'[e] = pc[e] /\ loc'[e] = loc[e]
  BY <1>3
<1>4. CASE Dispatch(e)
  BY <1>4 DEF Dispatch
<1>5. CASE Sync(e)
  BY <1>1, <1>5, SyncLocals
<1>6. CASE Replan(e) \/ ReplanRefused(e)
  BY <1>1, <1>6, ReplanLocals
<1>7. CASE CreateOffload(e)
  BY <1>1, <1>7, CreateLocals
<1>8. QED  BY <1>1, <1>2, <1>3, <1>4, <1>5, <1>6, <1>7, HandsMove

\* A shard to create stays in hand until it has its offload job.
LEMMA CreateKept ==
    ASSUME Named, HandsKept, [Next]_vars, ~faulty', NEW e \in Execs,
           NEW i \in Elements(loc[e].create)
    PROVE  \/ i \in Elements(loc'[e].create)
           \/ offload'[i].status = "active" /\ i \in Elements(loc'[e].fan)
<1>1. TypeOK /\ NamesKept /\ DOMAIN offload = Shards
  BY DEF Named, TypeOK
<1>2. pc[e] = "create"
  BY DEF HandsKept, Elements
<1>3. CASE pc'[e] = pc[e] /\ loc'[e] = loc[e]
  BY <1>3
<1>4. CASE CreateOffload(e)
  <2>1. /\ Elements(loc[e].create) = {Head(loc[e].create)} \cup Elements(loc'[e].create)
        /\ Head(loc[e].create) \in Elements(loc'[e].fan)
        /\ Head(loc[e].create) \in Shards
        /\ offload' = [offload EXCEPT ![Head(loc[e].create)] = NewOffload]
    BY <1>1, <1>4, CreateTakes, CreateLocals DEF CreateOffload, Created
  <2>2. QED  BY <1>1, <2>1, OffloadTypes
<1>5. QED
  BY <1>1, <1>2, <1>3, <1>4, HandsMove DEF Dispatch, Sync, Replan, ReplanRefused

\* A new shard comes with an offload job to dispatch, or in hand to be given one.
LEMMA NewGiven ==
    ASSUME Named, PlansCover, [Next]_vars, NEW i \in Created', i \notin Created
    PROVE  Given(i)'
<1>1. ~Touched
  BY DEF Touched
<1>2. ASSUME NEW e \in Execs, pc[e] = "adopt", AdoptPlan(e)
      PROVE  Given(i)'
  <2>1. i \in DOMAIN loc[e].plans /\ offload'[i].status = "active"
    BY <1>2, AdoptShards DEF Named
  <2>2. loc'[e].fan = [k \in DOMAIN loc[e].plans |-> k]
    <3>1. loc' = [loc EXCEPT ![e] =
                     [Idle EXCEPT !.fan = [k \in DOMAIN loc[e].plans |-> k]]]
      BY <1>2 DEF AdoptPlan, GotoWith
    <3>2. DOMAIN loc = Execs
      BY DEF Named, TypeOK
    <3>3. QED  BY <3>1, <3>2 DEF Idle
  <2>3. i \in Elements(loc'[e].fan)
    BY <2>1, <2>2 DEF Elements
  <2>4. QED  BY <2>1, <2>3 DEF Given
<1>3. ASSUME NEW e \in Execs, Replan(e), shard' # shard
      PROVE  Given(i)'
  <2>1. /\ Created' = Created \cup {NextIndex, NextIndex + 1}
        /\ offload' = offload /\ pc'[e] = "create"
    BY <1>3, SplitShards DEF Named
  <2>2. loc'[e].create = <<NextIndex, NextIndex + 1>>
    BY <1>3, <2>1, ReplanLocals DEF Named
  <2>3. i \in Elements(loc'[e].create)
    BY <2>1, <2>2 DEF Elements
  <2>4. offload'[i] = NoOffload
    BY <2>1 DEF Named, OffloadsOfShards, Created
  <2>5. QED  BY <2>3, <2>4 DEF Given
<1>4. QED  BY <1>1, <1>2, <1>3, ShardMoves DEF Named

\* The work of every other shard stays accounted for.
LEMMA OldGiven ==
    ASSUME Named, PlansCover, HandsKept, [Next]_vars, ~faulty', NEW i \in Created, Given(i)
    PROVE  Given(i)'
<1>0. /\ i \in Shards /\ TypeOK
      /\ offload'[i].status \in Ended => Given(i)'
      /\ NoOffload.status = "none" /\ "none" \notin Ended /\ "active" \notin Ended
  BY OffloadTypes DEF Created, Given, Named, Ended
<1>1. CASE offload'[i].status \in Ended
  BY <1>0, <1>1
<1>2. CASE /\ offload'[i].status = "active"
           /\ <<"dispatch", i>> \in sent' \/ \E e \in Execs : i \in Elements(loc'[e].fan)
  BY <1>2 DEF Given
<1>3. CASE /\ offload'[i] = offload[i] \/ offload'[i].status = offload[i].status
           /\ offload'[i].status \notin Ended
  <2>1. CASE offload[i] = NoOffload /\ \E e \in Execs : i \in Elements(loc[e].create)
    <3>1. PICK e \in Execs : i \in Elements(loc[e].create)
      BY <2>1
    <3>2. \/ i \in Elements(loc'[e].create)
          \/ offload'[i].status = "active" /\ i \in Elements(loc'[e].fan)
      BY <3>1, CreateKept
    <3>3. CASE offload'[i] = NoOffload
      BY <1>0, <3>2, <3>3 DEF Given
    <3>4. CASE offload'[i] # NoOffload
      <4>1. offload' \in [Shards -> {NoOffload} \cup OffloadRows]
        BY OffloadsStay DEF Named
      <4>2. offload'[i] \in OffloadRows /\ offload'[i].status = "none"
        BY <1>0, <1>3, <2>1, <3>4, <4>1
      <4>3. QED  BY <4>2, OffloadTypes DEF OffloadStates
    <3>5. QED  BY <3>3, <3>4
  <2>2. CASE offload[i].status = "active" /\ <<"dispatch", i>> \in sent
    BY <1>0, <1>3, <2>2, DispatchKept DEF Given
  <2>3. ASSUME offload[i].status = "active", NEW e \in Execs, i \in Elements(loc[e].fan)
        PROVE  Given(i)'
    BY <1>3, <2>3, FanKept DEF Given
  <2>4. offload[i].status \notin Ended
    BY <1>3
  <2>5. QED  BY <2>1, <2>2, <2>3, <2>4 DEF Given
<1>4. QED  BY <1>1, <1>2, <1>3, OffloadMoves DEF OffloadBecomes

LEMMA WorkAccountedStep ==
    ASSUME Named, PlansCover, HandsKept, WorkAccounted, [Next]_vars
    PROVE  WorkAccounted'
<1>1. CASE faulty'
  BY <1>1 DEF WorkAccounted
<1>2. CASE ~faulty'
  <2>1. ~faulty
    BY <1>2, FaultySteps
  <2>2. \A i \in Created : Given(i)
    BY <2>1 DEF WorkAccounted, Given, Ended
  <2>3. ASSUME NEW i \in Created'
        PROVE  Given(i)'
    BY <1>2, <2>2, NewGiven, OldGiven
  <2>4. QED  BY <2>3 DEF WorkAccounted, Given, Ended
<1>3. QED  BY <1>1, <1>2

(***************************************************************************)
(* Plans                                                                   *)
(***************************************************************************)
Planned == Named /\ PlansCover /\ PlansOwned

\* One execution moves at a time.
LEMMA OneMoves ==
    ASSUME TypeOK, [Next]_vars, NEW e \in Execs, NEW f \in Execs, e # f
    PROVE  \/ pc'[e] = pc[e] /\ loc'[e] = loc[e]
           \/ pc'[f] = pc[f] /\ loc'[f] = loc[f]
<1>1. CASE execVars' = execVars  BY <1>1 DEF execVars
<1>2. CASE execVars' # execVars
  <2>1. PICK g \in Execs : ExecMoves(g)
    BY <1>2, ExecSteps
  <2>2. QED  BY <2>1, OthersStay
<1>3. QED  BY <1>1, <1>2

\* What an execution can do while it has a plan.
LEMMA PlannerMoves ==
    ASSUME TypeOK, NEW e \in Execs, ExecMoves(e), Planning(e)
    PROVE  Plan(e) \/ Adopt(e) \/ PlanError(e) \/ Abandon(e) \/ Fail(e)
BY DEF ExecMoves, Planning, Receive, StartSweep, SubmitStep, ReconcileStep, SubmitRead,
       PlanFailed, Dispatch, ReconcileRead, Load, Sync, Replan, ReplanRefused,
       CreateOffload, Resync, Save, DispatchFail, ReplanFail

\* A plan given up: its artifacts are deleted, but for those left behind.
GaveUp(e) ==
    /\ Planning(e) /\ pc'[e] \in {"idle", "unplanned"} /\ loc'[e] = Idle
    /\ \E kept \in SUBSET InHand(e) : Discard(e, kept)

\* What happens to the plan of an execution.
LEMMA PlanMoves ==
    ASSUME Planned, [Next]_vars, NEW e \in Execs
    PROVE  \/ /\ loc'[e].plans = loc[e].plans /\ loc'[e].id = loc[e].id
              /\ Planning(e) /\ Planning(e)'
              /\ pc'[e] = pc[e] \/ pc'[e] = "abandon" \/ (pc'[e] = "adopt" /\ Plan(e))
           \/ ~ Planning(e) /\ ~ Planning(e)' /\ loc[e].plans = <<>> /\ loc'[e].plans = <<>>
           \/ StartPlan(e) /\ loc'[e].plans = <<>> /\ loc'[e].id = attempts + 1
           \/ Plan(e) /\ pc'[e] = "plan"
           \/ GaveUp(e)
           \/ /\ pc[e] = "adopt" /\ AdoptPlan(e) /\ ~ Planning(e)' /\ loc'[e].plans = <<>>
<1>0. TypeOK /\ Numbered /\ NamesKept /\ PlansCover
      /\ DOMAIN pc = Execs /\ DOMAIN loc = Execs
  BY DEF Planned, Named, TypeOK
<1>1. CASE pc'[e] = pc[e] /\ loc'[e] = loc[e]
  <2>1. Planning(e) \/ loc[e].plans = <<>>
    BY DEF Planned, PlansOwned
  <2>2. Planning(e)' <=> Planning(e)
    BY <1>1 DEF Planning
  <2>3. loc'[e].plans = loc[e].plans /\ loc'[e].id = loc[e].id
    BY <1>1
  <2>4. QED  BY <1>1, <2>1, <2>2, <2>3
<1>2. CASE ~ (pc'[e] = pc[e] /\ loc'[e] = loc[e]) /\ Planning(e)
  <2>1. ExecMoves(e)
    <3>1. execVars' # execVars
      BY <1>2 DEF execVars
    <3>2. PICK f \in Execs : ExecMoves(f)
      BY <3>1, ExecSteps
    <3>3. QED  BY <1>0, <1>2, <3>2, OthersStay
  <2>2. CASE Plan(e)
    BY <1>0, <1>2, <2>2, PlanLocals DEF Planning
  <2>3. CASE Adopt(e)
    <3>1. CASE pc'[e] = "abandon" /\ loc'[e] = loc[e]
      <4>1. Planning(e)'
        BY <3>1 DEF Planning
      <4>2. loc'[e].plans = loc[e].plans /\ loc'[e].id = loc[e].id
        BY <3>1
      <4>3. QED  BY <1>2, <3>1, <4>1, <4>2
    <3>2. CASE AdoptPlan(e) /\ pc'[e] = "fanout" /\ loc'[e].plans = <<>>
      <4>1. ~ Planning(e)' /\ pc[e] = "adopt"
        BY <2>3, <3>2 DEF Planning, Adopt
      <4>2. QED  BY <3>2, <4>1
    <3>3. QED  BY <1>0, <2>3, <3>1, <3>2, AdoptLocals
  <2>4. CASE PlanError(e) \/ Abandon(e) \/ Fail(e)
    <3>1. pc'[e] \in {"idle", "unplanned"} /\ loc'[e] = Idle
      BY <1>0, <2>4 DEF PlanError, Abandon, Fail, GotoWith, EndExec
    <3>2. \E kept \in SUBSET InHand(e) : Discard(e, kept)
      BY <2>4 DEF PlanError, Abandon, Fail
    <3>3. QED  BY <1>2, <3>1, <3>2 DEF GaveUp
  <2>5. QED  BY <1>0, <1>2, <2>1, <2>2, <2>3, <2>4, PlannerMoves
<1>3. CASE ~ (pc'[e] = pc[e] /\ loc'[e] = loc[e]) /\ ~ Planning(e)
  <2>1. loc[e].plans = <<>>
    BY <1>3 DEF Planned, PlansOwned
  <2>2. CASE Quiet(e)
    BY <1>3, <2>1, <2>2, IdleType DEF Quiet, Planning
  <2>3. CASE StartPlan(e)
    BY <1>0, <2>3, StartPlanLocals
  <2>4. CASE Plan(e) \/ Adopt(e)
    BY <1>3, <2>4 DEF Plan, Adopt, Planning
  <2>5. CASE Load(e) \/ Resync(e)
    BY <1>0, <1>3, <2>1, <2>5, LoadLocals, ResyncLocals DEF Planning
  <2>6. CASE Sync(e) \/ CreateOffload(e)
    BY <1>0, <1>3, <2>1, <2>6, SyncLocals, CreateLocals DEF Planning
  <2>7. CASE Replan(e) \/ ReplanRefused(e)
    BY <1>0, <1>3, <2>1, <2>7, ReplanLocals DEF Planning
  <2>8. QED
    BY <1>0, <1>3, <2>2, <2>3, <2>4, <2>5, <2>6, <2>7, OwnMoves DEF Loud
<1>4. QED  BY <1>1, <1>2, <1>3

\* The piece that Plan adds.
LEMMA PieceAdded ==
    ASSUME Planned, NEW e \in Execs, Plan(e), pc'[e] = "plan"
    PROVE  \E piece \in Artifacts :
              /\ piece.plan = loc[e].id /\ store' = store \cup {piece}
              /\ loc'[e].plans = Append(loc[e].plans, piece) /\ loc'[e].id = loc[e].id
              /\ InHand(e)' = InHand(e) \cup {piece}
              /\ LastRow(loc'[e].plans) = piece.hi /\ piece.lo = LastRow(loc[e].plans) + 1
              /\ LastRow(loc[e].plans) \in Nat
              /\ Len(loc'[e].plans) = Len(loc[e].plans) + 1 /\ Len(loc[e].plans) \in Nat
              /\ piece.lo <= scenario.rows \/ loc[e].plans = <<>>
              /\ piece.hi <= scenario.rows
              /\ \/ piece.lo <= piece.hi
                 \/ loc[e].plans = <<>> /\ scenario.rows = 0 /\ piece.hi = 0
<1>0. TypeOK /\ PlansCover
  BY DEF Planned, Named
<1>1. PICK piece \in Artifacts :
         /\ piece = NextPiece(loc[e].plans, loc[e].id)
         /\ piece.lo <= scenario.rows \/ loc[e].plans = <<>>
         /\ store' = store \cup {piece}
         /\ loc'[e].plans = Append(loc[e].plans, piece) /\ loc'[e].id = loc[e].id
  BY <1>0, PlanLocals
<1>2. /\ piece.plan = loc[e].id /\ piece.lo = LastRow(loc[e].plans) + 1
      /\ piece.hi <= scenario.rows
      /\ \/ piece.lo <= piece.hi
         \/ loc[e].plans = <<>> /\ scenario.rows = 0 /\ piece.hi = 0
  BY <1>0, <1>1, PieceType
<1> DEFINE plans == loc[e].plans
           more == Append(plans, piece)
<1>3. plans \in Seq(Artifacts)
  BY <1>0, LocalsTypes DEF TypeOK
<1>4. LastRow(plans) \in Nat
  <2>1. CASE plans = <<>>
    BY <2>1 DEF LastRow
  <2>2. CASE plans # <<>>
    <3> HIDE DEF plans
    <3>1. plans[Len(plans)] \in Artifacts
      BY <1>3, <2>2
    <3>2. QED  BY <2>2, <3>1, ArtifactTypes DEF LastRow
  <2>3. QED  BY <2>1, <2>2
<1> HIDE DEF plans
<1>5. /\ DOMAIN plans = 1..Len(plans) /\ Len(plans) \in Nat /\ Len(more) = Len(plans) + 1
      /\ DOMAIN more = 1..(Len(plans) + 1) /\ more # <<>>
      /\ more[Len(plans) + 1] = piece /\ \A k \in 1..Len(plans) : more[k] = plans[k]
  BY <1>3
<1> HIDE DEF more
<1>6. Elements(more) = Elements(plans) \cup {piece}
  BY <1>5 DEF Elements
<1>7. LastRow(more) = piece.hi
  BY <1>5 DEF LastRow
<1>8. loc'[e].plans = more
  BY <1>1 DEF plans, more
<1>9. InHand(e)' = InHand(e) \cup {piece}
  BY <1>6, <1>8 DEF InHand, plans
<1>10. QED  BY <1>1, <1>2, <1>4, <1>5, <1>7, <1>8, <1>9 DEF plans

\* Planning ids are drawn in order.
LEMMA AttemptsGrow ==
    ASSUME Planned, [Next]_vars
    PROVE  /\ attempts \in Nat /\ attempts' \in Nat /\ attempts <= attempts'
           /\ \A n \in 0..attempts : n \in 0..attempts'
           /\ \A n \in 1..attempts : n \in 1..attempts' /\ n # attempts + 1
<1>1. attempts \in Nat /\ (attempts' = attempts \/ attempts' = attempts + 1)
  BY AttemptsSteps DEF Planned, Named, TypeOK
<1>2. QED  BY <1>1

\* Only an execution's own artifacts are deleted, when it gives up its plan.
LEMMA StoreMoves ==
    ASSUME Planned, [Next]_vars
    PROVE  /\ leaked \subseteq leaked'
           /\ \/ store \subseteq store'
              \/ \E e \in Execs : GaveUp(e) /\ store \ InHand(e) \subseteq store'
<1>0. TypeOK /\ DOMAIN pc = Execs /\ DOMAIN loc = Execs
  BY DEF Planned, Named, TypeOK
<1>1. ASSUME NEW e \in Execs, PlanError(e) \/ Abandon(e) \/ Fail(e)
      PROVE  /\ leaked \subseteq leaked'
             /\ \/ store \subseteq store'
                \/ GaveUp(e) /\ store \ InHand(e) \subseteq store'
  <2>1. PICK kept \in SUBSET InHand(e) : Discard(e, kept)
    BY <1>1 DEF PlanError, Abandon, Fail
  <2>2. store' = store \ (InHand(e) \ kept) /\ leaked' = leaked \cup kept
    BY <2>1 DEF Discard
  <2>3. CASE Planning(e)
    <3>1. pc'[e] \in {"idle", "unplanned"} /\ loc'[e] = Idle
      BY <1>0, <1>1 DEF PlanError, Abandon, Fail, GotoWith, EndExec
    <3>2. GaveUp(e)
      BY <2>1, <2>3, <3>1 DEF GaveUp
    <3>3. QED  BY <2>2, <3>2
  <2>4. CASE ~ Planning(e)
    <3>1. loc[e].plans = <<>>
      BY <2>4 DEF Planned, PlansOwned
    <3>2. InHand(e) = {}
      BY <3>1 DEF InHand, Elements
    <3>3. QED  BY <2>2, <3>2
  <2>5. QED  BY <2>3, <2>4
<1>2. ASSUME NEW e \in Execs, Plan(e) \/ Replan(e) \/ ReplanFail(e)
      PROVE  store \subseteq store' /\ leaked \subseteq leaked'
  BY <1>2 DEF Plan, Replan, SplitInto, ReplanFail, historyVars
<1>3. CASE store' = store /\ leaked' = leaked
  BY <1>3
<1>4. QED  BY <1>1, <1>2, <1>3, StoreSteps

\* The inputs of the shards afterwards.
LEMMA InputsAfter ==
    ASSUME Planned, [Next]_vars, NEW i \in Created'
    PROVE  \/ i \in Created /\ shard'[i].input = shard[i].input
           \/ \E e \in Execs : /\ pc[e] = "adopt" /\ AdoptPlan(e) /\ Created = {}
                               /\ i \in DOMAIN loc[e].plans
                               /\ shard'[i].input = loc[e].plans[i]
                               /\ shard'[i].input \in InHand(e)
           \/ /\ Created # {} /\ attempts' = attempts + 1
              /\ shard'[i].input.plan = attempts + 1 /\ shard'[i].input \in store'
              /\ \E k \in Created : RowsOf(shard'[i].input) \subseteq RowsOf(shard[k].input)
<1>0. TypeOK /\ Numbered /\ NamesKept /\ PlansCover
  BY DEF Planned, Named
<1>1. CASE i \in Created
  BY <1>0, <1>1, ShardsStay
<1>2. CASE i \notin Created
  <2>1. CASE Touched
    BY <1>2, <2>1 DEF Touched
  <2>2. ASSUME NEW e \in Execs, pc[e] = "adopt", AdoptPlan(e)
        PROVE  /\ Created = {} /\ i \in DOMAIN loc[e].plans
               /\ shard'[i].input = loc[e].plans[i] /\ shard'[i].input \in InHand(e)
    BY <1>0, <2>2, AdoptShards DEF InHand, Elements
  <2>3. ASSUME NEW e \in Execs, Replan(e), shard' # shard
        PROVE  /\ Created # {} /\ attempts' = attempts + 1
               /\ shard'[i].input.plan = attempts + 1 /\ shard'[i].input \in store'
               /\ \E k \in Created : RowsOf(shard'[i].input) \subseteq RowsOf(shard[k].input)
    <3> DEFINE h == Halves(shard[NextShard(e)].input, attempts + 1)
    <3>1. /\ NextShard(e) \in Created /\ i \in {NextIndex, NextIndex + 1}
          /\ shard'[NextIndex].input = h[1] /\ shard'[NextIndex + 1].input = h[2]
          /\ attempts' = attempts + 1 /\ store' = store \cup {h[1], h[2]}
          /\ h[1].plan = attempts + 1 /\ h[2].plan = attempts + 1
          /\ RowsOf(h[1]) \cup RowsOf(h[2]) = RowsOf(shard[NextShard(e)].input)
      BY <1>0, <1>2, <2>3, SplitShards
    <3> HIDE DEF h
    <3>2. QED  BY <3>1
  <2>4. QED  BY <1>0, <2>1, <2>2, <2>3, ShardMoves
<1>3. QED  BY <1>1, <1>2

\* Two plans never share an id, so that discarding one never touches the other.
LEMMA PlansOwnedStep ==
    ASSUME Planned, [Next]_vars
    PROVE  PlansOwned'
<1>0. /\ TypeOK /\ Numbered /\ NamesKept /\ PlansCover
      /\ \A e \in Execs : Planning(e) => PlanOwned(e)
      /\ \A i \in Created : shard[i].input.plan \in 0..attempts
      /\ attempts \in Nat
  BY AttemptsGrow DEF Planned, Named, PlansOwned
<1>1. \A i \in Created' : shard'[i].input.plan \in 0..attempts'
  <2>1. ASSUME NEW e \in Execs, pc[e] = "adopt", NEW p \in InHand(e)
        PROVE  p.plan \in 0..attempts
    <3>1. loc[e].id \in 1..attempts /\ p.plan = loc[e].id
      BY <1>0, <2>1 DEF Planning, PlanOwned
    <3>2. QED  BY <1>0, <3>1
  <2>2. \A n \in 0..attempts : n \in 0..attempts'
    BY AttemptsGrow
  <2>3. attempts' = attempts + 1 => attempts + 1 \in 0..attempts'
    BY <1>0
  <2>4. QED  BY <1>0, <2>1, <2>2, <2>3, InputsAfter
<1>2. ASSUME NEW e \in Execs, ~ Planning(e)'
      PROVE  loc'[e].plans = <<>>
  BY <1>2, PlanMoves, IdleType DEF GaveUp, Planning
<1>3. ASSUME NEW e \in Execs, Planning(e)'
      PROVE  PlanOwned(e)'
  <2>1. CASE /\ Planning(e) /\ loc'[e].id = loc[e].id
             /\ ~ GaveUp(e) /\ ~ (pc[e] = "adopt" /\ AdoptPlan(e))
    <3>1. PlanOwned(e)
      BY <1>0, <2>1
    <3>2. loc'[e].id \in 1..attempts' /\ loc[e].id # attempts + 1
      BY <2>1, <3>1, AttemptsGrow DEF PlanOwned
    <3>3. \A i \in Created' : shard'[i].input.plan # loc'[e].id
      <4>1. ASSUME NEW f \in Execs, pc[f] = "adopt", AdoptPlan(f), NEW p \in InHand(f)
            PROVE  p.plan # loc[e].id
        <5>1. f # e /\ Planning(f)
          BY <2>1, <4>1 DEF Planning
        <5>2. loc[f].id # loc[e].id /\ p.plan = loc[f].id
          BY <1>0, <3>1, <4>1, <5>1 DEF PlanOwned
        <5>3. QED  BY <5>2
      <4>2. \A i \in Created : shard[i].input.plan # loc[e].id
        BY <3>1 DEF PlanOwned
      <4>3. QED  BY <2>1, <3>2, <4>1, <4>2, InputsAfter
    <3>4. ASSUME NEW f \in Execs, Planning(f)', f # e
          PROVE  loc'[f].id # loc'[e].id
      <4>1. CASE Planning(f) /\ loc'[f].id = loc[f].id
        BY <2>1, <3>1, <3>4, <4>1 DEF PlanOwned
      <4>2. CASE loc'[f].id = attempts + 1
        BY <2>1, <3>2, <4>2
      <4>3. (Planning(f) /\ loc'[f].id = loc[f].id) \/ loc'[f].id = attempts + 1
        BY <3>4, PlanMoves, PieceAdded DEF GaveUp, Planning, Plan
      <4>4. QED  BY <4>1, <4>2, <4>3
    <3>5. \A p \in InHand(e)' : p.plan = loc'[e].id /\ p \in store'
      <4>1. \A p \in InHand(e) : p \in store'
        <5>1. ASSUME NEW f \in Execs, GaveUp(f), NEW p \in InHand(e)
              PROVE  p \in store /\ p \notin InHand(f)
          <6>1. f # e /\ Planning(f)
            BY <2>1, <5>1 DEF GaveUp
          <6>2. PlanOwned(f) /\ loc[f].id # loc[e].id /\ p.plan = loc[e].id /\ p \in store
            BY <1>0, <2>1, <3>1, <5>1, <6>1 DEF PlanOwned
          <6>3. QED  BY <6>2 DEF PlanOwned
        <5>2. \A p \in InHand(e) : p \in store
          BY <3>1 DEF PlanOwned
        <5>3. QED  BY <5>1, <5>2, StoreMoves
      <4>2. \/ InHand(e)' = InHand(e)
            \/ \E piece : /\ piece.plan = loc[e].id /\ piece \in store'
                          /\ InHand(e)' = InHand(e) \cup {piece}
        <5>1. CASE Plan(e) /\ pc'[e] = "plan"
          BY <5>1, PieceAdded
        <5>2. CASE loc'[e].plans = loc[e].plans
          BY <5>2 DEF InHand
        <5>3. ~ StartPlan(e)
          BY <2>1 DEF StartPlan, Planning
        <5>4. QED  BY <1>3, <2>1, <5>1, <5>2, <5>3, PlanMoves
      <4>3. QED  BY <2>1, <3>1, <4>1, <4>2 DEF PlanOwned
    <3>6. QED  BY <3>2, <3>3, <3>4, <3>5 DEF PlanOwned
  <2>2. CASE StartPlan(e) /\ loc'[e].plans = <<>> /\ loc'[e].id = attempts + 1
    <3>1. Created = {} /\ attempts' = attempts + 1
      BY <2>2 DEF StartPlan
    <3>2. loc'[e].id \in 1..attempts'
      BY <1>0, <2>2, <3>1
    <3>3. \A i \in Created' : shard'[i].input.plan # loc'[e].id
      <4>1. ASSUME NEW f \in Execs, pc[f] = "adopt", NEW p \in InHand(f)
            PROVE  p.plan # attempts + 1
        <5>1. p.plan \in 1..attempts
          BY <1>0, <4>1 DEF Planning, PlanOwned
        <5>2. QED  BY <1>0, <5>1
      <4>2. QED  BY <2>2, <3>1, <4>1, InputsAfter
    <3>4. ASSUME NEW f \in Execs, Planning(f)', f # e
          PROVE  loc'[f].id # loc'[e].id
      <4>1. pc'[f] = pc[f] /\ loc'[f] = loc[f]
        <5>1. pc'[e] # pc[e]
          BY <2>2 DEF StartPlan
        <5>2. QED  BY <1>0, <3>4, <5>1, OneMoves
      <4>2. Planning(f)
        BY <3>4, <4>1 DEF Planning
      <4>3. loc[f].id \in 1..attempts
        BY <1>0, <4>2 DEF PlanOwned
      <4>4. QED  BY <1>0, <2>2, <4>1, <4>3
    <3>5. InHand(e)' = {}
      BY <2>2 DEF InHand, Elements
    <3>6. QED  BY <3>2, <3>3, <3>4, <3>5 DEF PlanOwned
  <2>3. ~ GaveUp(e)
    BY <1>3 DEF GaveUp, Planning
  <2>4. ~ (pc[e] = "adopt" /\ AdoptPlan(e))
    BY <1>0, <1>3 DEF AdoptPlan, GotoWith, TypeOK, Planning
  <2>5. \/ Planning(e) /\ loc'[e].id = loc[e].id
        \/ StartPlan(e) /\ loc'[e].plans = <<>> /\ loc'[e].id = attempts + 1
    BY <1>3, <2>3, <2>4, PlanMoves, PieceAdded DEF Plan, Planning
  <2>6. QED  BY <2>1, <2>2, <2>3, <2>4, <2>5
<1>4. QED  BY <1>1, <1>2, <1>3 DEF PlansOwned

\* The source of the job is never changed.
LEMMA SourceStays ==
    ASSUME TypeOK, [Next]_vars
    PROVE  /\ scenario'.rows = scenario.rows /\ SourceRows' = SourceRows
           /\ scenario.rows \in Nat /\ scenario'.outcomes = scenario.outcomes
<1>1. scenario.rows \in 0..MaxRows /\ scenario \in ScenarioSet
  BY DEF TypeOK, ScenarioSet
<1>2. scenario'.rows = scenario.rows /\ scenario'.outcomes = scenario.outcomes
  BY <1>1, ScenarioSteps, UsesType
<1>3. QED  BY <1>1, <1>2, ConstantsAssumption DEF SourceRows

\* What PlansCover says of one execution.
CoverOf(plans, at) ==
    /\ UNION {RowsOf(p) : p \in Elements(plans)} = 1..LastRow(plans)
    /\ LastRow(plans) <= scenario.rows
    /\ \/ Len(plans) <= LastRow(plans)
       \/ Len(plans) = 1 /\ scenario.rows = 0
    /\ at = "adopt" => plans # <<>> /\ LastRow(plans) = scenario.rows

\* One artifact more adds its own rows.
LEMMA UnionMore ==
    ASSUME NEW S, NEW x, NEW more, more = UNION {RowsOf(p) : p \in S \cup {x}},
           NEW less, less = UNION {RowsOf(p) : p \in S}
    PROVE  more = less \cup RowsOf(x)
<1>1. more \subseteq less \cup RowsOf(x)
  <2>1. ASSUME NEW r \in more
        PROVE  r \in less \cup RowsOf(x)
    <3>1. PICK p \in S \cup {x} : r \in RowsOf(p)
      OBVIOUS
    <3>2. CASE p \in S  BY <3>1, <3>2
    <3>3. CASE p = x  BY <3>1, <3>3
    <3>4. QED  BY <3>2, <3>3
  <2>2. QED  BY <2>1
<1>2. less \subseteq more
  OBVIOUS
<1>3. RowsOf(x) \subseteq more
  OBVIOUS
<1>4. QED  BY <1>1, <1>2, <1>3

\* plan_shards goes through the source piece by piece, to its last row.
LEMMA PlansCoverStep ==
    ASSUME Planned, [Next]_vars
    PROVE  PlansCover'
<1>0. TypeOK /\ PlansCover /\ \A e \in Execs : CoverOf(loc[e].plans, pc[e])
  BY DEF Planned, Named, PlansCover, CoverOf
<1>1. /\ scenario'.rows = scenario.rows /\ scenario.rows \in Nat
  BY <1>0, SourceStays
<1>2. ASSUME NEW e \in Execs
      PROVE  CoverOf(loc'[e].plans, pc'[e])
  <2>1. CASE loc'[e].plans = <<>> /\ pc'[e] # "adopt"
    <3>1. Elements(<<>>) = {} /\ LastRow(<<>>) = 0 /\ Len(<<>>) = 0
      BY DEF Elements, LastRow
    <3>2. UNION {RowsOf(p) : p \in {}} = 1..0
      OBVIOUS
    <3>3. QED  BY <1>1, <2>1, <3>1, <3>2 DEF CoverOf
  <2>2. CASE loc'[e].plans = loc[e].plans /\ (pc'[e] = "adopt" => pc[e] = "adopt" \/ Plan(e))
    <3>1. CoverOf(loc[e].plans, pc[e])
      BY <1>0
    <3>2. CASE pc'[e] = "adopt" /\ pc[e] # "adopt"
      <4>1. loc[e].plans # <<>> /\ LastRow(loc[e].plans) = scenario.rows
        BY <1>0, <2>2, <3>2, PlanLocals
      <4>2. QED  BY <2>2, <3>1, <4>1 DEF CoverOf
    <3>3. CASE pc'[e] # "adopt" \/ pc[e] = "adopt"
      BY <2>2, <3>1, <3>3 DEF CoverOf
    <3>4. QED  BY <3>2, <3>3
  <2>3. CASE Plan(e) /\ pc'[e] = "plan"
    <3>1. PICK piece \in Artifacts :
              /\ InHand(e)' = InHand(e) \cup {piece}
              /\ LastRow(loc'[e].plans) = piece.hi /\ piece.lo = LastRow(loc[e].plans) + 1
              /\ LastRow(loc[e].plans) \in Nat
              /\ Len(loc'[e].plans) = Len(loc[e].plans) + 1 /\ Len(loc[e].plans) \in Nat
              /\ piece.lo <= scenario.rows \/ loc[e].plans = <<>>
              /\ piece.hi <= scenario.rows
              /\ \/ piece.lo <= piece.hi
                 \/ loc[e].plans = <<>> /\ scenario.rows = 0 /\ piece.hi = 0
      BY <2>3, PieceAdded
    <3> DEFINE plans == loc[e].plans
               more == loc'[e].plans
               last == LastRow(plans)
    <3>2. CoverOf(plans, pc[e])
      BY <1>0
    <3>3. Elements(more) = Elements(plans) \cup {piece}
      BY <3>1 DEF InHand
    <3>4. piece.hi \in Nat /\ Len(<<>>) = 0 /\ (plans = <<>> => last = 0)
      BY ArtifactTypes, ConstantsAssumption DEF LastRow
    <3>5. LastRow(more) = piece.hi /\ piece.lo = last + 1 /\ last \in Nat
          /\ Len(more) = Len(plans) + 1 /\ Len(plans) \in Nat /\ piece.hi <= scenario.rows
          /\ (piece.lo <= scenario.rows \/ plans = <<>>)
          /\ (piece.lo <= piece.hi \/ (plans = <<>> /\ scenario.rows = 0 /\ piece.hi = 0))
      BY <3>1
    <3> HIDE DEF more, last, plans
    <3>6. (1..last) \cup RowsOf(piece) = 1..piece.hi
      <4>1. RowsOf(piece) = (last + 1)..piece.hi
        BY <3>5 DEF RowsOf
      <4>2. last <= piece.hi
        BY <3>4, <3>5
      <4>3. QED  BY <3>4, <3>5, <4>1, <4>2
    <3>7. UNION {RowsOf(p) : p \in Elements(more)} = 1..piece.hi
      <4>1. UNION {RowsOf(p) : p \in Elements(plans)} = 1..last
        BY <3>2 DEF CoverOf, last
      <4> DEFINE S == Elements(plans)
                 all == UNION {RowsOf(p) : p \in S \cup {piece}}
                 known == UNION {RowsOf(p) : p \in S}
      <4>2. all = known \cup RowsOf(piece)
        <5> HIDE DEF S
        <5>1. \A x, y : x = UNION {RowsOf(p) : p \in S \cup {piece}}
                        /\ y = UNION {RowsOf(p) : p \in S} => x = y \cup RowsOf(piece)
          BY UnionMore
        <5> HIDE DEF all, known
        <5>2. QED  BY <5>1 DEF all, known
      <4>3. QED  BY <3>3, <3>6, <4>1, <4>2
    <3>8. Len(more) <= piece.hi \/ (Len(more) = 1 /\ scenario.rows = 0)
      <4>1. Len(plans) <= last \/ (Len(plans) = 1 /\ scenario.rows = 0)
        BY <3>2 DEF CoverOf, last
      <4>2. QED  BY <1>1, <3>4, <3>5, <4>1
    <3>9. QED  BY <2>3, <3>5, <3>7, <3>8 DEF CoverOf, more
  <2>4. CASE GaveUp(e)
    BY <2>1, <2>4, IdleType DEF GaveUp
  <2>5. CASE StartPlan(e) /\ loc'[e].plans = <<>>
    BY <2>1, <2>5 DEF StartPlan
  <2>6. CASE ~ Planning(e)' /\ loc'[e].plans = <<>>
    BY <2>1, <2>6 DEF Planning
  <2>7. QED
    BY <2>2, <2>3, <2>4, <2>5, <2>6, PlanMoves
<1>3. QED  BY <1>1, <1>2 DEF PlansCover, CoverOf

\* An artifact of a plan holds rows of the source.
LEMMA RowsOfPlan ==
    ASSUME TypeOK, PlansCover, NEW e \in Execs, NEW p \in InHand(e)
    PROVE  RowsOf(p) \subseteq SourceRows
<1>1. /\ UNION {RowsOf(q) : q \in InHand(e)} = 1..LastRow(loc[e].plans)
      /\ LastRow(loc[e].plans) <= scenario.rows
  BY DEF PlansCover, InHand
<1>2. scenario.rows \in Nat
  <2>1. scenario.rows \in 0..MaxRows
    BY DEF TypeOK, ScenarioSet
  <2>2. QED  BY <2>1, ConstantsAssumption
<1>3. LastRow(loc[e].plans) \in Int
  <2> DEFINE plans == loc[e].plans
  <2>1. plans \in Seq(Artifacts)
    BY LocalsTypes DEF TypeOK
  <2> HIDE DEF plans
  <2>2. plans # <<>> => plans[Len(plans)] \in Artifacts
    BY <2>1
  <2>3. LastRow(plans) \in Int
    BY <2>2, ArtifactTypes DEF LastRow
  <2>4. QED  BY <2>3 DEF plans
<1>4. RowsOf(p) \subseteq 1..LastRow(loc[e].plans)
  BY <1>1
<1>5. QED  BY <1>1, <1>2, <1>3, <1>4 DEF SourceRows

\* Shards hold rows of the source only.
LEMMA RowsInsideStep ==
    ASSUME Planned, RowsInside, [Next]_vars
    PROVE  RowsInside'
<1>1. SourceRows' = SourceRows
  BY SourceStays DEF Planned, Named
<1>2. \A i \in Created' : RowsOf(shard'[i].input) \subseteq SourceRows
  BY InputsAfter, RowsOfPlan DEF Planned, Named, RowsInside
<1>3. QED  BY <1>1, <1>2 DEF RowsInside

\* Deletes reach no artifact that a shard refers to or is about to.
LEMMA InputsKeptStep ==
    ASSUME Planned, InputsKept, [Next]_vars
    PROVE  InputsKept'
<1>1. ASSUME NEW i \in Created
      PROVE  shard[i].input \in store'
  <2>1. ASSUME NEW e \in Execs, GaveUp(e)
        PROVE  shard[i].input \notin InHand(e)
    <3>1. PlanOwned(e)
      BY <2>1 DEF GaveUp, Planned, PlansOwned
    <3>2. QED  BY <3>1 DEF PlanOwned
  <2>2. shard[i].input \in store
    BY DEF InputsKept
  <2>3. QED  BY <2>1, <2>2, StoreMoves
<1>2. ASSUME NEW e \in Execs, pc[e] = "adopt", AdoptPlan(e), NEW p \in InHand(e)
      PROVE  p \in store'
  <2>1. p \in store
    BY <1>2 DEF Planned, PlansOwned, PlanOwned, Planning
  <2>2. ASSUME NEW f \in Execs, GaveUp(f)
        PROVE  p \notin InHand(f)
    <3>1. f # e
      <4>1. DOMAIN pc = Execs
        BY DEF Planned, Named, TypeOK
      <4>2. pc'[e] = "fanout"
        BY <1>2, <4>1 DEF AdoptPlan, GotoWith
      <4>3. QED  BY <2>2, <4>2 DEF GaveUp
    <3>2. Planning(e) /\ Planning(f)
      BY <1>2, <2>2 DEF GaveUp, Planning
    <3>3. PlanOwned(e) /\ PlanOwned(f)
      BY <3>2 DEF Planned, PlansOwned
    <3>4. QED  BY <1>2, <3>1, <3>2, <3>3 DEF PlanOwned
  <2>3. QED  BY <2>1, <2>2, StoreMoves
<1>3. \A i \in Created' : shard'[i].input \in store'
  BY <1>1, <1>2, InputsAfter
<1>4. QED  BY <1>3 DEF InputsKept

\* A shard stops being current only by a split, whose halves have its rows.
LEMMA RowsCoveredStep ==
    ASSUME Planned, RowsInside, RowsCovered, [Next]_vars
    PROVE  RowsCovered'
<1> DEFINE Cover == UNION {RowsOf(shard[i].input) : i \in Current}
           After == UNION {RowsOf(shard'[i].input) : i \in Current'}
<1>0. TypeOK /\ Numbered /\ NamesKept /\ PlansCover /\ SourceRows' = SourceRows
  BY SourceStays DEF Planned, Named
<1>1. After \subseteq SourceRows
  <2>1. \A i \in Created' : RowsOf(shard'[i].input) \subseteq SourceRows
    BY <1>0, RowsInsideStep DEF RowsInside
  <2>2. QED  BY <2>1 DEF Current
<1>2. ASSUME Touched, Created # {}
      PROVE  SourceRows \subseteq After
  <2>1. \A i \in Current : i \in Current'
    <3>1. \A i \in Shards : offload[i] # NoOffload => offload[i].status # "superseded"
      BY <1>0, OffloadTypes DEF TypeOK, OffloadStates
    <3>2. QED  BY <1>2, <3>1 DEF Touched, Current, Created
  <2>2. \A i \in Current : shard'[i].input = shard[i].input
    BY <1>0, ShardsStay DEF Current
  <2>3. Cover = SourceRows
    BY <1>2 DEF RowsCovered
  <2>4. QED  BY <2>1, <2>2, <2>3
<1>3. ASSUME NEW e \in Execs, pc[e] = "adopt", AdoptPlan(e)
      PROVE  SourceRows \subseteq After
  <2>1. /\ Created' = DOMAIN loc[e].plans
        /\ \A i \in Created' : shard'[i].input = loc[e].plans[i] /\ shard'[i].status = "active"
    BY <1>0, <1>3, AdoptShards
  <2>2. Current' = DOMAIN loc[e].plans
    BY <2>1 DEF Current
  <2>3. UNION {RowsOf(p) : p \in Elements(loc[e].plans)} = SourceRows
    BY <1>3 DEF Planned, Named, PlansCover, SourceRows
  <2>4. \A p \in Elements(loc[e].plans) : \E i \in Current' : shard'[i].input = p
    BY <2>1, <2>2 DEF Elements
  <2>5. QED  BY <2>3, <2>4
<1>4. ASSUME NEW e \in Execs, Replan(e), shard' # shard
      PROVE  SourceRows \subseteq After
  <2> DEFINE i == NextShard(e)
             h == Halves(shard[i].input, attempts + 1)
             a == NextIndex
             b == NextIndex + 1
  <2>1. /\ i \in Created /\ a \in Shards \ Created /\ b \in Shards \ Created
        /\ Created' = Created \cup {a, b}
        /\ shard'[a].status = "active" /\ shard'[b].status = "active"
        /\ shard'[a].input = h[1] /\ shard'[b].input = h[2]
        /\ \A k \in Shards \ {i, a, b} : shard'[k] = shard[k]
        /\ RowsOf(h[1]) \cup RowsOf(h[2]) = RowsOf(shard[i].input)
    BY <1>0, <1>4, SplitShards
  <2> HIDE DEF i, h, a, b
  <2>2. Cover = SourceRows
    BY <2>1 DEF RowsCovered
  <2>3. a \in Current' /\ b \in Current'
    BY <2>1 DEF Current
  <2>4. \A k \in Current : k # i => k \in Current' /\ shard'[k].input = shard[k].input
    BY <2>1 DEF Current, Created
  <2>5. ASSUME NEW r \in SourceRows
        PROVE  r \in After
    <3>1. PICK k \in Current : r \in RowsOf(shard[k].input)
      BY <2>2
    <3>2. CASE k = i
      <4>1. r \in RowsOf(shard'[a].input) \/ r \in RowsOf(shard'[b].input)
        BY <2>1, <3>1, <3>2
      <4>2. QED  BY <2>3, <4>1
    <3>3. CASE k # i
      BY <2>4, <3>1, <3>3
    <3>4. QED  BY <3>2, <3>3
  <2>6. QED  BY <2>5
<1>5. ASSUME Created' # {}
      PROVE  After = SourceRows
  <2>1. Touched => Created # {}
    BY <1>5 DEF Touched
  <2>2. QED  BY <1>0, <1>1, <1>2, <1>3, <1>4, <2>1, ShardMoves
<1>6. QED  BY <1>0, <1>5 DEF RowsCovered

\* What leaves a plan's hands is adopted, deleted, or left behind by a fault.
LEMMA PlansAccountedStep ==
    ASSUME Planned, PlansAccounted, [Next]_vars
    PROVE  PlansAccounted'
<1> DEFINE Accounted(p) == \/ \E i \in Created' : p = shard'[i].input
                           \/ \E e \in Execs : p \in InHand(e)'
                           \/ p \in leaked'
<1>0. TypeOK /\ Numbered /\ NamesKept /\ PlansCover
  BY DEF Planned, Named
<1>1. ASSUME NEW e \in Execs, NEW p \in InHand(e), p \in store'
      PROVE  Accounted(p)
  <2>1. loc[e].plans # <<>>
    BY <1>1 DEF InHand, Elements
  <2>2. CASE loc'[e].plans = loc[e].plans
    <3>1. p \in InHand(e)'
      BY <1>1, <2>2 DEF InHand
    <3>2. QED  BY <3>1
  <2>3. CASE Plan(e) /\ pc'[e] = "plan"
    <3>1. p \in InHand(e)'
      BY <1>1, <2>3, PieceAdded
    <3>2. QED  BY <3>1
  <2>4. CASE GaveUp(e)
    <3>1. p \in leaked'
      BY <1>1, <2>4 DEF GaveUp, Discard
    <3>2. QED  BY <3>1
  <2>5. CASE pc[e] = "adopt" /\ AdoptPlan(e)
    <3>1. PICK k \in DOMAIN loc[e].plans : p = loc[e].plans[k]
      BY <1>1 DEF InHand, Elements
    <3>2. k \in Created' /\ shard'[k].input = p
      BY <1>0, <2>5, <3>1, AdoptShards
    <3>3. QED  BY <3>2
  <2>6. CASE StartPlan(e)
    <3>1. ~ Planning(e)
      BY <2>6 DEF StartPlan, Planning
    <3>2. QED  BY <2>1, <3>1 DEF Planned, PlansOwned
  <2>7. QED  BY <2>1, <2>2, <2>3, <2>4, <2>5, <2>6, PlanMoves
<1>2. ASSUME NEW p \in store', p \in store
      PROVE  Accounted(p)
  <2>1. \/ \E i \in Created : p = shard[i].input
        \/ \E e \in Execs : p \in InHand(e)
        \/ p \in leaked
    <3>1. \/ p \in {shard[i].input : i \in Created}
          \/ p \in UNION {InHand(e) : e \in Execs}
          \/ p \in leaked
      BY <1>2 DEF PlansAccounted
    <3>2. QED  BY <3>1
  <2>2. \A i \in Created : i \in Created' /\ shard'[i].input = shard[i].input
    BY <1>0, ShardsStay
  <2>3. leaked \subseteq leaked'
    BY StoreMoves
  <2>4. CASE \E i \in Created : p = shard[i].input
    BY <2>2, <2>4
  <2>5. CASE \E e \in Execs : p \in InHand(e)
    BY <1>1, <2>5
  <2>6. CASE p \in leaked
    BY <2>3, <2>6
  <2>7. QED  BY <2>1, <2>4, <2>5, <2>6
<1>3. ASSUME NEW p \in store', p \notin store
      PROVE  Accounted(p)
  <2>1. ASSUME NEW e \in Execs, Plan(e)
        PROVE  p \in InHand(e)'
    <3>1. pc'[e] = "plan"
      BY <1>0, <1>3, <2>1, PlanLocals
    <3>2. QED  BY <1>3, <2>1, <3>1, PieceAdded
  <2>2. ASSUME NEW e \in Execs, PlanError(e) \/ Abandon(e) \/ Fail(e)
        PROVE  FALSE
    BY <1>3, <2>2 DEF PlanError, Abandon, Fail, Discard
  <2>3. ASSUME NEW e \in Execs, Replan(e)
        PROVE  \E i \in Created' : p = shard'[i].input
    <3>1. shard' # shard
      <4>1. NextIndex \in Shards /\ NextIndex \notin Created /\ pc[e] = "replan"
            /\ SplitInto(e, Halves(shard[NextShard(e)].input, attempts + 1))
        <5>1. SplitInto(e, Halves(shard[NextShard(e)].input, attempts + 1)) /\ pc[e] = "replan"
          BY <1>3, <2>3 DEF Replan
        <5>2. NextIndex \in Nat \ {0} /\ NextIndex \notin Created /\ NextIndex + 1 <= MaxShards
          BY <1>0, <5>1, NextFree DEF SplitInto
        <5>3. QED  BY <5>1, <5>2, ConstantsAssumption DEF Shards
      <4>2. NextIndex # NextShard(e) /\ NextIndex # NextIndex + 1
        BY <1>0, <4>1, ReplanOf, NextFree
      <4>3. shard'[NextIndex] = NewShard(Halves(shard[NextShard(e)].input, attempts + 1)[1])
        BY <1>0, <4>1, <4>2 DEF SplitInto, TypeOK
      <4>4. shard'[NextIndex].status = "active"
        <5>1. \A x : NewShard(x).status = "active"
          BY DEF NewShard
        <5>2. QED  BY <4>3, <5>1
      <4>5. shard[NextIndex] = NoShard
        BY <4>1 DEF Created
      <4>6. QED  BY <4>4, <4>5, RowTypes
    <3> DEFINE h == Halves(shard[NextShard(e)].input, attempts + 1)
    <3>2. /\ Created' = Created \cup {NextIndex, NextIndex + 1}
          /\ shard'[NextIndex].input = h[1] /\ shard'[NextIndex + 1].input = h[2]
          /\ store' = store \cup {h[1], h[2]}
      BY <1>0, <2>3, <3>1, SplitShards
    <3> HIDE DEF h
    <3>3. QED  BY <1>3, <3>2
  <2>4. ASSUME NEW e \in Execs, ReplanFail(e)
        PROVE  p \in leaked'
    BY <1>3, <2>4 DEF ReplanFail
  <2>5. store' # store
    BY <1>3
  <2>6. QED  BY <2>1, <2>2, <2>3, <2>4, <2>5, StoreSteps
<1>4. \A p \in store' : Accounted(p)
  BY <1>2, <1>3
<1>5. ASSUME NEW p \in store'
      PROVE  \/ p \in {shard'[i].input : i \in Created'}
             \/ p \in UNION {InHand(e)' : e \in Execs}
             \/ p \in leaked'
  <2>1. Accounted(p)
    BY <1>4
  <2>2. QED  BY <2>1
<1>6. QED  BY <1>5 DEF PlansAccounted

(***************************************************************************)
(* What is reported succeeded has been extracted                           *)
(***************************************************************************)
LEMMA OffloadSucceeds ==
    ASSUME Named, PlansCover, [Next]_vars, NEW i \in Shards, offload'[i].status = "succeeded"
    PROVE  \/ offload[i].status = "succeeded"
           \/ i \in Created /\ RowsOf(shard[i].input) \subseteq extracted'
<1>0. TypeOK /\ Numbered /\ NamesKept /\ offload \in [Shards -> {NoOffload} \cup OffloadRows]
  BY DEF Named, TypeOK
<1>1. ASSUME NEW e \in Execs, Adopt(e), offload'[i] # offload[i]
      PROVE  FALSE
  <2>1. pc[e] = "adopt" /\ AdoptPlan(e)
    BY <1>1 DEF Adopt, rowVars
  <2>2. offload'[i] # NoOffload
    BY OffloadTypes
  <2>3. i \in Created' /\ Created' = DOMAIN loc[e].plans
    BY <1>0, <2>1, <2>2, AdoptShards DEF Named
  <2>4. offload'[i].status = "active"
    BY <1>0, <2>1, <2>3, AdoptShards DEF Named
  <2>5. QED  BY <2>4
<1>2. ASSUME NEW e \in Execs, ReplanRefused(e)
      PROVE  offload[i].status = "succeeded"
  <2>1. pc[e] = "replan" /\ offload' = [offload EXCEPT ![NextShard(e)].error = "refused"]
    BY <1>2 DEF ReplanRefused
  <2>2. offload[NextShard(e)] \in OffloadRows
    BY <1>0, <2>1, ReplanOf
  <2>3. [offload[NextShard(e)] EXCEPT !.error = "refused"].status = offload[NextShard(e)].status
    BY <2>2 DEF OffloadRows
  <2>4. offload' = [offload EXCEPT ![NextShard(e)] =
                         [offload[NextShard(e)] EXCEPT !.error = "refused"]]
    BY <2>1
  <2>5. QED  BY <1>0, <2>3, <2>4
<1>3. ASSUME NEW e \in Execs, CreateOffload(e)
      PROVE  offload[i].status = "succeeded"
  BY <1>0, <1>3, OffloadTypes DEF CreateOffload
<1>4. ASSUME NEW k \in Shards, OffloadCancel(k)
      PROVE  offload[i].status = "succeeded"
  <2>1. offload[k] \in OffloadRows
    BY <1>0, <1>4 DEF OffloadCancel, Named, MessagesNameOffloads
  <2>2. [offload[k] EXCEPT !.status = "canceled"].status = "canceled"
    BY <2>1 DEF OffloadRows
  <2>3. offload' = [offload EXCEPT ![k] = [offload[k] EXCEPT !.status = "canceled"]]
    BY <1>4 DEF OffloadCancel
  <2>4. QED  BY <1>0, <2>2, <2>3
<1>5. ASSUME NEW k \in Shards, OffloadRerun(k)
      PROVE  offload[i].status = "succeeded"
  BY <1>0, <1>5, OffloadTypes DEF OffloadRerun
<1>6. ASSUME NEW k \in Shards, OffloadRun(k)
      PROVE  \/ offload[i].status = "succeeded"
             \/ i \in Created /\ RowsOf(shard[i].input) \subseteq extracted'
  <2>1. PICK outcome \in scenario.outcomes[Cardinality(RowsOf(shard[k].input))] :
          /\ offload' = [offload EXCEPT ![k] =
                [status |-> IF outcome = "" THEN "succeeded" ELSE "failed", error |-> outcome]]
          /\ extracted' = IF outcome = "" THEN extracted \cup RowsOf(shard[k].input)
                          ELSE extracted
    BY <1>6 DEF OffloadRun
  <2>2. CASE i # k
    BY <1>0, <2>1, <2>2
  <2>3. CASE i = k
    <3>1. offload'[i].status = IF outcome = "" THEN "succeeded" ELSE "failed"
      BY <1>0, <2>1, <2>3
    <3>2. outcome = ""
      BY <3>1
    <3>3. k \in Created
      BY <1>6 DEF OffloadRun, Named, MessagesNameOffloads, OffloadsOfShards
    <3>4. QED  BY <2>1, <2>3, <3>2, <3>3
  <2>4. QED  BY <2>2, <2>3
<1>7. CASE offload'[i] = offload[i]
  BY <1>7
<1>8. QED
  BY <1>1, <1>2, <1>3, <1>4, <1>5, <1>6, <1>7, OffloadSteps

\* A shard succeeds by the sync with its offload job only.
LEMMA ShardSucceeds ==
    ASSUME Named, PlansCover, [Next]_vars, NEW i \in Created', shard'[i].status = "succeeded"
    PROVE  i \in Created /\ (shard[i].status = "succeeded" \/ offload[i].status = "succeeded")
<1>0. TypeOK /\ Numbered /\ NamesKept
  BY DEF Named
<1>1. CASE Touched
  BY <1>1 DEF Touched
<1>2. ASSUME NEW e \in Execs, pc[e] = "adopt", AdoptPlan(e)
      PROVE  FALSE
  BY <1>0, <1>2, AdoptShards
<1>3. ASSUME NEW e \in Execs, Replan(e), shard' # shard
      PROVE  i \in Created /\ shard[i].status = "succeeded"
  <2>1. /\ Created' = Created \cup {NextIndex, NextIndex + 1}
        /\ shard'[NextShard(e)].status = "superseded"
        /\ shard'[NextIndex].status = "active" /\ shard'[NextIndex + 1].status = "active"
        /\ \A k \in Shards \ {NextShard(e), NextIndex, NextIndex + 1} : shard'[k] = shard[k]
    BY <1>0, <1>3, SplitShards
  <2>2. i \in Shards
    BY DEF Created
  <2>3. QED  BY <2>1, <2>2
<1>4. QED  BY <1>0, <1>1, <1>2, <1>3, ShardMoves

\* A copy says succeeded only if the row did when it was loaded.
LEMMA ListSucceeds ==
    ASSUME Named, PlansCover, [Next]_vars, NEW e \in Execs, NEW i \in Shards,
           loc'[e].list[i].status = "succeeded"
    PROVE  /\ i \in Created
           /\ loc[e].list[i].status = "succeeded" \/ shard[i].status = "succeeded"
<1>0. TypeOK /\ Numbered /\ NamesKept /\ NoShard.status = "absent" /\ NoList[i] = NoShard
  BY RowTypes, IdleType DEF Named
<1>1. CASE loc'[e].list = loc[e].list \/ Shorter(loc[e].list, loc'[e].list)
  <2>1. loc[e].list[i].status = "succeeded"
    BY <1>0, <1>1 DEF Shorter
  <2>2. i \in Listed(loc[e].list)
    BY <1>0, <2>1 DEF Listed
  <2>3. QED  BY <1>0, <2>1, <2>2 DEF NamesKept, LocalsName
<1>2. CASE loc'[e].list = NoList
  BY <1>0, <1>2
<1>3. CASE Load(e)
  <2>1. PICK S \in SUBSET Created : loc'[e].list = Loaded(S)
    BY <1>0, <1>3, LoadLocals DEF Current
  <2>2. /\ \A k \in S : loc'[e].list[k].status = shard[k].status
        /\ \A k \in Shards \ S : loc'[e].list[k] = NoShard
    BY <1>0, <2>1, LoadedType
  <2>3. QED  BY <1>0, <2>2
<1>4. QED
  <2>1. Quiet(e) => loc'[e].list = loc[e].list \/ loc'[e].list = NoList
    BY IdleType DEF Quiet
  <2>2. StartPlan(e) \/ Resync(e) => loc'[e].list = NoList
    BY <1>0, StartPlanLocals, ResyncLocals
  <2>3. Plan(e) => loc'[e].list = loc[e].list
    BY <1>0, PlanLocals
  <2>4. Adopt(e) => loc'[e].list = loc[e].list \/ loc'[e].list = NoList
    BY <1>0, AdoptLocals
  <2>5. Sync(e) => Shorter(loc[e].list, loc'[e].list)
    BY <1>0, SyncLocals
  <2>6. Replan(e) \/ ReplanRefused(e) => Shorter(loc[e].list, loc'[e].list)
    BY <1>0, ReplanLocals
  <2>7. CreateOffload(e) => loc'[e].list = loc[e].list
    BY <1>0, CreateLocals
  <2>8. QED
    BY <1>0, <1>1, <1>2, <1>3, <2>1, <2>2, <2>3, <2>4, <2>5, <2>6, <2>7, OwnMoves DEF Loud

\* Fold says succeeded of shards that all did.
LEMMA FoldSucceeds ==
    ASSUME NEW seen, Fold(seen) = "succeeded"
    PROVE  seen = {"succeeded"}
BY DEF Fold

Reported == RowsInside /\ SourceKept /\ SuccessExtracted /\ LoadedCover /\ FoldedExtracted

\* Once extracted, always extracted: stale copies of success stay true.
LEMMA SuccessExtractedStep ==
    ASSUME Planned, Reported, [Next]_vars
    PROVE  SuccessExtracted' /\ extracted \subseteq extracted'
<1>0. /\ TypeOK /\ Numbered /\ NamesKept /\ PlansCover /\ Named /\ SourceRows' = SourceRows
      /\ extracted \subseteq SourceRows
  BY SourceStays DEF Planned, Named, Reported, SuccessExtracted
<1>1. extracted \subseteq extracted' /\ extracted' \subseteq SourceRows
  <2>1. ASSUME NEW i \in Shards, OffloadRun(i)
        PROVE  extracted \subseteq extracted' /\ extracted' \subseteq SourceRows
    <3>1. /\ i \in Created
          /\ extracted' = extracted \/ extracted' = extracted \cup RowsOf(shard[i].input)
      BY <2>1 DEF OffloadRun, Planned, Named, MessagesNameOffloads, OffloadsOfShards
    <3>2. RowsOf(shard[i].input) \subseteq SourceRows
      BY <3>1 DEF Reported, RowsInside
    <3>3. QED  BY <1>0, <3>1, <3>2
  <2>2. QED  BY <1>0, <2>1, ExtractedSteps
<1>2. \A i \in Created : i \in Shards /\ i \in Created' /\ shard'[i].input = shard[i].input
  BY <1>0, ShardsStay DEF Created
<1>3. \A i \in Created : Extracted(i) => RowsOf(shard'[i].input) \subseteq extracted'
  BY <1>1, <1>2 DEF Extracted
<1>4. \A i \in Created : /\ offload[i].status = "succeeded" => Extracted(i)
                         /\ shard[i].status = "succeeded" => Extracted(i)
                         /\ \A e \in Execs : loc[e].list[i].status = "succeeded" => Extracted(i)
  BY DEF Reported, SuccessExtracted
<1>5. ASSUME NEW i \in Created', offload'[i].status = "succeeded"
      PROVE  RowsOf(shard'[i].input) \subseteq extracted'
  <2>1. i \in Shards
    BY DEF Created
  <2>2. CASE offload[i].status = "succeeded"
    <3>1. i \in Created
      BY <1>0, <2>1, <2>2, OffloadTypes DEF Named, OffloadsOfShards
    <3>2. QED  BY <1>3, <1>4, <2>2, <3>1
  <2>3. CASE i \in Created /\ RowsOf(shard[i].input) \subseteq extracted'
    BY <1>2, <2>3
  <2>4. QED  BY <1>0, <1>5, <2>1, <2>2, <2>3, OffloadSucceeds
<1>6. ASSUME NEW i \in Created', shard'[i].status = "succeeded"
      PROVE  RowsOf(shard'[i].input) \subseteq extracted'
  BY <1>0, <1>3, <1>4, <1>6, ShardSucceeds
<1>7. ASSUME NEW i \in Created', NEW e \in Execs, loc'[e].list[i].status = "succeeded"
      PROVE  RowsOf(shard'[i].input) \subseteq extracted'
  <2>1. i \in Shards
    BY DEF Created
  <2>2. QED  BY <1>0, <1>3, <1>4, <1>7, <2>1, ListSucceeds
<1>8. QED  BY <1>0, <1>1, <1>5, <1>6, <1>7 DEF SuccessExtracted, Extracted

\* A split after the second query supersedes shards whose rows are still counted.
LEMMA LoadedCoverStep ==
    ASSUME Planned, Reported, [Next]_vars
    PROVE  LoadedCover'
<1>0. /\ TypeOK /\ Numbered /\ NamesKept /\ PlansCover /\ SourceRows' = SourceRows
  BY SourceStays DEF Planned, Named
<1>2. \A i \in Created : shard'[i].input = shard[i].input
  BY <1>0, ShardsStay
<1>3. ASSUME NEW e \in Execs, pc'[e] = "resync",
             NEW listed, listed = {i \in Shards : loc'[e].list[i] # NoShard}
      PROVE  listed = {} \/ UNION {RowsOf(shard'[i].input) : i \in listed} = SourceRows
  <2>1. CASE pc'[e] = pc[e] /\ loc'[e] = loc[e]
    <3>1. listed = Listed(loc[e].list)
      BY <1>3, <2>1 DEF Listed
    <3>2. listed = {} \/ UNION {RowsOf(shard[i].input) : i \in listed} = SourceRows
      BY <1>3, <2>1, <3>1 DEF Reported, LoadedCover
    <3>3. listed \subseteq Created
      BY <3>1 DEF Planned, Named, NamesKept, LocalsName
    <3>4. \A i \in listed : shard'[i].input = shard[i].input
      BY <1>2, <3>3
    <3>5. UNION {RowsOf(shard'[i].input) : i \in listed}
             = UNION {RowsOf(shard[i].input) : i \in listed}
      BY <3>4
    <3>6. QED  BY <3>2, <3>5
  <2>2. CASE Load(e)
    <3>1. loc'[e].list = Loaded(Current) /\ Current \subseteq Created
      BY <1>0, <1>3, <2>2, LoadLocals DEF Current
    <3>2. listed = Current
      <4>1. Listed(Loaded(Current)) = Current
        BY <1>0, <3>1, LoadedType
      <4>2. QED  BY <1>3, <3>1, <4>1 DEF Listed
    <3>3. shard' = shard
      BY <2>2 DEF Load, rowVars
    <3>4. Current = {} \/ UNION {RowsOf(shard[i].input) : i \in Current} = SourceRows
      BY <3>1 DEF Reported, SourceKept, RowsCovered
    <3>5. QED  BY <3>2, <3>3, <3>4
  <2>3. Quiet(e) => pc'[e] # "resync" \/ (pc'[e] = pc[e] /\ loc'[e] = loc[e])
    BY DEF Quiet
  <2>4. StartPlan(e) => pc'[e] # "resync"
    BY DEF StartPlan
  <2>5. Plan(e) => pc'[e] # "resync"
    BY <1>0, PlanLocals
  <2>6. Adopt(e) => pc'[e] # "resync"
    BY <1>0, AdoptLocals
  <2>7. Sync(e) \/ Replan(e) \/ ReplanRefused(e) => pc'[e] # "resync"
    BY <1>0, SyncLocals, ReplanLocals
  <2>8. CreateOffload(e) \/ Resync(e) => pc'[e] # "resync"
    BY <1>0, CreateLocals, ResyncLocals
  <2>9. QED
    BY <1>0, <1>3, <2>1, <2>2, <2>3, <2>4, <2>5, <2>6, <2>7, <2>8, OwnMoves DEF Loud
<1>4. QED  BY <1>0, <1>3 DEF LoadedCover, Listed

\* The fold of copies that all succeeded means that all rows were extracted.
LEMMA FoldedExtractedStep ==
    ASSUME Planned, Reported, [Next]_vars
    PROVE  FoldedExtracted'
<1>0. /\ TypeOK /\ Numbered /\ NamesKept /\ PlansCover /\ SourceRows' = SourceRows
      /\ extracted \subseteq extracted' /\ extracted' \subseteq SourceRows
  BY SourceStays, SuccessExtractedStep DEF Planned, Named, SuccessExtracted
<1>1. ASSUME NEW e \in Execs, Resync(e), loc'[e].folded = "succeeded"
      PROVE  SourceRows \subseteq extracted
  <2> DEFINE list == loc[e].list
             seen == {Synced(list, i).status : i \in Listed(list)}
  <2>1. Fold(seen) = "succeeded" /\ pc[e] = "resync"
    BY <1>0, <1>1, ResyncLocals
  <2> HIDE DEF seen
  <2>2. seen = {"succeeded"}
    BY <2>1, FoldSucceeds
  <2> USE DEF seen
  <2>3. Listed(list) # {} /\ \A i \in Listed(list) : Synced(list, i).status = "succeeded"
    BY <2>2
  <2>4. Listed(list) \subseteq Created
    BY DEF Planned, Named, NamesKept, LocalsName
  <2>5. ASSUME NEW i \in Listed(list)
        PROVE  RowsOf(shard[i].input) \subseteq extracted
    <3>1. offload[i].status = "succeeded" \/ list[i].status = "succeeded"
      BY <2>3 DEF Synced
    <3>2. i \in Created
      BY <2>4
    <3>3. QED  BY <3>1, <3>2 DEF Reported, SuccessExtracted, Extracted
  <2>6. UNION {RowsOf(shard[i].input) : i \in Listed(list)} = SourceRows
    BY <2>1, <2>3 DEF Reported, LoadedCover
  <2>7. UNION {RowsOf(shard[i].input) : i \in Listed(list)} \subseteq extracted
    BY <2>5
  <2>8. QED  BY <2>6, <2>7
<1>2. ASSUME NEW e \in Execs, loc'[e].folded = "succeeded"
      PROVE  extracted' = SourceRows
  <2>1. CASE loc'[e].folded = loc[e].folded
    <3>1. extracted = SourceRows
      BY <1>2, <2>1 DEF Reported, FoldedExtracted
    <3>2. QED  BY <1>0, <3>1
  <2>2. Quiet(e) => loc'[e].folded = loc[e].folded \/ loc'[e].folded = ""
    BY IdleType DEF Quiet
  <2>3. StartPlan(e) \/ Load(e) => loc'[e].folded = ""
    BY <1>0, StartPlanLocals, LoadLocals
  <2>4. Plan(e) => loc'[e].folded = loc[e].folded
    BY <1>0, PlanLocals
  <2>5. Adopt(e) => loc'[e].folded = loc[e].folded \/ loc'[e].folded = ""
    BY <1>0, AdoptLocals
  <2>6. Sync(e) \/ CreateOffload(e) => loc'[e].folded = loc[e].folded
    BY <1>0, SyncLocals, CreateLocals
  <2>7. Replan(e) \/ ReplanRefused(e) => loc'[e].folded = loc[e].folded
    BY <1>0, ReplanLocals
  <2>8. Resync(e) => extracted' = SourceRows
    BY <1>0, <1>1, <1>2
  <2>9. QED
    BY <1>0, <1>2, <2>1, <2>2, <2>3, <2>4, <2>5, <2>6, <2>7, <2>8, OwnMoves DEF Loud
<1>3. QED  BY <1>0, <1>2 DEF FoldedExtracted

\* The status is succeeded only by the save of such a fold.
LEMMA SucceededExtractedStep ==
    ASSUME Planned, Reported, SucceededExtracted, [Next]_vars
    PROVE  SucceededExtracted'
<1>0. /\ SourceRows' = SourceRows
      /\ extracted \subseteq extracted' /\ extracted' \subseteq SourceRows
  BY SourceStays, SuccessExtractedStep DEF Planned, Named, SuccessExtracted
<1>1. ASSUME status' = "succeeded", status = "succeeded"
      PROVE  extracted = SourceRows
  BY <1>1 DEF SucceededExtracted
<1>2. ASSUME NEW e \in Execs, Save(e), status' = "succeeded"
      PROVE  extracted = SourceRows
  BY <1>2 DEF Save, Reported, FoldedExtracted
<1>3. \A e \in Execs : PlanFailed(e) \/ Adopt(e) => status' = status \/ status' # "succeeded"
  BY DEF PlanFailed, Adopt, AdoptPlan, rowVars
<1>4. Submit \/ CancelSave \/ RerunFailed => status' = status \/ status' # "succeeded"
  BY DEF Submit, CancelSave, RerunFailed
<1>5. status' = "succeeded" => extracted = SourceRows
  BY <1>1, <1>2, <1>3, <1>4, StatusSteps
<1>6. QED  BY <1>0, <1>5 DEF SucceededExtracted

(***************************************************************************)
(* The theorems                                                            *)
(***************************************************************************)
LEMMA InitIInv == Init => IInv
<1> SUFFICES ASSUME Init PROVE IInv
  OBVIOUS
<1> USE DEF Init
<1>0. /\ MaxRows \in Nat /\ MaxShards \in Nat /\ scenario \in ScenarioSet
      /\ scenario.rows \in 0..MaxRows
  BY ConstantsAssumption DEF ScenarioSet
<1>1. /\ Created = {} /\ Current = {}
      /\ \A e \in Execs : loc[e] = Idle /\ pc[e] = "idle"
      /\ \A i \in Shards : shard[i] = NoShard /\ offload[i] = NoOffload
  BY DEF Created, Current
<1>2. Elements(<<>>) = {} /\ LastRow(<<>>) = 0
  BY DEF Elements, LastRow
<1>3. TypeOK
  <2>1. pc \in [Execs -> Positions] /\ loc \in [Execs -> Locals]
    BY IdleType DEF Positions
  <2>2. canceler \in [at : {"idle", "shards", "job"}, todo : SUBSET Shards]
    BY DEF NotCanceling
  <2>3. /\ status \in JobStates
        /\ shard \in [Shards -> {NoShard} \cup ShardRows]
        /\ offload \in [Shards -> {NoOffload} \cup OffloadRows]
    BY DEF JobStates
  <2>4. QED  BY <1>0, <2>1, <2>2, <2>3 DEF TypeOK
<1>4. Numbered
  <2>1. 0 \in 0..MaxShards /\ 1..0 = {}
    BY <1>0
  <2>2. QED  BY <1>1, <2>1 DEF Numbered
<1>5. OffloadsOfShards /\ MessagesNameOffloads
  <2>1. NoShard.status # "failed"
    BY RowTypes
  <2>2. QED  BY <1>1, <2>1 DEF OffloadsOfShards, MessagesNameOffloads
<1>6. NamesKept
  <2>1. \A i \in Shards : NoList[i].status # "failed"
    BY IdleType, RowTypes
  <2>2. \A e \in Execs : LocalsName(e)
    BY <1>1, <1>2, <2>1, IdleType DEF LocalsName
  <2>3. QED  BY <2>2 DEF NamesKept, NotCanceling
<1>7. PlansOwned
  BY <1>1, IdleType DEF PlansOwned, Planning
<1>8. PlansCover
  <2>1. UNION {RowsOf(p) : p \in {}} = 1..0 /\ 0 <= scenario.rows /\ Len(<<>>) = 0
    BY <1>0
  <2>2. CoverOf(<<>>, "idle")
    BY <1>2, <2>1 DEF CoverOf
  <2>3. \A e \in Execs : CoverOf(loc[e].plans, pc[e])
    BY <1>1, <2>2, IdleType
  <2>4. QED  BY <2>3 DEF PlansCover, CoverOf
<1>9. RowsInside /\ SourceKept /\ PlansAccounted
  BY <1>1 DEF RowsInside, SourceKept, RowsCovered, InputsKept, PlansAccounted
<1>10. SuccessExtracted /\ LoadedCover /\ FoldedExtracted /\ SucceededExtracted
  BY <1>1, IdleType DEF SuccessExtracted, LoadedCover, FoldedExtracted, SucceededExtracted
<1>11. HandsKept /\ WorkAccounted
  BY <1>1, IdleType DEF HandsKept, WorkAccounted
<1>12. QED
  BY <1>3, <1>4, <1>5, <1>6, <1>7, <1>8, <1>9, <1>10, <1>11 DEF IInv

\* Every step preserves the strengthening.
LEMMA StepIInv == IInv /\ [Next]_vars => IInv'
<1> SUFFICES ASSUME IInv, [Next]_vars PROVE IInv'
  OBVIOUS
<1>1. /\ TypeOK /\ Numbered /\ OffloadsOfShards /\ MessagesNameOffloads /\ NamesKept
      /\ HandsKept /\ WorkAccounted
      /\ PlansCover /\ PlansOwned /\ RowsInside /\ RowsCovered /\ InputsKept /\ PlansAccounted
      /\ SucceededExtracted
  BY DEF IInv, SourceKept
<1>2. Named /\ Planned /\ Reported
  BY DEF IInv, Named, Planned, Reported
<1>3. TypeOK'  BY <1>1, TypeStep
<1>4. Numbered'  BY <1>1, NumberedStep
<1>5. OffloadsOfShards'  BY <1>1, <1>2, OffloadsOfShardsStep
<1>6. MessagesNameOffloads'  BY <1>1, <1>2, MessagesNameOffloadsStep
<1>7. NamesKept'  BY <1>1, <1>2, NamesKeptStep
<1>8. PlansOwned'  BY <1>2, PlansOwnedStep
<1>9. PlansCover'  BY <1>2, PlansCoverStep
<1>10. RowsInside'  BY <1>1, <1>2, RowsInsideStep
<1>11. SourceKept'  BY <1>1, <1>2, RowsCoveredStep, InputsKeptStep DEF SourceKept
<1>12. PlansAccounted'  BY <1>1, <1>2, PlansAccountedStep
<1>13. SuccessExtracted'  BY <1>2, SuccessExtractedStep
<1>14. LoadedCover'  BY <1>2, LoadedCoverStep
<1>15. FoldedExtracted'  BY <1>2, FoldedExtractedStep
<1>16. SucceededExtracted'  BY <1>1, <1>2, SucceededExtractedStep
<1>17. HandsKept'  BY <1>1, <1>2, HandsKeptStep
<1>18. WorkAccounted'  BY <1>1, <1>2, WorkAccountedStep
<1>19. QED
  BY <1>3, <1>4, <1>5, <1>6, <1>7, <1>8, <1>9, <1>10, <1>11, <1>12, <1>13, <1>14, <1>15,
     <1>16, <1>17, <1>18 DEF IInv

\* The strengthening holds in every reachable state: whatever the interleaving of
\* planners, reconciles, replans, cancels, re-runs and faults (tasks.py).
THEOREM ExtractionInvariant == Spec => []IInv
BY InitIInv, StepIInv, PTL DEF Spec

\* Rows, messages and locals keep their types; in particular a reconcile never
\* folds a job into a status that is none, and no replan runs out of shard numbers.
THEOREM ExtractionTypeCorrect == Spec => []TypeOK
<1>1. IInv => TypeOK  BY DEF IInv
<1>2. QED  BY <1>1, ExtractionInvariant, PTL

\* No row of the source and no object that holds rows is lost: discard_plans and
\* the stale saves of reconcile_extraction never take one away.
THEOREM SourceKeptHolds == Spec => []SourceKept
<1>1. IInv => SourceKept  BY DEF IInv
<1>2. QED  BY <1>1, ExtractionInvariant, PTL

\* An artifact without a shard is in the hands of an execution that will adopt or
\* discard it (submit_extraction, replan_shard), or a fault left it behind.
THEOREM PlansAccountedHolds == Spec => []PlansAccounted
<1>1. IInv => PlansAccounted  BY DEF IInv
<1>2. QED  BY <1>1, ExtractionInvariant, PTL

\* A job is saved as succeeded only when every row has been extracted, although
\* reconcile_extraction decides it from copies that may be stale.
THEOREM SucceededExtractedHolds == Spec => []SucceededExtracted
<1>1. IInv => SucceededExtracted  BY DEF IInv
<1>2. QED  BY <1>1, ExtractionInvariant, PTL

\* Without a fault no shard and no offload job waits for work that nobody will do,
\* in any interleaving of adoption, replans, cancels and re-runs (tasks.py
\* submit_extraction, reconcile_extraction and _dispatch_shard).
THEOREM WorkAccountedHolds == Spec => []WorkAccounted
<1>1. IInv => WorkAccounted  BY DEF IInv
<1>2. QED  BY <1>1, ExtractionInvariant, PTL

\* Only the last save of a reconcile can overwrite a cancel: every other writer of
\* the job's status looks at the row it locks.
THEOREM CancelLostToFoldHolds == Spec => CancelLostToFold
<1>1. IInv /\ [Next]_vars =>
        [status = "canceled" /\ status' # "canceled" =>
            \E e \in Execs : pc[e] = "save" /\ pc'[e] = "idle"]_vars
  <2> SUFFICES ASSUME IInv, [Next]_vars, status = "canceled", status' # "canceled"
               PROVE  \E e \in Execs : pc[e] = "save" /\ pc'[e] = "idle"
    OBVIOUS
  <2>1. ~ (Submit \/ CancelSave \/ RerunFailed)
    BY DEF Submit, CancelSave, RerunFailed
  <2>2. \A e \in Execs : ~ (PlanFailed(e) \/ Adopt(e))
    BY DEF PlanFailed, Adopt, AdoptPlan, rowVars
  <2>3. PICK e \in Execs : Save(e)
    BY <2>1, <2>2, StatusSteps
  <2>4. pc[e] = "save" /\ pc'[e] = "idle"
    BY <2>3 DEF Save, EndExec, GotoWith, IInv, TypeOK
  <2>5. QED  BY <2>4
<1>2. QED  BY <1>1, ExtractionInvariant, PTL DEF Spec, CancelLostToFold
=============================================================================
