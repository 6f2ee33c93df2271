--------------------------- MODULE OffloadJobProofs ---------------------------
(***************************************************************************)
(* Machine-checked safety of OffloadJob, for any finite set of operation   *)
(* ids, any number of messages and any quota.                              *)
(***************************************************************************)
EXTENDS OffloadJob, FiniteSetTheorems, TLAPS

(***************************************************************************)
(* The strengthening                                                       *)
(***************************************************************************)

\* A message names a job that has been admitted, and keeps naming it.
MessagesNameJobs ==
    \A e \in Execs : /\ pc[e] = "unused" <=> job[e] = None
                     /\ job[e] # None => status[job[e]] # "absent"

\* Only an admitted job has an API call under way.
ApiOfAdmitted == \A j \in Jobs : api[j] # "idle" => status[j] # "absent"

\* Positions before a remote job of the execution can exist.
Before == {"unused", "sent", "dispatch", "run", "submit", "rdelay", "rsaveid",
           "rsent", "rrun"}
OnR == {"rdelay", "rsaveid", "rsent", "rrun"}

\* What an execution remembers of its remote job is still true once the remote
\* job has ended.
RemoteOf(e) ==
    /\ pc[e] \in Before => remote[e] = "none"
    /\ seen[e] \notin {"none", "active"} => remote[e] = seen[e]
    /\ pc[e] = "verify" => seen[e] = "completed"
    /\ pc[e] \in OnR => queue[job[e]] = "r"
    /\ pc[e] \in {"run", "submit"} \/ remote[e] # "none" => queue[job[e]] # "r"
    /\ pc[e] \in {"complete", "final"} =>
          queue[job[e]] = "r" \/ remote[e] = "completed"

RemoteRemembered == \A e \in Execs : RemoteOf(e)

\* The output of a row was written by an execution of its job, which has ended.
OutputWritten ==
    \A j \in Jobs : output[j] # None =>
        /\ job[output[j]] = j /\ pc[output[j]] = "done"
        /\ queue[j] = "r" \/ remote[output[j]] = "completed"

\* The executions of a job that may still write its output, have a remote job,
\* or wrote the output of the row.  An execution that has handed over to the R
\* queue is none of them: the message it sent takes its place.
Runs(j) == {e \in Execs : /\ job[e] = j
                          /\ \/ pc[e] \notin {"unused", "rsaveid", "done"}
                             \/ remote[e] # "none"
                             \/ output[j] = e}

\* Each admission and each re-run pays for one of them.
RunsPaid ==
    \A j \in Jobs :
        /\ IsFiniteSet(Runs(j))
        /\ Cardinality(Runs(j)) + (IF api[j] = "delay" THEN 1 ELSE 0) <= 1 + reruns[j]

\* Between the readback of the output and its publication nobody else writes
\* it, unless the job was run again.
OutputUntouched ==
    \A e \in Execs : pc[e] \in {"complete", "final"} /\ reruns[job[e]] = 0 =>
        object[job[e]] = e

\* A row is canceled on a user's request only.
CancelRequested ==
    \A j \in Jobs : status[j] = "canceled" \/ cancelTask[j] # "idle" =>
        cancelApi[j] # "idle"

\* A remote job that is active has an execution that waits for it, or a fault or
\* a cancel has parted the two.
Waiting == {"persist", "poll", "update", "deadline"}

Waited ==
    \A e \in Execs : remote[e] = "active" =>
        pc[e] \in Waiting \/ faults > 0 \/ cancelApi[job[e]] # "idle"

\* Every remote id that a row, a copy of it or a cancel task holds is that of a
\* remote job that was submitted.
RefsSubmitted ==
    /\ \A j \in Jobs : remoteRef[j] # None => remote[remoteRef[j]] # "none"
    /\ \A j \in Jobs : cancelRef[j] # None => remote[cancelRef[j]] # "none"
    /\ \A e \in Execs : snap[e].remoteRef # None => remote[snap[e].remoteRef] # "none"
    /\ \A e \in Execs : pc[e] = "persist" => remote[e] # "none"

\* A cancel task reads the remote id once, and has ended the remote job it read
\* when it goes on to its save.
CancelReached ==
    \A j \in Jobs :
        /\ cancelApi[j] = "idle" \/ cancelTask[j] = "sent" => cancelRef[j] = None
        /\ cancelTask[j] \in {"save", "idle"} /\ cancelRef[j] # None =>
              faults > 0 \/ remote[cancelRef[j]] # "active"

IInv ==
    /\ TypeOK
    /\ MessagesNameJobs
    /\ ApiOfAdmitted
    /\ RemoteRemembered
    /\ OutputWritten
    /\ RunsPaid
    /\ OutputUntouched
    /\ CancelRequested
    /\ Waited
    /\ RefsSubmitted
    /\ CancelReached
    /\ SucceededHasOutput
    /\ QuotaAccounted

(***************************************************************************)
(* Type correctness                                                        *)
(***************************************************************************)
LEMMA ScenarioType ==
    ASSUME TypeOK
    PROVE  /\ scenario.queues \subseteq {"runpod", "r"} /\ scenario.messages \in Nat
           /\ scenario.reruns \in Nat /\ scenario.faults \in Nat
           /\ scenario.limit \in Nat /\ scenario.others \in Nat
BY ConstantsAssumption DEF TypeOK

\* The counters of the other producers' rows are natural numbers.
LEMMA OthersType ==
    ASSUME TypeOK
    PROVE  others \in Nat /\ counted \in Nat
<1>1. scenario.others \in Nat  BY ScenarioType
<1>2. others \in 0..scenario.others /\ counted \in 0..others  BY DEF TypeOK
<1>3. others \in Nat  BY <1>1, <1>2
<1>4. QED  BY <1>2, <1>3

\* What an execution does to its own position keeps the types.
LEMMA GotoType ==
    ASSUME TypeOK, NEW e \in Execs, NEW label \in {"done"} \cup Busy, Goto(e, label)
    PROVE  /\ pc' \in [Execs -> {"unused", "sent", "rsent", "done"} \cup Busy]
           /\ UNCHANGED <<job, seen, snap>>
BY DEF TypeOK, Goto

\* The rows that workers and the API have read.
LEMMA SnapType ==
    /\ NoSnap \in Snaps
    /\ \A s \in Snaps, r \in Execs : [s EXCEPT !.taskId = r] \in Snaps
    /\ \A s \in Snaps : /\ s.taskId \in Execs \cup {None} /\ s.remoteRef \in Execs \cup {None}
                        /\ s.error \in {"", "error"}
BY DEF Snaps, NoSnap

\* An execution that has been sent has a job.
LEMMA JobOf ==
    ASSUME TypeOK, MessagesNameJobs, NEW e \in Execs, pc[e] # "unused"
    PROVE  job[e] \in Jobs
BY DEF TypeOK, MessagesNameJobs

\* Faults are counted.
LEMMA FaultType ==
    ASSUME TypeOK, Fault
    PROVE  faults' \in 0..scenario.faults
<1>1. faults \in 0..scenario.faults  BY DEF TypeOK
<1>2. QED  BY <1>1, ScenarioType DEF Fault

\* client.cancel takes a remote job from one of its states to another.
LEMMA CancelRemoteType ==
    ASSUME TypeOK, NEW r, CancelRemote(r)
    PROVE  remote' \in [Execs -> RemoteStates]
BY DEF CancelRemote, TypeOK, RemoteStates

\* Every action keeps every variable in its range.
LEMMA TypeStep ==
    ASSUME TypeOK, MessagesNameJobs, [Next]_vars
    PROVE  TypeOK'
<1> USE DEF rowVars, apiVars, cancelVars, execVars, envVars, countVars, quotaVars
<1> DEFINE ExecOK == /\ pc' \in [Execs -> {"unused", "sent", "rsent", "done"} \cup Busy]
                     /\ UNCHANGED <<job, seen, snap>>
<1>0. \A e \in Execs, label \in {"done"} \cup Busy : Goto(e, label) => ExecOK
  BY GotoType
<1> HIDE DEF ExecOK
<1>1. ASSUME NEW j \in Jobs, NEW q \in {"runpod", "r"}, Invoke(j, q)
      PROVE  TypeOK'
  <2>1. others \in 0..scenario.others /\ scenario.others \in Nat
    BY ScenarioType DEF TypeOK
  <2>2. counted' = others /\ others' = others /\ counted' \in 0..others'
    BY <1>1, <2>1 DEF Invoke
  <2>3. QED  BY <1>1, <2>2 DEF Invoke, New, TypeOK, Active
<1>2. ASSUME NEW j \in Jobs, ReRun(j)
      PROVE  TypeOK'
  <2>1. reruns' \in [Jobs -> 0..scenario.reruns]
    <3>1. reruns \in [Jobs -> 0..scenario.reruns]  BY DEF TypeOK
    <3>2. reruns[j] \in 0..scenario.reruns /\ scenario.reruns \in Nat
      BY <3>1, ScenarioType
    <3>3. reruns' = [reruns EXCEPT ![j] = reruns[j] + 1] /\ reruns[j] < scenario.reruns
      BY <1>2 DEF ReRun
    <3>4. reruns[j] + 1 \in 0..scenario.reruns  BY <3>2, <3>3
    <3>5. QED  BY <3>1, <3>3, <3>4
  <2>2. QED  BY <1>2, <2>1 DEF ReRun, TypeOK, Active
<1>3. ASSUME NEW j \in Jobs, NEW e \in Execs, ApiDelay(j, e)
      PROVE  TypeOK'
  BY <1>3 DEF ApiDelay, Send, NextMessage, TypeOK
<1>4. ASSUME NEW j \in Jobs, ApiSaveId(j)
      PROVE  TypeOK'
  BY <1>4 DEF ApiSaveId, TypeOK
<1>5. ASSUME NEW j \in Jobs, ApiCrash(j)
      PROVE  TypeOK'
  BY <1>5, FaultType DEF ApiCrash, TypeOK
<1>6. ASSUME NEW j \in Jobs, CancelRead(j)
      PROVE  TypeOK'
  BY <1>6 DEF CancelRead, TypeOK
<1>7. ASSUME NEW j \in Jobs, CancelSave(j)
      PROVE  TypeOK'
  BY <1>7 DEF CancelSave, TypeOK, Terminal
<1>8. ASSUME NEW j \in Jobs, CancelTaskRead(j)
      PROVE  TypeOK'
  BY <1>8 DEF CancelTaskRead, TypeOK
<1>9. ASSUME NEW j \in Jobs, CancelTaskRemote(j)
      PROVE  TypeOK'
  <2>1. faults' \in 0..scenario.faults /\ remote' \in [Execs -> RemoteStates]
    BY <1>9, FaultType, CancelRemoteType DEF CancelTaskRemote, TypeOK
  <2>2. QED  BY <1>9, <2>1 DEF CancelTaskRemote, TypeOK
<1>10. ASSUME NEW j \in Jobs, CancelTaskSave(j)
      PROVE  TypeOK'
  BY <1>10 DEF CancelTaskSave, TypeOK, Terminal
<1>11. ASSUME NEW e \in Execs, Discard(e)
      PROVE  TypeOK'
  <2>1. ExecOK  BY <1>11, <1>0 DEF Discard, Busy, EndIfCanceled
  <2>2. QED  BY <1>11, <2>1 DEF Discard, ExecOK, TypeOK
<1>12. ASSUME NEW e \in Execs, DispatchRead(e)
      PROVE  TypeOK'
  <2>1. ExecOK  BY <1>12, <1>0 DEF DispatchRead, Busy, EndIfCanceled
  <2>2. QED  BY <1>12, <2>1 DEF DispatchRead, ExecOK, TypeOK
<1>13. ASSUME NEW e \in Execs, DispatchSave(e)
      PROVE  TypeOK'
  <2>1. ExecOK  BY <1>13, <1>0 DEF DispatchSave, Busy
  <2>2. job[e] \in Jobs  BY <1>13, JobOf DEF DispatchSave
  <2>3. QED  BY <1>13, <2>1, <2>2 DEF DispatchSave, ExecOK, TypeOK, Active
<1>14. ASSUME NEW e \in Execs, NEW r \in Execs, DispatchR(e, r)
      PROVE  TypeOK'
  <2>1. snap' \in [Execs -> Snaps]  BY <1>14, SnapType DEF DispatchR, TypeOK
  <2>2. QED  BY <1>14, <2>1 DEF DispatchR, TypeOK, Busy
<1>15. ASSUME NEW e \in Execs, DispatchRSaveId(e)
      PROVE  TypeOK'
  <2>1. snap' \in [Execs -> Snaps]  BY <1>15, SnapType DEF DispatchRSaveId, TypeOK
  <2>2. snap[e].taskId \in Execs \cup {None}  BY SnapType DEF TypeOK
  <2>3. QED  BY <1>15, <2>1, <2>2 DEF DispatchRSaveId, TypeOK
<1>16. ASSUME NEW e \in Execs, RunRead(e)
      PROVE  TypeOK'
  <2>1. ExecOK  BY <1>16, <1>0 DEF RunRead, Busy, EndIfCanceled
  <2>2. QED  BY <1>16, <2>1 DEF RunRead, ExecOK, TypeOK
<1>17. ASSUME NEW e \in Execs, Submit(e)
      PROVE  TypeOK'
  <2>1. ExecOK  BY <1>17, <1>0 DEF Submit, Busy, EndIfCanceled
  <2>2. QED  BY <1>17, <2>1 DEF Submit, ExecOK, TypeOK, RemoteStates
<1>18. ASSUME NEW e \in Execs, Persist(e)
      PROVE  TypeOK'
  <2>1. ExecOK  BY <1>18, <1>0 DEF Persist, Busy, EndIfCanceled
  <2>2. QED  BY <1>18, <2>1 DEF Persist, ExecOK, TypeOK
<1>19. ASSUME NEW e \in Execs, Poll(e)
      PROVE  TypeOK'
  BY <1>19 DEF Poll, TypeOK, Busy
<1>20. ASSUME NEW e \in Execs, Update(e)
      PROVE  TypeOK'
  <2>1. ExecOK  BY <1>20, <1>0 DEF Update, Busy, EndIfCanceled
  <2>2. QED  BY <1>20, <2>1 DEF Update, ExecOK, TypeOK
<1>21. ASSUME NEW e \in Execs, Abandon(e)
      PROVE  TypeOK'
  <2>1. ExecOK  BY <1>21, <1>0 DEF Abandon, Busy, EndIfCanceled
  <2>2. QED  BY <1>21, <2>1 DEF Abandon, ExecOK, TypeOK
<1>22. ASSUME NEW e \in Execs, Deadline(e)
      PROVE  TypeOK'
  <2>1. ExecOK  BY <1>22, <1>0 DEF Deadline, Busy
  <2>2. faults' \in 0..scenario.faults /\ remote' \in [Execs -> RemoteStates]
    BY <1>22, FaultType, CancelRemoteType DEF Deadline, TypeOK
  <2>3. QED  BY <1>22, <2>1, <2>2 DEF Deadline, ExecOK, TypeOK
<1>23. ASSUME NEW e \in Execs, Verify(e)
      PROVE  TypeOK'
  <2>1. ExecOK  BY <1>23, <1>0 DEF Verify, Busy, EndIfCanceled
  <2>2. QED  BY <1>23, <2>1 DEF Verify, ExecOK, TypeOK
<1>24. ASSUME NEW e \in Execs, RunR(e)
      PROVE  TypeOK'
  <2>1. ExecOK  BY <1>24, <1>0 DEF RunR, Busy, EndIfCanceled
  <2>2. QED  BY <1>24, <2>1 DEF RunR, ExecOK, TypeOK
<1>25. ASSUME NEW e \in Execs, ComputeR(e)
      PROVE  TypeOK'
  <2>1. ExecOK  BY <1>25, <1>0 DEF ComputeR, Busy, EndIfCanceled
  <2>2. QED  BY <1>25, <2>1 DEF ComputeR, ExecOK, TypeOK
<1>26. ASSUME NEW e \in Execs, Complete(e)
      PROVE  TypeOK'
  <2>1. CASE Goto(e, "done")
    <3>1. ExecOK  BY <2>1, <1>0
    <3>2. QED  BY <1>26, <3>1 DEF Complete, ExecOK, TypeOK
  <2>2. CASE status[job[e]] # "canceled"
    <3>1. job[e] \in Jobs  BY <1>26, JobOf DEF Complete
    <3>2. [taskId |-> taskId[job[e]], remoteRef |-> remoteRef[job[e]],
           error |-> error[job[e]]] \in Snaps
      BY <3>1 DEF TypeOK, Snaps
    <3>3. snap' \in [Execs -> Snaps]  BY <1>26, <2>2, <3>2 DEF Complete, TypeOK
    <3>4. pc' = [pc EXCEPT ![e] = "final"] /\ UNCHANGED <<job, seen>>
      BY <1>26, <2>2 DEF Complete
    <3>5. QED  BY <1>26, <3>3, <3>4 DEF Complete, TypeOK, Busy
  <2>3. QED  BY <1>26, <2>1, <2>2 DEF Complete
<1>27. ASSUME NEW e \in Execs, SaveSucceeded(e)
      PROVE  TypeOK'
  <2>1. job[e] \in Jobs  BY <1>27, JobOf DEF SaveSucceeded
  <2>2. /\ snap[e].taskId \in Execs \cup {None} /\ snap[e].remoteRef \in Execs \cup {None}
        /\ snap[e].error \in {"", "error"}
    BY SnapType DEF TypeOK
  <2>3. snap' \in [Execs -> Snaps]  BY <1>27, SnapType DEF SaveSucceeded, TypeOK
  <2>4. QED  BY <1>27, <2>1, <2>2, <2>3 DEF SaveSucceeded, TypeOK, Terminal
<1>28. ASSUME NEW e \in Execs, FailRead(e)
      PROVE  TypeOK'
  <2>1. ExecOK  BY <1>28, <1>0 DEF FailRead, Busy, EndIfCanceled
  <2>2. QED  BY <1>28, <2>1 DEF FailRead, ExecOK, TypeOK
<1>29. ASSUME NEW e \in Execs, FailSave(e)
      PROVE  TypeOK'
  <2>1. ExecOK  BY <1>29, <1>0 DEF FailSave, Busy, EndIfCanceled
  <2>2. QED  BY <1>29, <2>1 DEF FailSave, ExecOK, TypeOK, Terminal
<1>30. ASSUME NEW e \in Execs, CallError(e)
      PROVE  TypeOK'
  <2>1. ExecOK  BY <1>30, <1>0 DEF CallError, Busy
  <2>2. faults' \in 0..scenario.faults  BY <1>30, FaultType DEF CallError
  <2>3. QED  BY <1>30, <2>1, <2>2 DEF CallError, ExecOK, TypeOK, RemoteStates
<1>31. ASSUME NEW e \in Execs, Crash(e)
      PROVE  TypeOK'
  <2>1. faults' \in 0..scenario.faults  BY <1>31, FaultType DEF Crash
  <2>2. snap' \in [Execs -> Snaps]  BY <1>31, SnapType DEF Crash, TypeOK
  <2>3. QED  BY <1>31, <2>1, <2>2 DEF Crash, TypeOK
<1>32. ASSUME NEW e \in Execs, RemoteEnd(e)
      PROVE  TypeOK'
  <2>1. remote' \in [Execs -> RemoteStates]  BY <1>32 DEF RemoteEnd, TypeOK, RemoteStates
  <2>2. object' \in [Jobs -> Execs \cup {None}]  BY <1>32 DEF RemoteEnd, TypeOK
  <2>3. QED  BY <1>32, <2>1, <2>2 DEF RemoteEnd, TypeOK
<1>33. CASE OtherStarts \/ OtherEnds
  <2>1. others \in 0..scenario.others /\ counted \in 0..others /\ scenario.others \in Nat
    BY ScenarioType DEF TypeOK
  <2>2. others' \in 0..scenario.others /\ counted' \in 0..others'
    BY <1>33, <2>1 DEF OtherStarts, OtherEnds
  <2>3. UNCHANGED <<rowVars, apiVars, cancelVars, execVars, envVars, scenario, reopened,
                    reruns, faults>>
    BY <1>33 DEF OtherStarts, OtherEnds
  <2>4. QED  BY <2>2, <2>3 DEF TypeOK
<1>34. CASE UNCHANGED vars
  BY <1>34 DEF vars, TypeOK
<1>35. QED
  BY <1>1, <1>2, <1>3, <1>4, <1>5, <1>6, <1>7, <1>8, <1>9, <1>10, <1>11, <1>12, <1>13,
     <1>14, <1>15, <1>16, <1>17, <1>18, <1>19, <1>20, <1>21, <1>22, <1>23, <1>24, <1>25,
     <1>26, <1>27, <1>28, <1>29, <1>30, <1>31, <1>32, <1>33, <1>34
     DEF Next, ApiStep, CancelStep, ExecStep

(***************************************************************************)
(* What a step does to the positions and the jobs of the executions        *)
(***************************************************************************)
\* An execution that is under way goes on, and disturbs nothing of the API, of
\* the cancels or of the other executions.
Moves(e) ==
    /\ pc[e] \notin {"unused", "done"}
    /\ \E label \in Busy \cup {"done"} : pc' = [pc EXCEPT ![e] = label]
    /\ UNCHANGED <<job, queue, apiVars, cancelVars, reruns>>

\* Every step of a worker is one of Moves.
LEMMA ExecMoves ==
    ASSUME NEW e \in Execs, ExecStep(e) \/ CallError(e) \/ Crash(e)
    PROVE  Moves(e) \/ \E r \in Execs : DispatchR(e, r)
<1> USE DEF Moves, Busy, Goto, EndIfCanceled, countVars, envVars, execVars
<1>1. CASE Discard(e) \/ DispatchRead(e)
  BY <1>1 DEF Discard, DispatchRead
<1>2. CASE DispatchSave(e)
  BY <1>2 DEF DispatchSave
<1>3. CASE DispatchRSaveId(e)
  BY <1>3 DEF DispatchRSaveId
<1>4. CASE RunRead(e) \/ Submit(e) \/ Persist(e) \/ Poll(e) 
  BY <1>4 DEF RunRead, Submit, Persist, Poll
<1>5. CASE Update(e) \/ Abandon(e) \/ Deadline(e) \/ Verify(e)
  BY <1>5 DEF Update, Abandon, Deadline, Verify
<1>6. CASE RunR(e) \/ ComputeR(e)
  BY <1>6 DEF RunR, ComputeR
<1>7. CASE Complete(e)
  BY <1>7 DEF Complete
<1>8. CASE SaveSucceeded(e) \/ FailRead(e) \/ FailSave(e)
  BY <1>8 DEF SaveSucceeded, FailRead, FailSave
<1>9. CASE CallError(e) \/ Crash(e)
  BY <1>9 DEF CallError, Crash
<1>10. QED  BY <1>1, <1>2, <1>3, <1>4, <1>5, <1>6, <1>7, <1>8, <1>9 DEF ExecStep

\* A row never becomes absent again.
LEMMA RowsStay ==
    ASSUME TypeOK, [Next]_vars, NEW j \in Jobs, status[j] # "absent"
    PROVE  status'[j] # "absent"
<1> USE DEF rowVars
<1>0. status \in [Jobs -> {"absent"} \cup Active \cup Terminal]  BY DEF TypeOK
<1>1. CASE \E i \in Jobs : \/ \E q \in {"runpod", "r"} : Invoke(i, q)
                           \/ ReRun(i) \/ CancelSave(i) \/ CancelTaskSave(i)
  BY <1>0, <1>1 DEF Invoke, ReRun, CancelSave, CancelTaskSave
<1>2. CASE \E e \in Execs : DispatchSave(e) \/ SaveSucceeded(e) \/ FailSave(e)
  BY <1>0, <1>2 DEF DispatchSave, SaveSucceeded, FailSave
<1>3. CASE status' = status
  BY <1>3
<1>4. QED
  BY <1>1, <1>2, <1>3
     DEF Next, OtherStarts, OtherEnds, vars,
         ApiStep, CancelStep, ExecStep, ApiDelay, ApiSaveId, ApiCrash,
         CancelRead, CancelTaskRead, CancelTaskRemote, Discard, DispatchRead, DispatchR,
         DispatchRSaveId, RunRead, Submit, Persist, Poll, Update, Abandon, Deadline,
         Verify, RunR, ComputeR, Complete, FailRead, CallError, Crash, RemoteEnd

\* A job that is named by a message or a worker has a row: rows are never deleted.
LEMMA MessagesStep ==
    ASSUME TypeOK, MessagesNameJobs, ApiOfAdmitted, [Next]_vars
    PROVE  MessagesNameJobs' /\ ApiOfAdmitted'
<1> USE DEF apiVars
<1>0. /\ \A j \in Jobs : status[j] # "absent" => status'[j] # "absent"
      /\ job \in [Execs -> Jobs \cup {None}] /\ DOMAIN pc = Execs /\ DOMAIN api = Jobs
      /\ None \notin Jobs
  BY RowsStay, ConstantsAssumption DEF TypeOK
<1>1. ASSUME NEW j \in Jobs, Invoke(j, "runpod") \/ Invoke(j, "r") \/ ReRun(j)
      PROVE  MessagesNameJobs' /\ ApiOfAdmitted'
  <2>1. status'[j] # "absent"  BY <1>1 DEF TypeOK, Invoke, ReRun
  <2>2. QED  BY <1>0, <1>1, <2>1 DEF Invoke, ReRun, MessagesNameJobs, ApiOfAdmitted, execVars
<1>2. ASSUME NEW j \in Jobs, NEW e \in Execs, ApiDelay(j, e)
      PROVE  MessagesNameJobs' /\ ApiOfAdmitted'
  BY <1>0, <1>2 DEF ApiDelay, Send, NextMessage, MessagesNameJobs, ApiOfAdmitted
<1>3. ASSUME NEW e \in Execs, NEW r \in Execs, DispatchR(e, r)
      PROVE  MessagesNameJobs' /\ ApiOfAdmitted'
  BY <1>0, <1>3 DEF DispatchR, NextMessage, MessagesNameJobs, ApiOfAdmitted
<1>4. ASSUME NEW e \in Execs, Moves(e)
      PROVE  MessagesNameJobs' /\ ApiOfAdmitted'
  BY <1>0, <1>4 DEF Moves, Busy, MessagesNameJobs, ApiOfAdmitted
<1>5. CASE /\ UNCHANGED execVars
           /\ \A j \in Jobs : api'[j] # "idle" => api[j] # "idle"
  BY <1>0, <1>5 DEF execVars, MessagesNameJobs, ApiOfAdmitted
<1>6. CASE \E j \in Jobs : \/ ApiSaveId(j) \/ ApiCrash(j)
                           \/ CancelRead(j) \/ CancelStep(j)
  BY <1>0, <1>5, <1>6
     DEF ApiSaveId, ApiCrash, CancelRead, CancelStep, CancelSave, CancelTaskRead,
         CancelTaskRemote, CancelTaskSave
<1>7. CASE \E e \in Execs : RemoteEnd(e)
  BY <1>5, <1>7 DEF RemoteEnd
<1>8. CASE UNCHANGED vars \/ OtherStarts \/ OtherEnds
  BY <1>5, <1>8 DEF vars, OtherStarts, OtherEnds
<1>9. QED
  BY <1>1, <1>2, <1>3, <1>4, <1>6, <1>7, <1>8, ExecMoves DEF Next, ApiStep

\* The id that save_remote_ref writes is that of the worker's own remote job.
LEMMA RemoteRememberedStep ==
    ASSUME TypeOK, MessagesNameJobs, RemoteRemembered, [Next]_vars
    PROVE  RemoteRemembered'
<1> USE DEF envVars, Before, OnR
<1>0. /\ pc \in [Execs -> {"unused", "sent", "rsent", "done"} \cup Busy]
      /\ job \in [Execs -> Jobs \cup {None}]
      /\ seen \in [Execs -> RemoteStates] /\ remote \in [Execs -> RemoteStates]
      /\ DOMAIN queue = Jobs
      /\ \A x \in Execs : RemoteOf(x)
  BY DEF TypeOK, RemoteRemembered, RemoteOf
<1>1. SUFFICES ASSUME NEW x \in Execs
               PROVE  RemoteOf(x)'
  BY DEF RemoteRemembered, RemoteOf
<1>2. RemoteOf(x)
  BY <1>0
<1> USE DEF RemoteOf
<1>3. ASSUME NEW j \in Jobs, NEW q \in {"runpod", "r"}, Invoke(j, q)
      PROVE  RemoteOf(x)'
  <2>1. pc[x] # "unused" => job[x] # j /\ job[x] \in Jobs
    BY <1>3, JobOf DEF Invoke, New, MessagesNameJobs
  <2>2. pc[x] = "unused" => remote[x] = "none"
    BY <1>2
  <2>3. QED  BY <1>0, <1>2, <1>3, <2>1, <2>2 DEF Invoke, execVars
<1>4. ASSUME NEW j \in Jobs, NEW e \in Execs, ApiDelay(j, e)
      PROVE  RemoteOf(x)'
  BY <1>0, <1>2, <1>4 DEF ApiDelay, Send, NextMessage
<1>5. ASSUME NEW e \in Execs, NEW r \in Execs, DispatchR(e, r)
      PROVE  RemoteOf(x)'
  BY <1>0, <1>2, <1>5 DEF DispatchR, NextMessage
<1>6. ASSUME NEW e \in Execs, ExecStep(e) \/ CallError(e), ~ \E r \in Execs : DispatchR(e, r)
      PROVE  RemoteOf(x)'
  <2> USE DEF Goto, EndIfCanceled
  <2>1. CASE Discard(e) \/ DispatchRead(e) \/ DispatchSave(e)
    BY <1>0, <1>2, <2>1 DEF Discard, DispatchRead, DispatchSave
  <2>2. CASE DispatchRSaveId(e) \/ Poll(e)
    BY <1>0, <1>2, <2>2 DEF DispatchRSaveId, Poll
  <2>3. CASE RunRead(e) \/ Persist(e) \/ Verify(e) \/ Abandon(e)
    BY <1>0, <1>2, <2>3 DEF RunRead, Persist, Verify, Abandon
  <2>4. CASE Submit(e)
    BY <1>0, <1>2, <2>4 DEF Submit
  <2>5. CASE Update(e)
    BY <1>0, <1>2, <2>5 DEF Update
  <2>6. CASE Deadline(e)
    BY <1>0, <1>2, <2>6 DEF Deadline, CancelRemote
  <2>7. CASE RunR(e) \/ ComputeR(e)
    BY <1>0, <1>2, <2>7 DEF RunR, ComputeR
  <2>8. CASE Complete(e) \/ SaveSucceeded(e) \/ FailRead(e) \/ FailSave(e)
    BY <1>0, <1>2, <2>8 DEF Complete, SaveSucceeded, FailRead, FailSave
  <2>9. CASE CallError(e)
    BY <1>0, <1>2, <2>9 DEF CallError
  <2>10. QED
    BY <1>6, <2>1, <2>2, <2>3, <2>4, <2>5, <2>6, <2>7, <2>8, <2>9 DEF ExecStep
<1>7. ASSUME NEW e \in Execs, Crash(e) \/ RemoteEnd(e)
      PROVE  RemoteOf(x)'
  BY <1>0, <1>2, <1>7 DEF Crash, RemoteEnd, execVars
<1>8. ASSUME NEW j \in Jobs, CancelTaskRemote(j)
      PROVE  RemoteOf(x)'
  BY <1>0, <1>2, <1>8 DEF CancelTaskRemote, CancelRemote, execVars
<1>9. CASE UNCHANGED <<execVars, queue, remote>>
  BY <1>2, <1>9 DEF execVars
<1>10. ASSUME NEW j \in Jobs,
              \/ ReRun(j) \/ ApiSaveId(j) \/ ApiCrash(j) \/ CancelRead(j)
              \/ CancelSave(j) \/ CancelTaskRead(j) \/ CancelTaskSave(j)
       PROVE  UNCHANGED <<execVars, queue, remote>>
  BY <1>10 DEF ReRun, ApiSaveId, ApiCrash, CancelRead, CancelSave, CancelTaskRead,
        CancelTaskSave
<1>11. CASE UNCHANGED vars \/ OtherStarts \/ OtherEnds
  BY <1>9, <1>11 DEF vars, OtherStarts, OtherEnds
<1>12. QED
  BY <1>3, <1>4, <1>5, <1>6, <1>7, <1>8, <1>9, <1>10, <1>11
     DEF Next, ApiStep, CancelStep

\* What no step takes back: the job of a message, the end of an execution or of
\* a remote job, the queue of an admitted job.
LEMMA NeverTakenBack ==
    ASSUME TypeOK, RemoteRemembered, [Next]_vars
    PROVE  /\ \A e \in Execs : pc[e] # "unused" => job'[e] = job[e]
           /\ \A e \in Execs : pc[e] = "done" => pc'[e] = "done"
           /\ \A e \in Execs : remote[e] = "completed" => remote'[e] = "completed"
           /\ \A j \in Jobs : status[j] # "absent" => queue'[j] = queue[j]
<1> USE DEF execVars, envVars
<1>0. DOMAIN pc = Execs /\ DOMAIN job = Execs /\ DOMAIN remote = Execs /\ DOMAIN queue = Jobs
      /\ \A e \in Execs : remote[e] = "completed" => pc[e] # "submit"
  BY DEF TypeOK, RemoteRemembered, RemoteOf, Before
<1>1. ASSUME NEW j \in Jobs, NEW q \in {"runpod", "r"}, Invoke(j, q)
      PROVE  /\ UNCHANGED <<execVars, remote>>
             /\ \A i \in Jobs : status[i] # "absent" => queue'[i] = queue[i]
  BY <1>0, <1>1 DEF Invoke, New
<1>2. ASSUME NEW j \in Jobs, NEW e \in Execs, ApiDelay(j, e)
      PROVE  /\ \A x \in Execs : pc[x] # "unused" => job'[x] = job[x] /\ pc'[x] = pc[x]
             /\ UNCHANGED <<remote, queue>>
  BY <1>0, <1>2 DEF ApiDelay, Send, NextMessage
<1>3. ASSUME NEW e \in Execs, NEW r \in Execs, DispatchR(e, r)
      PROVE  /\ \A x \in Execs : pc[x] # "unused" => job'[x] = job[x]
             /\ \A x \in Execs : pc[x] = "done" => pc'[x] = pc[x]
             /\ UNCHANGED <<remote, queue>>
  BY <1>0, <1>3 DEF DispatchR, NextMessage
<1>4. ASSUME NEW e \in Execs, Moves(e)
      PROVE  /\ UNCHANGED <<job, queue>>
             /\ \A x \in Execs : pc[x] = "done" => pc'[x] = pc[x]
  BY <1>0, <1>4 DEF Moves
<1>5. ASSUME NEW e \in Execs, ExecStep(e) \/ CallError(e) \/ Crash(e) \/ RemoteEnd(e)
      PROVE  \A x \in Execs : remote[x] = "completed" => remote'[x] = "completed"
  BY <1>0, <1>5
     DEF ExecStep, CallError, Crash, RemoteEnd, Discard, DispatchRead, DispatchSave, DispatchR,
         DispatchRSaveId, RunRead, Submit, Persist, Poll, Update, Abandon, Deadline, CancelRemote,
         Verify, RunR, ComputeR, Complete, SaveSucceeded, FailRead, FailSave
<1>6. ASSUME NEW e \in Execs, RemoteEnd(e)
      PROVE  UNCHANGED <<execVars, queue>>
  BY <1>6 DEF RemoteEnd
<1>7. ASSUME NEW j \in Jobs, CancelTaskRemote(j)
      PROVE  /\ UNCHANGED <<execVars, queue>>
             /\ \A x \in Execs : remote[x] = "completed" => remote'[x] = "completed"
  BY <1>0, <1>7 DEF CancelTaskRemote, CancelRemote
<1>8. ASSUME NEW j \in Jobs,
             \/ ReRun(j) \/ ApiSaveId(j) \/ ApiCrash(j) \/ CancelRead(j)
             \/ CancelSave(j) \/ CancelTaskRead(j) \/ CancelTaskSave(j)
      PROVE  UNCHANGED <<execVars, envVars>>
  BY <1>8 DEF ReRun, ApiSaveId, ApiCrash, CancelRead, CancelSave, CancelTaskRead,
        CancelTaskSave
<1>9. CASE UNCHANGED vars \/ OtherStarts \/ OtherEnds
  BY <1>9 DEF vars, OtherStarts, OtherEnds
<1>10. QED
  BY <1>1, <1>2, <1>3, <1>4, <1>5, <1>6, <1>7, <1>8, <1>9, ExecMoves
     DEF Next, ApiStep, CancelStep

\* An output is written by the end of a run.
LEMMA OutputSteps ==
    ASSUME [Next]_vars, output' # output
    PROVE  \E e \in Execs : SaveSucceeded(e)
BY DEF Next, OtherStarts, OtherEnds, vars,
         rowVars, ApiStep, CancelStep, ExecStep, Invoke, ReRun, ApiDelay, ApiSaveId,
       ApiCrash, CancelRead, CancelSave, CancelTaskRead, CancelTaskRemote, CancelTaskSave,
       Discard, DispatchRead, DispatchSave, DispatchR, DispatchRSaveId, RunRead, Submit,
       Persist, Poll, Update, Abandon, Deadline, Verify, RunR, ComputeR, Complete, FailRead,
       FailSave, CallError, Crash, RemoteEnd

\* A worker that goes on to complete the row has verified the remote job's output.
LEMMA OutputWrittenStep ==
    ASSUME TypeOK, MessagesNameJobs, RemoteRemembered, OutputWritten, [Next]_vars
    PROVE  OutputWritten'
<1>0. /\ pc \in [Execs -> {"unused", "sent", "rsent", "done"} \cup Busy]
      /\ job \in [Execs -> Jobs \cup {None}]
      /\ output \in [Jobs -> Execs \cup {None}]
      /\ None \notin Jobs /\ None \notin Execs
  BY ConstantsAssumption DEF TypeOK
<1>1. SUFFICES ASSUME NEW i \in Jobs, output'[i] # None
               PROVE  /\ job'[output'[i]] = i /\ pc'[output'[i]] = "done"
                      /\ queue'[i] = "r" \/ remote'[output'[i]] = "completed"
  BY DEF OutputWritten
<1> DEFINE o == output[i]
<1>2. CASE output'[i] = o
  <2>1. /\ o \in Execs /\ job[o] = i /\ pc[o] = "done"
        /\ queue[i] = "r" \/ remote[o] = "completed"
    BY <1>0, <1>1, <1>2 DEF OutputWritten
  <2>2. status[i] # "absent"
    BY <1>0, <2>1 DEF MessagesNameJobs
  <2>3. QED
    BY <1>2, <2>1, <2>2, NeverTakenBack
<1>3. ASSUME NEW e \in Execs, SaveSucceeded(e), output'[i] # o
      PROVE  /\ job'[output'[i]] = i /\ pc'[output'[i]] = "done"
             /\ queue'[i] = "r" \/ remote'[output'[i]] = "completed"
  BY <1>0, <1>1, <1>3 DEF SaveSucceeded, RemoteRemembered, RemoteOf, envVars
<1>4. QED
  BY <1>2, <1>3, OutputSteps

(***************************************************************************)
(* Each run of a job is paid for by its admission or by a re-run           *)
(***************************************************************************)
Running(e) == pc[e] \notin {"unused", "rsaveid", "done"}

\* No execution but a new message begins to run, and only a run submits or writes.
LEMMA RunsBegin ==
    ASSUME NEW e \in Execs, ExecStep(e) \/ CallError(e) \/ Crash(e) \/ RemoteEnd(e),
           ~ \E r \in Execs : DispatchR(e, r), TypeOK
    PROVE  /\ \A x \in Execs : Running(x)' => Running(x)
           /\ \A x \in Execs : remote'[x] # "none" => remote[x] # "none" \/ Running(x)
           /\ \A j \in Jobs, x \in Execs : output'[j] = x => output[j] = x \/ Running(x)
           /\ UNCHANGED <<job, api, reruns>>
<1> USE DEF Running, Goto, EndIfCanceled, execVars, envVars, rowVars, apiVars, countVars
<1>0. DOMAIN pc = Execs /\ DOMAIN remote = Execs /\ DOMAIN output = Jobs
  BY DEF TypeOK
<1>1. CASE Discard(e) \/ DispatchRead(e) \/ DispatchSave(e) \/ DispatchRSaveId(e)
  BY <1>0, <1>1 DEF Discard, DispatchRead, DispatchSave, DispatchRSaveId
<1>2. CASE RunRead(e) \/ Submit(e) \/ Persist(e) \/ Poll(e) \/ Update(e) \/ Abandon(e)
  BY <1>0, <1>2 DEF RunRead, Submit, Persist, Poll, Update, Abandon
<1>3. CASE Deadline(e) \/ Verify(e) \/ RunR(e) \/ ComputeR(e)
  BY <1>0, <1>3 DEF Deadline, CancelRemote, Verify, RunR, ComputeR
<1>4. CASE Complete(e) \/ SaveSucceeded(e) \/ FailRead(e) \/ FailSave(e)
  BY <1>0, <1>4 DEF Complete, SaveSucceeded, FailRead, FailSave
<1>5. CASE CallError(e) \/ Crash(e) \/ RemoteEnd(e)
  BY <1>0, <1>5 DEF CallError, Crash, Busy, RemoteEnd
<1>6. QED
  BY <1>1, <1>2, <1>3, <1>4, <1>5 DEF ExecStep

\* Workers are paid for by an admission or by a re-run: none comes from nowhere.
LEMMA RunsPaidStep ==
    ASSUME TypeOK, MessagesNameJobs, RemoteRemembered, OutputWritten, RunsPaid, [Next]_vars
    PROVE  RunsPaid'
<1>0. /\ \A j \in Jobs : reruns[j] \in Nat
      /\ None \notin Jobs /\ None \notin Execs
      /\ DOMAIN pc = Execs /\ DOMAIN job = Execs /\ DOMAIN api = Jobs /\ DOMAIN reruns = Jobs
  <2>1. reruns \in [Jobs -> 0..scenario.reruns] /\ scenario.reruns \in Nat
    BY ScenarioType DEF TypeOK
  <2>2. \A j \in Jobs : reruns[j] \in Nat
    BY <2>1
  <2>3. QED  BY <2>2, ConstantsAssumption DEF TypeOK
<1>1. SUFFICES ASSUME NEW j \in Jobs
               PROVE  /\ IsFiniteSet(Runs(j)')
                      /\ Cardinality(Runs(j)') + (IF api'[j] = "delay" THEN 1 ELSE 0)
                            <= 1 + reruns'[j]
  BY DEF RunsPaid
<1> DEFINE S == Runs(j)
           T == Runs(j)'
<1>2. /\ IsFiniteSet(S) /\ Cardinality(S) \in Nat
      /\ Cardinality(S) + (IF api[j] = "delay" THEN 1 ELSE 0) <= 1 + reruns[j]
  BY FS_CardinalityType DEF RunsPaid
<1>3. ASSUME T \subseteq S
      PROVE  IsFiniteSet(T) /\ Cardinality(T) \in Nat /\ Cardinality(T) <= Cardinality(S)
  <2> HIDE DEF S, T
  <2>1. IsFiniteSet(T) /\ Cardinality(T) <= Cardinality(S)  BY <1>2, <1>3, FS_Subset
  <2>2. QED  BY <2>1, FS_CardinalityType
<1>4. ASSUME T \subseteq S, reruns'[j] = reruns[j], api'[j] = "delay" => api[j] = "delay"
      PROVE  /\ IsFiniteSet(T)
             /\ Cardinality(T) + (IF api'[j] = "delay" THEN 1 ELSE 0) <= 1 + reruns'[j]
  <2> HIDE DEF S, T
  <2>1. QED  BY <1>0, <1>2, <1>3, <1>4
<1>5. ASSUME NEW e \in Execs, ExecStep(e) \/ CallError(e) \/ Crash(e) \/ RemoteEnd(e),
             ~ \E r \in Execs : DispatchR(e, r)
      PROVE  T \subseteq S /\ reruns'[j] = reruns[j] /\ api'[j] = api[j]
  BY <1>5, RunsBegin DEF Runs, Running
<1>6. ASSUME NEW i \in Jobs, NEW q \in {"runpod", "r"}, Invoke(i, q)
      PROVE  /\ IsFiniteSet(T)
             /\ Cardinality(T) + (IF api'[j] = "delay" THEN 1 ELSE 0) <= 1 + reruns'[j]
  <2>1. T = S /\ reruns' = reruns /\ (i # j => api'[j] = api[j])
    BY <1>0, <1>6 DEF Invoke, Runs, envVars, execVars, countVars
  <2>2. CASE i # j
    <3> HIDE DEF S, T
    <3>1. QED  BY <1>4, <2>1, <2>2
  <2>3. CASE i = j
    <3>1. S = {}
      BY <1>0, <1>6, <2>3 DEF Runs, MessagesNameJobs, Invoke, New
    <3> HIDE DEF S, T
    <3>2. Cardinality(T) = 0 /\ IsFiniteSet(T)  BY <2>1, <3>1, FS_EmptySet
    <3>3. QED  BY <1>0, <2>1, <3>2
  <2>4. QED  BY <2>2, <2>3
<1>7. ASSUME NEW i \in Jobs, ReRun(i)
      PROVE  /\ IsFiniteSet(T)
             /\ Cardinality(T) + (IF api'[j] = "delay" THEN 1 ELSE 0) <= 1 + reruns'[j]
  <2>1. T = S
    BY <1>7 DEF ReRun, Runs, envVars, execVars
  <2>2. \/ i # j /\ reruns'[j] = reruns[j] /\ api'[j] = api[j]
        \/ i = j /\ reruns'[j] = reruns[j] + 1 /\ api[j] = "idle"
    BY <1>0, <1>7 DEF ReRun
  <2> HIDE DEF S, T
  <2>3. QED  BY <1>0, <1>2, <2>1, <2>2
<1>8. ASSUME NEW i \in Jobs, NEW e \in Execs, ApiDelay(i, e)
      PROVE  /\ IsFiniteSet(T)
             /\ Cardinality(T) + (IF api'[j] = "delay" THEN 1 ELSE 0) <= 1 + reruns'[j]
  <2>1. CASE i # j
    <3>1. T \subseteq S /\ reruns'[j] = reruns[j] /\ api'[j] = api[j]
      BY <1>0, <1>8, <2>1 DEF ApiDelay, Send, NextMessage, Runs, envVars, rowVars, countVars
    <3>2. QED  BY <1>4, <3>1
  <2>2. CASE i = j
    <3>1. T \subseteq S \cup {e} /\ reruns'[j] = reruns[j] /\ api[j] = "delay" /\ api'[j] = "saveid"
      BY <1>0, <1>8, <2>2 DEF ApiDelay, Send, NextMessage, Runs, envVars, rowVars, countVars
    <3> HIDE DEF S, T
    <3>2. /\ IsFiniteSet(S \cup {e})
          /\ \/ Cardinality(S \cup {e}) = Cardinality(S)
             \/ Cardinality(S \cup {e}) = Cardinality(S) + 1
      BY <1>2, FS_AddElement
    <3>3. IsFiniteSet(T) /\ Cardinality(T) <= Cardinality(S \cup {e})
      BY <3>1, <3>2, FS_Subset
    <3>4. Cardinality(T) \in Nat
      BY <3>3, FS_CardinalityType
    <3>5. QED  BY <1>0, <1>2, <3>1, <3>2, <3>3, <3>4
  <2>3. QED  BY <2>1, <2>2
<1>9. ASSUME NEW e \in Execs, NEW r \in Execs, DispatchR(e, r)
      PROVE  /\ IsFiniteSet(T)
             /\ Cardinality(T) + (IF api'[j] = "delay" THEN 1 ELSE 0) <= 1 + reruns'[j]
  <2>0. reruns'[j] = reruns[j] /\ api'[j] = api[j]
    BY <1>9 DEF DispatchR, apiVars, countVars
  <2>1. CASE job[e] # j
    <3>1. T \subseteq S
      BY <1>0, <1>9, <2>1 DEF DispatchR, NextMessage, Runs, envVars, rowVars
    <3>2. QED  BY <1>4, <2>0, <3>1
  <2>2. CASE job[e] = j
    <3>1. e \in S
      BY <1>9, <2>2 DEF DispatchR, Runs
    <3>2. remote[e] = "none" /\ output[j] # e
      BY <1>0, <1>9 DEF DispatchR, RemoteRemembered, RemoteOf, Before, OutputWritten
    <3>3. T \subseteq (S \ {e}) \cup {r}
      BY <1>0, <1>9, <2>2, <3>2 DEF DispatchR, NextMessage, Runs, envVars, rowVars
    <3> HIDE DEF S, T
    <3>4. IsFiniteSet(S \ {e}) /\ Cardinality(S \ {e}) = Cardinality(S) - 1
      BY <1>2, <3>1, FS_RemoveElement
    <3>5. /\ IsFiniteSet((S \ {e}) \cup {r})
          /\ \/ Cardinality((S \ {e}) \cup {r}) = Cardinality(S \ {e})
             \/ Cardinality((S \ {e}) \cup {r}) = Cardinality(S \ {e}) + 1
      BY <3>4, FS_AddElement
    <3>6. IsFiniteSet(T) /\ Cardinality(T) <= Cardinality((S \ {e}) \cup {r})
      BY <3>3, <3>5, FS_Subset
    <3>7. Cardinality(T) \in Nat
      BY <3>6, FS_CardinalityType
    <3>8. QED  BY <1>0, <1>2, <2>0, <3>4, <3>5, <3>6, <3>7
  <2>3. QED  BY <2>1, <2>2
<1>10. ASSUME NEW i \in Jobs,
              \/ ApiSaveId(i) \/ ApiCrash(i) \/ CancelRead(i) \/ CancelStep(i)
       PROVE  T \subseteq S /\ reruns'[j] = reruns[j] /\ (api'[j] = "delay" => api[j] = "delay")
  <2>1. /\ UNCHANGED <<pc, job, output, reruns>>
        /\ api'[j] = "delay" => api[j] = "delay"
        /\ \A x \in Execs : remote'[x] # "none" => remote[x] # "none"
    <3> USE DEF rowVars, execVars, envVars, countVars, apiVars
    <3>1. CASE ApiSaveId(i) \/ ApiCrash(i) \/ CancelRead(i)
      BY <1>0, <3>1 DEF ApiSaveId, ApiCrash, CancelRead
    <3>2. CASE CancelSave(i) \/ CancelTaskRead(i) \/ CancelTaskSave(i)
      BY <3>2 DEF CancelSave, CancelTaskRead, CancelTaskSave
    <3>3. CASE CancelTaskRemote(i)
      BY <3>3 DEF CancelTaskRemote, CancelRemote, TypeOK
    <3>4. QED  BY <1>10, <3>1, <3>2, <3>3 DEF CancelStep
  <2>2. QED  BY <2>1 DEF Runs
<1>11. CASE UNCHANGED vars \/ OtherStarts \/ OtherEnds
  BY <1>4, <1>11
     DEF vars, OtherStarts, OtherEnds, Runs, rowVars, execVars, envVars, countVars, apiVars
<1>12. QED
  <2>1. CASE \E i \in Jobs : \/ ApiSaveId(i) \/ ApiCrash(i) \/ CancelRead(i) \/ CancelStep(i)
    BY <1>4, <1>10, <2>1
  <2>2. CASE \E e \in Execs : \/ ExecStep(e) \/ CallError(e) \/ Crash(e) \/ RemoteEnd(e)
    BY <1>4, <1>5, <1>9, <2>2
  <2>3. QED
    BY <1>6, <1>7, <1>8, <1>11, <2>1, <2>2 DEF Next, ApiStep

(***************************************************************************)
(* The output that is published is the one that was verified               *)
(***************************************************************************)
\* A job that was never run again has at most one run.
LEMMA OneRun ==
    ASSUME TypeOK, RunsPaid, NEW j \in Jobs, reruns[j] = 0,
           NEW a \in Runs(j), NEW b \in Runs(j)
    PROVE  a = b
<1>1. /\ IsFiniteSet(Runs(j)) /\ Cardinality(Runs(j)) \in Nat
      /\ Cardinality(Runs(j)) + (IF api[j] = "delay" THEN 1 ELSE 0) <= 1
  BY FS_CardinalityType DEF RunsPaid
<1>2. Cardinality(Runs(j)) <= 1
  BY <1>1
<1>3. Cardinality(Runs(j)) = 1
  BY <1>1, <1>2, FS_EmptySet
<1>4. \E x : Runs(j) = {x}
  BY <1>1, <1>3, FS_Singleton
<1>5. QED  BY <1>4

\* The object of a job is written by a run of that job.
LEMMA ObjectSteps ==
    ASSUME TypeOK, [Next]_vars, NEW j \in Jobs, object'[j] # object[j]
    PROVE  \E e \in Execs : /\ job[e] = j /\ object'[j] = e /\ UNCHANGED <<output, status, reruns>>
                             /\ \/ pc[e] = "rrun" /\ pc' = [pc EXCEPT ![e] = "complete"]
                                \/ remote[e] = "active" /\ pc' = pc
<1> USE DEF envVars, rowVars, countVars, execVars
<1>0. DOMAIN object = Jobs
  BY DEF TypeOK
<1>1. ASSUME NEW e \in Execs, ComputeR(e) \/ RemoteEnd(e)
      PROVE  /\ job[e] = j /\ object'[j] = e /\ UNCHANGED <<output, status, reruns>>
             /\ \/ pc[e] = "rrun" /\ pc' = [pc EXCEPT ![e] = "complete"]
                \/ remote[e] = "active" /\ pc' = pc
  BY <1>0, <1>1 DEF ComputeR, RemoteEnd, Goto
<1>2. CASE ~ \E e \in Execs : ComputeR(e) \/ RemoteEnd(e)
  BY <1>2
     DEF Next, OtherStarts, OtherEnds, vars,
         ApiStep, CancelStep, ExecStep, Invoke, ReRun, ApiDelay, ApiSaveId,
         ApiCrash, CancelRead, CancelSave, CancelTaskRead, CancelTaskRemote, CancelTaskSave,
         Discard, DispatchRead, DispatchSave, DispatchR, DispatchRSaveId, RunRead, Submit,
         Persist, Poll, Update, Abandon, Deadline, Verify, RunR, Complete, SaveSucceeded,
         FailRead, FailSave, CallError, Crash
<1>3. QED
  BY <1>1, <1>2

\* An admin's counter of re-runs only grows.
LEMMA ReRunsGrow ==
    ASSUME TypeOK, [Next]_vars, NEW j \in Jobs, reruns'[j] = 0
    PROVE  reruns[j] = 0
<1>1. reruns \in [Jobs -> 0..scenario.reruns] /\ scenario.reruns \in Nat
  BY ScenarioType DEF TypeOK
<1>2. \A i \in Jobs : reruns[i] \in Nat /\ DOMAIN reruns = Jobs
  BY <1>1
<1>3. ASSUME NEW i \in Jobs, ReRun(i)
      PROVE  reruns[j] = 0
  <2>1. reruns[j] \in Nat
    BY <1>2
  <2>2. reruns'[j] = IF i = j THEN reruns[j] + 1 ELSE reruns[j]
    BY <1>2, <1>3 DEF ReRun
  <2>3. QED  BY <2>1, <2>2
<1>4. CASE ~ \E i \in Jobs : ReRun(i)
  <2>1. reruns' = reruns
    BY <1>4
       DEF Next, OtherStarts, OtherEnds, vars,
         ApiStep, CancelStep, ExecStep, Invoke, ApiDelay, ApiSaveId,
           ApiCrash, CancelRead, CancelSave, CancelTaskRead, CancelTaskRemote, CancelTaskSave,
           Discard, DispatchRead, DispatchSave, DispatchR, DispatchRSaveId, RunRead, Submit,
           Persist, Poll, Update, Abandon, Deadline, Verify, RunR, ComputeR, Complete,
           SaveSucceeded, FailRead, FailSave, CallError, Crash, RemoteEnd, countVars
  <2>2. QED  BY <2>1
<1>5. QED  BY <1>3, <1>4

\* Only a verification or a computation leads to the publication.
LEMMA PublishersVerified ==
    ASSUME TypeOK, [Next]_vars, NEW e \in Execs, pc'[e] \in {"complete", "final"}
    PROVE  pc[e] \in {"complete", "final"} \/ Verify(e) \/ ComputeR(e)
<1> USE DEF Goto, EndIfCanceled, execVars
<1>0. DOMAIN pc = Execs
  BY DEF TypeOK
<1>1. ASSUME NEW x \in Execs, ExecStep(x) \/ CallError(x) \/ Crash(x) \/ RemoteEnd(x)
      PROVE  pc[e] \in {"complete", "final"} \/ Verify(e) \/ ComputeR(e)
  <2>1. CASE Discard(x) \/ DispatchRead(x) \/ DispatchSave(x) \/ DispatchRSaveId(x) \/ RunRead(x)
    BY <1>0, <2>1 DEF Discard, DispatchRead, DispatchSave, DispatchRSaveId, RunRead
  <2>2. CASE Submit(x) \/ Persist(x) \/ Poll(x) \/ Update(x) \/ Abandon(x) \/ Deadline(x)
    BY <1>0, <2>2 DEF Submit, Persist, Poll, Update, Abandon, Deadline
  <2>3. CASE Verify(x) \/ RunR(x) \/ ComputeR(x) \/ \E r \in Execs : DispatchR(x, r)
    BY <1>0, <2>3 DEF Verify, RunR, ComputeR, DispatchR
  <2>4. CASE Complete(x) \/ SaveSucceeded(x) \/ FailRead(x) \/ FailSave(x)
    BY <1>0, <2>4 DEF Complete, SaveSucceeded, FailRead, FailSave
  <2>5. CASE CallError(x) \/ Crash(x) \/ RemoteEnd(x)
    BY <1>0, <2>5 DEF CallError, Crash, RemoteEnd
  <2>6. QED
    BY <1>1, <2>1, <2>2, <2>3, <2>4, <2>5 DEF ExecStep
<1>2. ASSUME NEW j \in Jobs, NEW x \in Execs, ApiDelay(j, x)
      PROVE  pc[e] \in {"complete", "final"}
  BY <1>0, <1>2 DEF ApiDelay, Send
<1>3. CASE UNCHANGED pc
  BY <1>3
<1>4. QED
  BY <1>1, <1>2, <1>3
     DEF Next, OtherStarts, OtherEnds, vars,
         ApiStep, CancelStep, Invoke, ReRun, ApiSaveId, ApiCrash,
         CancelRead, CancelSave, CancelTaskRead, CancelTaskRemote, CancelTaskSave

\* Without a re-run, nobody overwrites the object between verification and save.
LEMMA OutputUntouchedStep ==
    ASSUME TypeOK, MessagesNameJobs, RemoteRemembered, RunsPaid, OutputUntouched, [Next]_vars
    PROVE  OutputUntouched'
<1>1. SUFFICES ASSUME NEW e \in Execs, pc'[e] \in {"complete", "final"}, reruns'[job'[e]] = 0
               PROVE  object'[job'[e]] = e
  BY DEF OutputUntouched
<1> DEFINE j == job[e]
<1>2. pc[e] # "unused" /\ j \in Jobs /\ job'[e] = j
  <2>1. pc[e] # "unused"
    BY <1>1, PublishersVerified DEF Verify, ComputeR
  <2>2. QED  BY <2>1, JobOf, NeverTakenBack
<1>3. reruns[j] = 0
  BY <1>1, <1>2, ReRunsGrow
<1>4. CASE Verify(e)
  <2>1. pc'[e] = "complete" /\ object' = object
    BY <1>1, <1>4 DEF Verify, Goto, envVars, TypeOK
  <2>2. object[j] = e
    BY <1>4, <2>1 DEF Verify, Goto, TypeOK
  <2>3. QED  BY <1>2, <2>1, <2>2
<1>5. CASE ComputeR(e)
  <2>1. DOMAIN pc = Execs /\ DOMAIN object = Jobs
    BY DEF TypeOK
  <2>2. QED  BY <1>1, <1>2, <1>5, <2>1 DEF ComputeR, Goto
<1>6. CASE pc[e] \in {"complete", "final"}
  <2>1. object[j] = e
    BY <1>3, <1>6 DEF OutputUntouched
  <2>2. CASE object'[j] = object[j]
    BY <1>2, <2>1, <2>2
  <2>3. ASSUME NEW x \in Execs, job[x] = j, object'[j] = x,
               pc[x] = "rrun" \/ remote[x] = "active"
        PROVE  x = e
    <3>1. x \in Runs(j) /\ e \in Runs(j)
      BY <1>6, <2>3 DEF Runs
    <3>2. QED  BY <1>2, <1>3, <3>1, OneRun
  <2>4. QED  BY <1>2, <2>2, <2>3, ObjectSteps
<1>7. QED  BY <1>1, <1>4, <1>5, <1>6, PublishersVerified

\* The save that completes the row keeps it true to the object store.
LEMMA SucceededStep ==
    ASSUME TypeOK, MessagesNameJobs, RemoteRemembered, OutputWritten, RunsPaid,
           OutputUntouched, SucceededHasOutput, OutputWritten', [Next]_vars
    PROVE  SucceededHasOutput'
<1>0. /\ job \in [Execs -> Jobs \cup {None}] /\ output \in [Jobs -> Execs \cup {None}]
      /\ status \in [Jobs -> {"absent"} \cup Active \cup Terminal]
      /\ None \notin Execs
  BY ConstantsAssumption DEF TypeOK
<1>1. SUFFICES ASSUME NEW j \in Jobs, status'[j] = "succeeded"
               PROVE  output'[j] # None /\ (reruns'[j] = 0 => object'[j] = output'[j])
  BY DEF SucceededHasOutput, OutputWritten
<1>2. ASSUME NEW e \in Execs, SaveSucceeded(e), job[e] = j
      PROVE  output'[j] # None /\ (reruns'[j] = 0 => object'[j] = output'[j])
  <2>1. output'[j] = e /\ object' = object /\ reruns' = reruns
    BY <1>0, <1>2 DEF SaveSucceeded, envVars, countVars
  <2>2. reruns[j] = 0 => object[j] = e
    BY <1>2 DEF SaveSucceeded, OutputUntouched
  <2>3. QED  BY <1>0, <2>1, <2>2
<1>3. CASE status[j] = "succeeded" /\ output'[j] = output[j]
  <2>1. /\ output[j] \in Execs /\ job[output[j]] = j
        /\ queue[j] = "r" \/ remote[output[j]] = "completed"
        /\ reruns[j] = 0 => object[j] = output[j]
    BY <1>0, <1>3 DEF SucceededHasOutput, OutputWritten
  <2>2. CASE object'[j] = object[j]
    BY <1>0, <1>3, <2>1, <2>2, ReRunsGrow
  <2>3. CASE reruns'[j] # 0
    BY <1>0, <1>3, <2>1, <2>3
  <2>4. ASSUME NEW x \in Execs, job[x] = j, object'[j] = x, reruns'[j] = 0,
               pc[x] = "rrun" \/ remote[x] = "active"
        PROVE  x = output[j]
    <3>1. x \in Runs(j) /\ output[j] \in Runs(j)
      BY <2>1, <2>4 DEF Runs
    <3>2. reruns[j] = 0
      BY <2>4, ReRunsGrow
    <3>3. QED  BY <3>1, <3>2, OneRun
  <2>5. QED  BY <1>0, <1>3, <2>1, <2>2, <2>3, <2>4, ObjectSteps
<1>4. CASE ~ \E e \in Execs : SaveSucceeded(e) /\ job[e] = j
  <2>1. status[j] = "succeeded"
    <3>1. ASSUME NEW i \in Jobs, \/ Invoke(i, "r") \/ Invoke(i, "runpod") \/ ReRun(i)
                                 \/ CancelSave(i) \/ CancelTaskSave(i)
          PROVE  status[j] = "succeeded"
      BY <1>0, <1>1, <3>1 DEF Invoke, ReRun, CancelSave, CancelTaskSave
    <3>2. ASSUME NEW e \in Execs, DispatchSave(e) \/ FailSave(e)
          PROVE  status[j] = "succeeded"
      BY <1>0, <1>1, <3>2 DEF DispatchSave, FailSave
    <3>3. ASSUME NEW e \in Execs, SaveSucceeded(e)
          PROVE  status[j] = "succeeded"
      BY <1>0, <1>1, <1>4, <3>3 DEF SaveSucceeded
    <3>4. CASE status' = status
      BY <1>1, <3>4
    <3>5. QED
      BY <3>1, <3>2, <3>3, <3>4
     DEF Next, OtherStarts, OtherEnds, vars,
         rowVars, ApiStep, CancelStep, ExecStep, ApiDelay, ApiSaveId, ApiCrash,
         CancelRead, CancelTaskRead, CancelTaskRemote, Discard, DispatchRead, DispatchR,
         DispatchRSaveId, RunRead, Submit, Persist, Poll, Update, Abandon, Deadline,
         Verify, RunR, ComputeR, Complete, FailRead, CallError, Crash, RemoteEnd
  <2>2. output'[j] = output[j]
    <3>1. ASSUME NEW e \in Execs, SaveSucceeded(e)
          PROVE  output'[j] = output[j]
      BY <1>0, <1>4, <3>1 DEF SaveSucceeded
    <3>2. QED  BY <3>1, OutputSteps
  <2>3. QED  BY <1>3, <2>1, <2>2
<1>5. QED  BY <1>2, <1>4

(***************************************************************************)
(* Cancels, orphans and the quota                                          *)
(***************************************************************************)
\* Nobody forgets that a user asked for a cancel, nor that a fault happened.
LEMMA HistoryStays ==
    ASSUME TypeOK, [Next]_vars
    PROVE  /\ \A j \in Jobs : cancelApi[j] # "idle" => cancelApi'[j] # "idle"
           /\ faults > 0 => faults' > 0
<1>0. DOMAIN cancelApi = Jobs /\ faults \in 0..scenario.faults /\ scenario.faults \in Nat
  BY ScenarioType DEF TypeOK
<1>1. faults \in Nat
  BY <1>0
<1>2. faults' = faults \/ faults' = faults + 1
  BY DEF Next, OtherStarts, OtherEnds, vars,
         ApiStep, CancelStep, ExecStep, Invoke, ReRun, ApiDelay, ApiSaveId,
         ApiCrash, CancelRead, CancelSave, CancelTaskRead, CancelTaskRemote, CancelTaskSave,
         Discard, DispatchRead, DispatchSave, DispatchR, DispatchRSaveId, RunRead, Submit,
         Persist, Poll, Update, Abandon, Deadline, Verify, RunR, ComputeR, Complete,
         SaveSucceeded, FailRead, FailSave, CallError, Crash, RemoteEnd, countVars, Fault
<1>3. CASE \E j \in Jobs : CancelRead(j) \/ CancelSave(j)
  BY <1>0, <1>3 DEF CancelRead, CancelSave, countVars
<1>4. CASE ~ \E j \in Jobs : CancelRead(j) \/ CancelSave(j)
  <2>1. cancelApi' = cancelApi
    BY <1>4
       DEF Next, OtherStarts, OtherEnds, vars,
         ApiStep, CancelStep, ExecStep, Invoke, ReRun, ApiDelay, ApiSaveId,
         ApiCrash, CancelTaskRead, CancelTaskRemote, CancelTaskSave,
         Discard, DispatchRead, DispatchSave, DispatchR, DispatchRSaveId, RunRead, Submit,
         Persist, Poll, Update, Abandon, Deadline, Verify, RunR, ComputeR, Complete,
         SaveSucceeded, FailRead, FailSave, CallError, Crash, RemoteEnd, apiVars
  <2>2. QED  BY <1>1, <1>2, <2>1
<1>5. QED  BY <1>1, <1>2, <1>3, <1>4

\* A cancel that is under way was requested by a user.
LEMMA CancelRequestedStep ==
    ASSUME TypeOK, CancelRequested, [Next]_vars
    PROVE  CancelRequested'
<1>0. /\ DOMAIN cancelApi = Jobs /\ DOMAIN cancelTask = Jobs
      /\ status \in [Jobs -> {"absent"} \cup Active \cup Terminal]
  BY DEF TypeOK
<1>1. SUFFICES ASSUME NEW j \in Jobs, cancelApi[j] = "idle", cancelApi'[j] = "idle",
                      status'[j] = "canceled" \/ cancelTask'[j] # "idle"
               PROVE  FALSE
  BY HistoryStays DEF CancelRequested
<1>2. status[j] # "canceled" /\ cancelTask[j] = "idle"
  BY <1>1 DEF CancelRequested
<1>3. ASSUME NEW i \in Jobs, CancelRead(i) \/ CancelStep(i)
      PROVE  FALSE
  BY <1>0, <1>1, <1>2, <1>3
     DEF CancelRead, CancelStep, CancelSave, CancelTaskRead, CancelTaskRemote, CancelTaskSave,
         rowVars, cancelVars
<1>4. ASSUME NEW i \in Jobs, Invoke(i, "r") \/ Invoke(i, "runpod") \/ ReRun(i)
      PROVE  FALSE
  BY <1>0, <1>1, <1>2, <1>4 DEF Invoke, ReRun, cancelVars
<1>5. ASSUME NEW e \in Execs, DispatchSave(e) \/ SaveSucceeded(e) \/ FailSave(e)
      PROVE  FALSE
  BY <1>0, <1>1, <1>2, <1>5 DEF DispatchSave, SaveSucceeded, FailSave, cancelVars
<1>6. CASE UNCHANGED <<status, cancelTask>>
  BY <1>1, <1>2, <1>6
<1>7. QED
  BY <1>3, <1>4, <1>5, <1>6
     DEF Next, OtherStarts, OtherEnds, vars,
         rowVars, cancelVars, ApiStep, ExecStep, ApiDelay, ApiSaveId, ApiCrash,
         Discard, DispatchRead, DispatchR, DispatchRSaveId, RunRead, Submit, Persist, Poll,
         Update, Abandon, Deadline, Verify, RunR, ComputeR, Complete, FailRead, CallError,
         Crash, RemoteEnd

\* wait sees the remote job end, or cancels it, before it gives up.
LEMMA WaitedStep ==
    ASSUME TypeOK, MessagesNameJobs, RemoteRemembered, CancelRequested, Waited, [Next]_vars
    PROVE  Waited'
<1>0. /\ pc \in [Execs -> {"unused", "sent", "rsent", "done"} \cup Busy]
      /\ remote \in [Execs -> RemoteStates] /\ seen \in [Execs -> RemoteStates]
  BY DEF TypeOK
<1>1. SUFFICES ASSUME NEW e \in Execs, remote'[e] = "active", ~ (faults' > 0),
                      cancelApi'[job'[e]] = "idle"
               PROVE  pc'[e] \in Waiting
  BY DEF Waited, Waiting
<1> DEFINE Kept == remote[e] = "active" /\ pc[e] \in Waiting
<1>2. ~ (faults > 0)
  BY <1>1, HistoryStays
<1>3. pc[e] # "unused" => job'[e] = job[e] /\ job[e] \in Jobs /\ cancelApi[job[e]] = "idle"
                          /\ status[job[e]] # "canceled"
  BY <1>1, HistoryStays, NeverTakenBack, JobOf DEF CancelRequested
<1>4. pc[e] = "unused" => remote[e] = "none"
  BY DEF RemoteRemembered, RemoteOf, Before
<1>5. remote[e] = "active" => pc[e] \in Waiting
  BY <1>2, <1>3, <1>4 DEF Waited, Waiting
<1>6. /\ seen[e] \notin {"none", "active"} => remote[e] = seen[e]
      /\ pc[e] \in Before => remote[e] = "none"
  BY DEF RemoteRemembered, RemoteOf
<1>7. ~ Fault
  <2>1. faults \in 0..scenario.faults /\ scenario.faults \in Nat
    BY ScenarioType DEF TypeOK
  <2>2. QED  BY <1>1, <2>1 DEF Fault
<1> USE DEF Waiting, Goto, EndIfCanceled, Before, execVars, envVars
<1>8. ASSUME NEW x \in Execs, ExecStep(x) \/ CallError(x) \/ Crash(x) \/ RemoteEnd(x)
      PROVE  pc'[e] \in Waiting
  <2>1. CASE Discard(x) \/ DispatchRead(x) \/ DispatchSave(x) \/ DispatchRSaveId(x) \/ RunRead(x)
    BY <1>0, <1>1, <1>5, <2>1 DEF Discard, DispatchRead, DispatchSave, DispatchRSaveId, RunRead
  <2>2. CASE Submit(x) \/ Persist(x) \/ Poll(x)
    BY <1>0, <1>1, <1>5, <2>2 DEF Submit, Persist, Poll
  <2>3. CASE Update(x)
    BY <1>0, <1>1, <1>3, <1>5, <1>6, <2>3 DEF Update
  <2>4. CASE Deadline(x)
    BY <1>0, <1>1, <1>5, <1>7, <2>4 DEF Deadline, CancelRemote
  <2>5. CASE Verify(x) \/ RunR(x) \/ ComputeR(x) \/ Abandon(x) \/ \E r \in Execs : DispatchR(x, r)
    BY <1>0, <1>1, <1>5, <1>6, <2>5 DEF Verify, RunR, ComputeR, Abandon, DispatchR, NextMessage
  <2>6. CASE Complete(x) \/ SaveSucceeded(x) \/ FailRead(x) \/ FailSave(x)
    BY <1>0, <1>1, <1>5, <2>6 DEF Complete, SaveSucceeded, FailRead, FailSave
  <2>7. CASE CallError(x) \/ Crash(x)
    BY <1>7, <2>7 DEF CallError, Crash
  <2>8. CASE RemoteEnd(x)
    BY <1>0, <1>1, <1>5, <2>8 DEF RemoteEnd
  <2>9. QED
    BY <1>8, <2>1, <2>2, <2>3, <2>4, <2>5, <2>6, <2>7, <2>8 DEF ExecStep
<1>9. ASSUME NEW j \in Jobs, NEW x \in Execs, ApiDelay(j, x)
      PROVE  pc'[e] \in Waiting
  BY <1>0, <1>1, <1>5, <1>9 DEF ApiDelay, Send, NextMessage
<1>10. ASSUME NEW j \in Jobs, CancelTaskRemote(j)
       PROVE  pc'[e] \in Waiting
  BY <1>0, <1>1, <1>5, <1>10 DEF CancelTaskRemote, CancelRemote
<1>11. CASE UNCHANGED <<pc, remote>>
  BY <1>1, <1>5, <1>11
<1>12. QED
  BY <1>8, <1>9, <1>10, <1>11
     DEF Next, OtherStarts, OtherEnds, vars,
         ApiStep, CancelStep, Invoke, ReRun, ApiSaveId, ApiCrash,
         CancelRead, CancelSave, CancelTaskRead, CancelTaskSave

\* A remote job is submitted once, and once it has ended it stays so.
LEMMA RemoteForward ==
    ASSUME TypeOK, RemoteRemembered, [Next]_vars, NEW x \in Execs, remote[x] # "none"
    PROVE  remote'[x] # "none" /\ (remote[x] # "active" => remote'[x] # "active")
<1>0. DOMAIN remote = Execs /\ pc[x] # "submit"
  BY DEF TypeOK, RemoteRemembered, RemoteOf, Before
<1>1. CASE UNCHANGED remote
  BY <1>1
<1>2. ASSUME NEW e \in Execs, Submit(e) \/ CallError(e) \/ Deadline(e) \/ RemoteEnd(e)
      PROVE  remote'[x] # "none" /\ (remote[x] # "active" => remote'[x] # "active")
  BY <1>0, <1>2 DEF Submit, CallError, Deadline, RemoteEnd, CancelRemote
<1>3. ASSUME NEW j \in Jobs, CancelTaskRemote(j)
      PROVE  remote'[x] # "none" /\ (remote[x] # "active" => remote'[x] # "active")
  BY <1>0, <1>3 DEF CancelTaskRemote, CancelRemote
<1>4. QED
  BY <1>1, <1>2, <1>3
     DEF Next, OtherStarts, OtherEnds, vars,
         envVars, ApiStep, CancelStep, ExecStep, Invoke,
         ReRun, ApiDelay, ApiSaveId,
         ApiCrash, CancelRead, CancelSave, CancelTaskRead, CancelTaskSave,
         Discard, DispatchRead, DispatchSave, DispatchR, DispatchRSaveId, RunRead,
         Persist, Poll, Update, Abandon, Verify, RunR, ComputeR, Complete,
         SaveSucceeded, FailRead, FailSave, Crash

\* Remote ids come from Persist, and travel by copies of the row.
LEMMA RefsSubmittedStep ==
    ASSUME TypeOK, MessagesNameJobs, RemoteRemembered, RefsSubmitted, [Next]_vars
    PROVE  RefsSubmitted'
<1>0. /\ remoteRef \in [Jobs -> Execs \cup {None}] /\ cancelRef \in [Jobs -> Execs \cup {None}]
      /\ snap \in [Execs -> Snaps] /\ None \notin Execs
      /\ pc \in [Execs -> {"unused", "sent", "rsent", "done"} \cup Busy]
      /\ \A e \in Execs : snap[e].remoteRef \in Execs \cup {None}
  BY ConstantsAssumption DEF TypeOK, Snaps
<1> DEFINE Fine(ref) == ref = None \/ (ref \in Execs /\ remote[ref] # "none")
<1>1. /\ \A j \in Jobs : Fine(remoteRef[j]) /\ Fine(cancelRef[j])
      /\ \A e \in Execs : Fine(snap[e].remoteRef)
      /\ \A e \in Execs : pc[e] = "persist" => Fine(e)
  <2>1. /\ \A j \in Jobs : remoteRef[j] \in Execs \cup {None} /\ cancelRef[j] \in Execs \cup {None}
        /\ \A e \in Execs : snap[e].remoteRef \in Execs \cup {None}
    BY <1>0
  <2>2. \A j \in Jobs : Fine(remoteRef[j])  BY <2>1 DEF RefsSubmitted
  <2>3. \A j \in Jobs : Fine(cancelRef[j])  BY <2>1 DEF RefsSubmitted
  <2>4. \A e \in Execs : Fine(snap[e].remoteRef)  BY <2>1 DEF RefsSubmitted
  <2>5. \A e \in Execs : pc[e] = "persist" => Fine(e)  BY DEF RefsSubmitted
  <2>6. QED  BY <2>2, <2>3, <2>4, <2>5
<1>2. \A ref : Fine(ref) => ref = None \/ (ref \in Execs /\ remote'[ref] # "none")
  <2>1. \A x \in Execs : remote[x] # "none" => remote'[x] # "none"
    BY RemoteForward
  <2>2. QED  BY <2>1
<1>3. ASSUME \A j \in Jobs : Fine(remoteRef'[j]), \A j \in Jobs : Fine(cancelRef'[j]),
             \A e \in Execs : Fine(snap'[e].remoteRef),
             \A e \in Execs : pc'[e] = "persist" => remote'[e] # "none"
      PROVE  RefsSubmitted'
  BY <1>2, <1>3 DEF RefsSubmitted
<1> HIDE DEF Fine
<1>4. \A j \in Jobs : Fine(remoteRef'[j])
  <2>1. ASSUME NEW e \in Execs, Persist(e) \/ SaveSucceeded(e)
        PROVE  \A j \in Jobs : Fine(remoteRef'[j])
    BY <1>0, <1>1, <2>1 DEF Persist, SaveSucceeded
  <2>2. CASE UNCHANGED remoteRef
    BY <1>1, <2>2
  <2>3. QED
    BY <2>1, <2>2
       DEF Next, OtherStarts, OtherEnds, vars,
         rowVars, ApiStep, CancelStep, ExecStep, Invoke,
         ReRun, ApiDelay, ApiSaveId, ApiCrash, CancelRead, CancelSave, CancelTaskRead,
         CancelTaskRemote, CancelTaskSave, Discard, DispatchRead, DispatchSave, DispatchR,
         DispatchRSaveId, RunRead, Submit, Poll, Update, Abandon, Deadline, Verify, RunR,
         ComputeR, Complete, FailRead, FailSave, CallError, Crash, RemoteEnd
<1>5. \A j \in Jobs : Fine(cancelRef'[j])
  <2>1. ASSUME NEW i \in Jobs, CancelTaskRead(i)
        PROVE  \A j \in Jobs : Fine(cancelRef'[j])
    BY <1>0, <1>1, <2>1 DEF CancelTaskRead
  <2>2. CASE UNCHANGED cancelRef
    BY <1>1, <2>2
  <2>3. QED
    BY <2>1, <2>2
       DEF Next, OtherStarts, OtherEnds, vars,
         cancelVars, ApiStep, CancelStep, ExecStep, Invoke,
         ReRun, ApiDelay, ApiSaveId, ApiCrash, CancelRead, CancelSave,
         CancelTaskRemote, CancelTaskSave, Discard, DispatchRead, DispatchSave, DispatchR,
         DispatchRSaveId, RunRead, Submit, Persist, Poll, Update, Abandon, Deadline, Verify, RunR,
         ComputeR, Complete, SaveSucceeded, FailRead, FailSave, CallError, Crash, RemoteEnd
<1>6. \A e \in Execs : Fine(snap'[e].remoteRef)
  <2>1. ASSUME NEW x \in Execs, SaveSucceeded(x) \/ Crash(x) \/ DispatchRSaveId(x)
        PROVE  \A e \in Execs : Fine(snap'[e].remoteRef)
    <3>1. \A e \in Execs : snap'[e] = snap[e] \/ snap'[e] = NoSnap
      BY <1>0, <2>1 DEF SaveSucceeded, Crash, DispatchRSaveId
    <3>2. Fine(NoSnap.remoteRef)  BY DEF Fine, NoSnap
    <3>3. \A e \in Execs : snap'[e].remoteRef = snap[e].remoteRef
                         \/ snap'[e].remoteRef = NoSnap.remoteRef
      BY <3>1
    <3>4. QED  BY <1>1, <3>2, <3>3
  <2>2. ASSUME NEW x \in Execs, NEW y \in Execs, DispatchR(x, y)
        PROVE  \A e \in Execs : Fine(snap'[e].remoteRef)
    <3>1. \A e \in Execs : snap'[e].remoteRef = snap[e].remoteRef
      BY <1>0, <2>2 DEF DispatchR, Snaps
    <3>2. QED  BY <1>1, <3>1
  <2>3. ASSUME NEW x \in Execs, Complete(x)
        PROVE  \A e \in Execs : Fine(snap'[e].remoteRef)
    <3>1. job[x] \in Jobs  BY <2>3, JobOf DEF Complete
    <3>2. \A e \in Execs : snap'[e].remoteRef \in {snap[e].remoteRef, remoteRef[job[x]]}
      BY <1>0, <2>3 DEF Complete, Goto
    <3>3. QED  BY <1>1, <3>1, <3>2
  <2>4. CASE UNCHANGED snap
    BY <1>1, <2>4
  <2>5. QED
    BY <2>1, <2>2, <2>3, <2>4
       DEF Next, OtherStarts, OtherEnds, vars,
         execVars, ApiStep, CancelStep, ExecStep, Invoke,
         ReRun, ApiDelay, ApiSaveId, ApiCrash, CancelRead, CancelSave, CancelTaskRead, Send, Goto,
         CancelTaskRemote, CancelTaskSave, Discard, DispatchRead, DispatchSave, EndIfCanceled,
         RunRead, Submit, Persist, Poll, Update, Abandon, Deadline, Verify, RunR,
         ComputeR, FailRead, FailSave, CallError, RemoteEnd
<1>7. \A e \in Execs : pc'[e] = "persist" => remote'[e] # "none"
  <2>1. ASSUME NEW e \in Execs, Submit(e)
        PROVE  \A x \in Execs : pc'[x] = "persist" => remote'[x] # "none"
    <3>1. \A x \in Execs : pc[x] = "persist" => remote'[x] # "none"
      BY <1>1, <1>2, ConstantsAssumption
    <3>2. /\ \A x \in Execs : x # e => pc'[x] = pc[x]
          /\ remote'[e] = "active"
      BY <2>1 DEF Submit, Goto, TypeOK
    <3>3. QED  BY <3>1, <3>2
  <2>2. CASE \A x \in Execs : pc'[x] = "persist" => pc[x] = "persist"
    BY <1>1, <1>2, <2>2, ConstantsAssumption
  <2>3. ASSUME NEW x \in Execs, ~Submit(x),
               ExecStep(x) \/ CallError(x) \/ Crash(x) \/ RemoteEnd(x)
        PROVE  \A e \in Execs : pc'[e] = "persist" => pc[e] = "persist"
    BY <1>0, <2>3
       DEF ExecStep, CallError, Crash, RemoteEnd, Discard, DispatchRead, DispatchSave, DispatchR,
         DispatchRSaveId, RunRead, Persist, Poll, Update, Abandon, Deadline, Goto,
         EndIfCanceled, execVars,
         Verify, RunR, ComputeR, Complete, SaveSucceeded, FailRead, FailSave
  <2>4. ASSUME NEW j \in Jobs, NEW x \in Execs, ApiDelay(j, x)
        PROVE  \A e \in Execs : pc'[e] = "persist" => pc[e] = "persist"
    BY <1>0, <2>4 DEF ApiDelay, Send
  <2>5. CASE UNCHANGED pc
    BY <2>2, <2>5
  <2>6. QED
    BY <2>1, <2>2, <2>3, <2>4, <2>5
       DEF Next, OtherStarts, OtherEnds, vars,
         execVars, ApiStep, CancelStep, Invoke, ReRun,
         ApiSaveId, ApiCrash, CancelRead, CancelSave, CancelTaskRead, CancelTaskRemote,
         CancelTaskSave
<1>8. QED  BY <1>3, <1>4, <1>5, <1>6, <1>7

\* The cancel task ends what it has read, unless the request fails.
LEMMA CancelReachedStep ==
    ASSUME TypeOK, RemoteRemembered, CancelRequested, RefsSubmitted, CancelReached, [Next]_vars
    PROVE  CancelReached'
<1>0. /\ cancelRef \in [Jobs -> Execs \cup {None}] /\ DOMAIN cancelTask = Jobs
      /\ DOMAIN cancelApi = Jobs /\ DOMAIN remote = Execs
      /\ \A j \in Jobs : cancelTask[j] \in {"idle", "sent", "remote", "save"}
      /\ faults \in 0..scenario.faults /\ scenario.faults \in Nat
  BY ScenarioType DEF TypeOK
<1>1. SUFFICES ASSUME NEW j \in Jobs
               PROVE  /\ cancelApi'[j] = "idle" \/ cancelTask'[j] = "sent" => cancelRef'[j] = None
                      /\ cancelTask'[j] \in {"save", "idle"} /\ cancelRef'[j] # None =>
                            faults' > 0 \/ remote'[cancelRef'[j]] # "active"
  BY DEF CancelReached
<1>2. /\ cancelApi[j] = "idle" \/ cancelTask[j] = "sent" => cancelRef[j] = None
      /\ cancelTask[j] \in {"save", "idle"} /\ cancelRef[j] # None =>
            faults > 0 \/ remote[cancelRef[j]] # "active"
      /\ cancelTask[j] # "idle" => cancelApi[j] # "idle"
  BY DEF CancelReached, CancelRequested
<1>3. /\ cancelApi[j] # "idle" => cancelApi'[j] # "idle"
      /\ faults > 0 => faults' > 0
  BY HistoryStays
<1>4. cancelRef[j] # None /\ remote[cancelRef[j]] # "active" => remote'[cancelRef[j]] # "active"
  BY <1>0, RemoteForward DEF RefsSubmitted
<1>5. CASE CancelRead(j)
  BY <1>0, <1>2, <1>3, <1>5 DEF CancelRead
<1>6. CASE CancelTaskRead(j)
  BY <1>0, <1>2, <1>3, <1>6 DEF CancelTaskRead, apiVars
<1>7. CASE CancelTaskRemote(j)
  <2>1. cancelRef' = cancelRef /\ cancelTask'[j] = "save" /\ cancelApi' = cancelApi
    BY <1>0, <1>7 DEF CancelTaskRemote, apiVars
  <2>2. CASE Fault
    <3>1. faults' > 0  BY <1>0, <2>2 DEF Fault
    <3>2. QED  BY <1>2, <2>1, <3>1
  <2>3. CASE CancelRemote(cancelRef[j])
    BY <1>0, <1>2, <2>1, <2>3 DEF CancelRemote
  <2>4. QED  BY <1>7, <2>2, <2>3 DEF CancelTaskRemote
<1>8. CASE CancelTaskSave(j)
  BY <1>0, <1>2, <1>3, <1>4, <1>8 DEF CancelTaskSave, apiVars, envVars, countVars
<1>9. CASE /\ cancelRef'[j] = cancelRef[j] /\ cancelTask'[j] = cancelTask[j]
           /\ cancelApi'[j] # "idle" \/ cancelApi'[j] = cancelApi[j]
  BY <1>2, <1>3, <1>4, <1>9
<1>10. ASSUME NEW i \in Jobs, CancelRead(i) \/ CancelSave(i) \/ CancelTaskRead(i)
                              \/ CancelTaskRemote(i) \/ CancelTaskSave(i)
       PROVE  \/ i = j /\ ~CancelSave(i)
              \/ /\ cancelRef'[j] = cancelRef[j] /\ cancelTask'[j] = cancelTask[j]
                 /\ cancelApi'[j] # "idle" \/ cancelApi'[j] = cancelApi[j]
  BY <1>0, <1>10 DEF CancelRead, CancelSave, CancelTaskRead, CancelTaskRemote, CancelTaskSave,
                     apiVars, cancelVars
<1>11. CASE UNCHANGED <<cancelRef, cancelTask, cancelApi>>
  BY <1>9, <1>11
<1>12. QED
  BY <1>5, <1>6, <1>7, <1>8, <1>9, <1>10, <1>11
     DEF Next, OtherStarts, OtherEnds, vars,
         cancelVars, apiVars, ApiStep, CancelStep, ExecStep,
         Invoke, ReRun, ApiDelay, ApiSaveId, ApiCrash, Discard, DispatchRead, DispatchSave,
         DispatchR, DispatchRSaveId, RunRead, Submit, Persist, Poll, Update, Abandon, Deadline,
         Verify, RunR, ComputeR, Complete, SaveSucceeded, FailRead, FailSave, CallError, Crash,
         RemoteEnd

\* The scenario is fixed, and counted rows come with an admission only.
LEMMA CountedSteps ==
    ASSUME TypeOK, [Next]_vars
    PROVE  /\ scenario' = scenario
           /\ \/ counted' \in Nat /\ counted' <= counted
              \/ \E j \in Jobs, q \in {"runpod", "r"} : Invoke(j, q)
<1>1. counted \in Nat /\ others \in Nat  BY OthersType
<1>2. CASE OtherEnds
  <2>1. counted' \in {counted, counted - 1} /\ counted' \in 0..others - 1 /\ scenario' = scenario
    BY <1>2 DEF OtherEnds
  <2>2. counted' \in Nat /\ counted' <= counted  BY <1>1, <2>1
  <2>3. QED  BY <2>1, <2>2
<1>3. CASE ~OtherEnds
  <2>1. /\ scenario' = scenario
        /\ \/ counted' = counted
           \/ \E j \in Jobs, q \in {"runpod", "r"} : Invoke(j, q)
    BY <1>3 DEF Next, OtherStarts, vars, countVars, quotaVars, ApiStep, CancelStep, ExecStep,
         Invoke, ReRun, ApiDelay, ApiSaveId,
         ApiCrash, CancelRead, CancelSave, CancelTaskRead, CancelTaskRemote, CancelTaskSave,
         Discard, DispatchRead, DispatchSave, DispatchR, DispatchRSaveId, RunRead, Submit,
         Persist, Poll, Update, Abandon, Deadline, Verify, RunR, ComputeR, Complete,
         SaveSucceeded, FailRead, FailSave, CallError, Crash, RemoteEnd
  <2>2. QED  BY <1>1, <2>1
<1>4. QED  BY <1>2, <1>3

\* Invoke counts under the tenant lock every active row, whoever created it, and
\* only re_run_job and dispatches activate a terminal row again.
LEMMA QuotaStep ==
    ASSUME TypeOK, MessagesNameJobs, QuotaAccounted, [Next]_vars
    PROVE  QuotaAccounted'
<1> DEFINE S == ActiveJobs \ reopened
           T == (ActiveJobs \ reopened)'
           N == scenario.limit
<1>0. /\ status \in [Jobs -> {"absent"} \cup Active \cup Terminal] /\ reopened \subseteq Jobs
      /\ N \in Nat /\ IsFiniteSet(Jobs) /\ counted \in Nat /\ others \in Nat
  BY ConstantsAssumption, ScenarioType, OthersType DEF TypeOK
<1>1. /\ IsFiniteSet(ActiveJobs) /\ IsFiniteSet(S)
      /\ Cardinality(ActiveJobs) \in Nat /\ Cardinality(S) \in Nat
  <2>1. ActiveJobs \subseteq Jobs /\ S \subseteq Jobs  BY DEF ActiveJobs
  <2> HIDE DEF S
  <2>2. IsFiniteSet(ActiveJobs) /\ IsFiniteSet(S)  BY <1>0, <2>1, FS_Subset
  <2>3. QED  BY <2>2, FS_CardinalityType
<1>2. Cardinality(S) + counted <= N
  BY DEF QuotaAccounted, Limit
<1>3. ASSUME T \subseteq S, counted' \in Nat, counted' <= counted
      PROVE  Cardinality(T) + counted' <= N
  <2> HIDE DEF S, T, N
  <2>1. IsFiniteSet(T) /\ Cardinality(T) <= Cardinality(S)  BY <1>1, <1>3, FS_Subset
  <2>2. Cardinality(T) \in Nat  BY <2>1, FS_CardinalityType
  <2>3. QED  BY <1>0, <1>1, <1>2, <1>3, <2>1, <2>2
<1>4. ASSUME NEW j \in Jobs, NEW q \in {"runpod", "r"}, Invoke(j, q)
      PROVE  Cardinality(T) + counted' <= N
  <2>1. /\ T \subseteq ActiveJobs \cup {j} /\ counted' = others
        /\ Cardinality(ActiveJobs) + others < N
    BY <1>0, <1>4 DEF Invoke, ActiveJobs, Admissible, Limit
  <2> HIDE DEF S, T, N
  <2>2. /\ IsFiniteSet(ActiveJobs \cup {j})
        /\ \/ Cardinality(ActiveJobs \cup {j}) = Cardinality(ActiveJobs)
           \/ Cardinality(ActiveJobs \cup {j}) = Cardinality(ActiveJobs) + 1
    BY <1>1, FS_AddElement
  <2>3. IsFiniteSet(T) /\ Cardinality(T) <= Cardinality(ActiveJobs \cup {j})
    BY <2>1, <2>2, FS_Subset
  <2>4. Cardinality(T) \in Nat  BY <2>3, FS_CardinalityType
  <2>5. QED  BY <1>0, <1>1, <2>1, <2>2, <2>3, <2>4
<1>5. ASSUME NEW j \in Jobs, ReRun(j)
      PROVE  T \subseteq S
  BY <1>0, <1>5 DEF ReRun, ActiveJobs, Active, Terminal
<1>6. ASSUME NEW e \in Execs, DispatchSave(e)
      PROVE  T \subseteq S
  <2>1. job[e] \in Jobs /\ status[job[e]] # "absent"
    BY <1>6, JobOf DEF DispatchSave, MessagesNameJobs, TypeOK
  <2>2. QED  BY <1>0, <1>6, <2>1 DEF DispatchSave, ActiveJobs, Active, Terminal
<1>7. ASSUME NEW j \in Jobs, CancelSave(j) \/ CancelTaskSave(j)
      PROVE  T \subseteq S
  BY <1>0, <1>7 DEF CancelSave, CancelTaskSave, ActiveJobs, Active, countVars
<1>8. ASSUME NEW e \in Execs, SaveSucceeded(e) \/ FailSave(e)
      PROVE  T \subseteq S
  BY <1>0, <1>8 DEF SaveSucceeded, FailSave, ActiveJobs, Active, countVars
<1>9. ASSUME UNCHANGED <<status, reopened>>
      PROVE  T \subseteq S
  BY <1>9 DEF ActiveJobs
<1>10. \/ T \subseteq S
       \/ \E j \in Jobs, q \in {"runpod", "r"} : Invoke(j, q)
  <2>1. CASE \E j \in Jobs : \/ ReRun(j) \/ CancelSave(j) \/ CancelTaskSave(j)
    BY <1>5, <1>7, <2>1
  <2>2. CASE \E e \in Execs : DispatchSave(e) \/ SaveSucceeded(e) \/ FailSave(e)
    BY <1>6, <1>8, <2>2
  <2> HIDE DEF S, T
  <2>3. QED
    BY <1>9, <2>1, <2>2
       DEF Next, OtherStarts, OtherEnds, vars,
         rowVars, countVars, ApiStep, CancelStep,
         ExecStep, ApiDelay, ApiSaveId,
         ApiCrash, CancelRead, CancelTaskRead, CancelTaskRemote, Discard, DispatchRead, DispatchR,
         DispatchRSaveId, RunRead, Submit, Persist, Poll, Update, Abandon, Deadline,
         Verify, RunR, ComputeR, Complete, FailRead, CallError, Crash, RemoteEnd
<1>11. scenario' = scenario /\ Cardinality(T) + counted' <= N
  BY <1>3, <1>4, <1>10, CountedSteps
<1>12. QED  BY <1>11 DEF QuotaAccounted, Limit

(***************************************************************************)
(* The inductive invariant                                                 *)
(***************************************************************************)
LEMMA InitEstablishes ==
    ASSUME Init
    PROVE  IInv
<1>1. /\ \A s \in Scenarios : s.reruns \in Nat /\ s.faults \in Nat
      /\ None \notin Execs /\ None \notin Jobs
      /\ \A s \in Scenarios : s.limit \in Nat /\ s.others \in Nat
  BY ConstantsAssumption
<1>2. /\ scenario.reruns \in Nat /\ scenario.faults \in Nat
      /\ scenario.limit \in Nat /\ scenario.others \in Nat
  BY <1>1 DEF Init
<1>3. TypeOK
  <2>1. /\ 0 \in 0..scenario.reruns /\ 0 \in 0..scenario.faults
        /\ 0 \in 0..scenario.others /\ 0 \in 0..0
    BY <1>2
  <2>2. NoSnap \in Snaps
    BY SnapType
  <2>3. QED  BY <2>1, <2>2 DEF Init, TypeOK, RemoteStates
<1>4. MessagesNameJobs /\ ApiOfAdmitted /\ RemoteRemembered /\ OutputWritten
  BY <1>1 DEF Init, MessagesNameJobs, ApiOfAdmitted, RemoteRemembered, RemoteOf, OutputWritten, OnR
<1>5. RunsPaid
  <2>1. \A j \in Jobs : Runs(j) = {} /\ api[j] = "idle" /\ reruns[j] = 0
    BY <1>1 DEF Init, Runs
  <2>2. IsFiniteSet({}) /\ Cardinality({}) = 0
    BY FS_EmptySet
  <2>3. QED  BY <2>1, <2>2 DEF RunsPaid
<1>6. /\ OutputUntouched /\ CancelRequested /\ Waited /\ SucceededHasOutput
      /\ RefsSubmitted /\ CancelReached
  BY DEF Init, OutputUntouched, CancelRequested, Waited, SucceededHasOutput, RefsSubmitted,
         CancelReached, NoSnap
<1>7. QuotaAccounted
  <2>1. ActiveJobs \ reopened = {}
    BY DEF Init, ActiveJobs, Active
  <2>2. Cardinality(ActiveJobs \ reopened) = 0 /\ counted = 0
    BY <2>1, FS_EmptySet DEF Init
  <2>3. Cardinality(ActiveJobs \ reopened) + counted = 0
    BY <2>2
  <2>4. QED  BY <1>2, <2>3 DEF QuotaAccounted, Limit
<1>8. QED  BY <1>3, <1>4, <1>5, <1>6, <1>7 DEF IInv

\* Every step preserves the strengthening.
LEMMA StepPreserves ==
    ASSUME IInv, [Next]_vars
    PROVE  IInv'
<1>1. TypeOK' /\ MessagesNameJobs' /\ ApiOfAdmitted'
  BY TypeStep, MessagesStep DEF IInv
<1>2. RemoteRemembered' /\ OutputWritten' /\ RunsPaid'
  BY RemoteRememberedStep, OutputWrittenStep, RunsPaidStep DEF IInv
<1>3. OutputUntouched' /\ CancelRequested' /\ Waited'
  BY OutputUntouchedStep, CancelRequestedStep, WaitedStep DEF IInv
<1>4. SucceededHasOutput' /\ QuotaAccounted'
  BY <1>2, SucceededStep, QuotaStep DEF IInv
<1>5. RefsSubmitted' /\ CancelReached'
  BY RefsSubmittedStep, CancelReachedStep DEF IInv
<1>6. QED  BY <1>1, <1>2, <1>3, <1>4, <1>5 DEF IInv

\* The strengthening is inductive: what a message, a run and a remote job still
\* owe to each other holds in every state of dispatch, execution and cancel.
THEOREM OffloadInvariant == Spec => []IInv
<1>1. Init => IInv
  BY InitEstablishes
<1>2. IInv /\ [Next]_vars => IInv'
  BY StepPreserves
<1>3. QED
  BY <1>1, <1>2, PTL DEF Spec

\* Every column of control_job and every local of a worker stays in its range.
THEOREM OffloadTypeCorrect == Spec => []TypeOK
<1>1. IInv => TypeOK
  BY DEF IInv
<1>2. QED  BY <1>1, OffloadInvariant, PTL

\* SaveSucceeded never publishes the output of another job, of a remote run that
\* did not complete or, unless the job was run again, an object that was
\* overwritten after its verification.
THEOREM SucceededHasOutputHolds == Spec => []SucceededHasOutput
<1>1. IInv => SucceededHasOutput
  BY DEF IInv
<1>2. QED  BY <1>1, OffloadInvariant, PTL

\* client.submit creates at most one remote job for the admission of an operation
\* and one for each re-run.
THEOREM OneRemotePerRunHolds == Spec => []OneRemotePerRun
<1>1. ASSUME IInv
      PROVE  OneRemotePerRun
  <2>1. SUFFICES ASSUME NEW j \in Jobs
                 PROVE  Cardinality({e \in Execs : job[e] = j /\ remote[e] # "none"})
                            <= 1 + reruns[j]
    BY DEF OneRemotePerRun
  <2> DEFINE R == {e \in Execs : job[e] = j /\ remote[e] # "none"}
  <2>2. R \subseteq Runs(j)
    BY DEF Runs
  <2>3. /\ IsFiniteSet(Runs(j)) /\ Cardinality(Runs(j)) \in Nat
        /\ Cardinality(Runs(j)) + (IF api[j] = "delay" THEN 1 ELSE 0) <= 1 + reruns[j]
    BY <1>1, FS_CardinalityType DEF IInv, RunsPaid
  <2> HIDE DEF R
  <2>4. IsFiniteSet(R) /\ Cardinality(R) <= Cardinality(Runs(j))
    BY <2>2, <2>3, FS_Subset
  <2>5. Cardinality(R) \in Nat
    BY <2>4, FS_CardinalityType
  <2>6. reruns[j] \in Nat
    <3>1. reruns \in [Jobs -> 0..scenario.reruns] /\ scenario.reruns \in Nat
      BY <1>1, ScenarioType DEF IInv, TypeOK
    <3>2. QED  BY <3>1
  <2>7. QED  BY <2>3, <2>4, <2>5, <2>6 DEF R
<1>2. QED  BY <1>1, OffloadInvariant, PTL

\* wait leaves no remote job behind when it ends at its deadline, nor does a
\* cancel task one whose id it has read: an orphan has a fault behind it, or a
\* cancel that did not find its id in the row.
THEOREM OrphanAccountedHolds == Spec => []OrphanAccounted
<1>1. ASSUME IInv PROVE OrphanAccounted
  <2>1. SUFFICES ASSUME NEW e \in Execs, remote[e] = "active", pc[e] = "done", ~(faults > 0),
                        cancelTask[job[e]] \notin {"sent", "remote"}, cancelRef[job[e]] = e
                 PROVE  FALSE
    BY <1>1 DEF IInv, Waited, Waiting, OrphanAccounted
  <2>2. job[e] \in Jobs  BY <1>1, <2>1, JobOf DEF IInv
  <2>3. cancelTask[job[e]] \in {"save", "idle"} /\ cancelRef[job[e]] # None
    <3>1. cancelTask \in [Jobs -> {"idle", "sent", "remote", "save"}]
      BY <1>1 DEF IInv, TypeOK
    <3>2. e # None  BY ConstantsAssumption
    <3>3. QED  BY <2>1, <2>2, <3>1, <3>2
  <2>4. QED  BY <1>1, <2>1, <2>2, <2>3 DEF IInv, CancelReached
<1>2. QED  BY <1>1, OffloadInvariant, PTL

\* The count under the tenant lock bounds the active jobs that were never
\* reopened, together with the other producers' rows it has counted, for any
\* quota and any number of such rows.
THEOREM QuotaAccountedHolds == Spec => []QuotaAccounted
<1>1. IInv => QuotaAccounted
  BY DEF IInv
<1>2. QED  BY <1>1, OffloadInvariant, PTL
=============================================================================
