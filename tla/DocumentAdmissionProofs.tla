----------------------- MODULE DocumentAdmissionProofs -----------------------
(***************************************************************************)
(* Machine-checked safety of DocumentAdmission, for any set of runs and     *)
(* artifacts, any number of stages and executions, and any bounds.  Of the  *)
(* rows that the admin site has overridden only the type, the slots and who *)
(* attends a running job are claimed.                                      *)
(***************************************************************************)
EXTENDS DocumentAdmission, TLAPS

(***************************************************************************)
(* The strengthening.                                                      *)
(***************************************************************************)

\* Positions between the claim and the job's terminal status.
Holding == Working \ {"failartifact"}

\* An execution has a row exactly while it is alive, and stands where a row of
\* that kind can bring it; the two stages of work are not past the last one.
Slots ==
    \A e \in Execs :
        /\ pc[e] = "free" <=> at[e] = NoRow
        /\ pc[e] \in {"stage", "work", "check", "failartifact"} => IsAdmission(e)
        /\ pc[e] \in {"batch", "distill", "close"} => ~IsAdmission(e)
        /\ pc[e] \in {"work", "check"} => hist[e] < Stages

\* A re-run's message is of a row that was re-run, and a row that was
\* re-run, or that a cancel is on its way to, exists.
Marks ==
    /\ \A e \in Execs : pc[e] \in Redoing => at[e] \in rerun
    /\ \A w \in Rows : cancels[w] > 0 \/ w \in Overridden => job[w] # "absent"

\* The lease: whoever holds a row finds its job running, or canceled.
Lease ==
    \A e \in Execs : pc[e] \in Holding /\ at[e] \notin Overridden =>
        job[at[e]] \in {"running", "canceled"}

\* The handler writes the run before the job.
HandlerOrder ==
    \A e \in Execs : pc[e] = "failjob" /\ at[e] \notin Overridden =>
        run[at[e]] = "failed"

\* Nobody holds the row of a run that has succeeded, and nobody can take it.
Closed ==
    \A w \in Rows \ Overridden : run[w] = "succeeded" =>
        /\ job[w] \in {"succeeded", "canceled"}
        /\ \A e \in Execs : pc[e] \in Holding => at[e] # w

\* An escalation starts with the success of its run.
EscalationAfter ==
    \A r \in Runs : Adm(r) \notin Overridden /\ job[Esc(r)] # "absent" =>
        run[Adm(r)] = "succeeded"

Owned == OneOwner /\ Lease /\ HandlerOrder /\ RowsAgree /\ Closed /\ EscalationAfter

\* Positions of an execution that is going to end the job it finds running.
Attending == Holding \cup {"offload", "offsave"}

\* A running job has an execution that ends it, unless that one has died or the
\* status was set by hand.
Attended ==
    \A w \in Rows : job[w] = "running" =>
        \/ w \in crashed \cup edited
        \/ \E e \in Execs : at[e] = w /\ pc[e] \in Attending

\* The copy an execution works on, compared with the run it was read from.
Behind(e) ==
    LET r == RunOf(e) IN
    /\ hist[e] <= out[e]
    /\ hist[e] <= history[r]
    /\ hist[e] = history[r] => amb[e] = ambiguous[r]

InStep(e) ==
    LET r == RunOf(e) IN
    /\ hist[e] <= out[e]
    /\ hist[e] = history[r]
    /\ pc[e] = "stage" => amb[e] = ambiguous[r]
    /\ pc[e] = "check" => out[e] > hist[e]

\* A run that was never claimed with an outdated copy, nor overridden.
Reliable(r) == r \notin stale /\ Adm(r) \notin Overridden

\* Of a reliable run: its output is never
\* behind its history, whoever holds it works on the current history, and a copy
\* that has not been claimed is at worst old.
Copies ==
    /\ \A r \in Runs : Reliable(r) => history[r] <= output[r]
    /\ \A e \in Execs : IsAdmission(e) /\ Reliable(RunOf(e)) =>
         /\ pc[e] = "read" => Behind(e)
         /\ pc[e] \in Holding => InStep(e)

IInv ==
    /\ TypeOK
    /\ Slots
    /\ Marks
    /\ Owned
    /\ Attended
    /\ Copies
    /\ SucceededComplete
    /\ EscalationFollows

(***************************************************************************)
(* Rows                                                                    *)
(***************************************************************************)

\* A row is an admission or an escalation of exactly one run.
LEMMA RowFacts ==
    /\ \A r \in Runs : Adm(r) \in Rows /\ Esc(r) \in Rows
    /\ \A r, s \in Runs : Adm(r) # Esc(s)
    /\ \A r, s \in Runs : (Adm(r) = Adm(s) => r = s) /\ (Esc(r) = Esc(s) => r = s)
    /\ \A r \in Runs : Adm(r)[1] = r /\ Adm(r)[2] = "admission" /\ Esc(r)[1] = r
                       /\ Esc(r)[2] = "claim_escalation"
    /\ \A w \in Rows : w[1] \in Runs /\ (w = Adm(w[1]) \/ w = Esc(w[1]))
    /\ NoRow \notin Rows
<1>1. \A r \in Runs : Adm(r) \in Rows /\ Esc(r) \in Rows
  BY DEF Rows, Adm, Esc
<1>2. \A r, s \in Runs : Adm(r) # Esc(s)
  BY DEF Adm, Esc
<1>3. \A r, s \in Runs : (Adm(r) = Adm(s) => r = s) /\ (Esc(r) = Esc(s) => r = s)
  BY DEF Adm, Esc
<1>4. \A r \in Runs : Adm(r)[1] = r /\ Adm(r)[2] = "admission" /\ Esc(r)[1] = r
                       /\ Esc(r)[2] = "claim_escalation"
  BY DEF Adm, Esc
<1>5. \A w \in Rows : w[1] \in Runs /\ (w = Adm(w[1]) \/ w = Esc(w[1]))
  BY DEF Rows, Adm, Esc
<1>6. NoRow \notin Rows
  BY ConstantsAssumption DEF Rows
<1>7. QED  BY <1>1, <1>2, <1>3, <1>4, <1>5, <1>6

\* A live execution has a row, and knows which kind.
LEMMA LiveRow ==
    ASSUME TypeOK, Slots, NEW e \in Execs, pc[e] # "free"
    PROVE  /\ at[e] \in Rows
           /\ RunOf(e) \in Runs
           /\ IsAdmission(e) => at[e] = Adm(RunOf(e))
           /\ ~IsAdmission(e) => at[e] = Esc(RunOf(e))
<1>1. at[e] \in Rows  BY DEF TypeOK, Slots
<1>2. at[e] # NoRow  BY <1>1, RowFacts
<1>3. QED  BY <1>1, <1>2, RowFacts DEF RunOf, IsAdmission

(***************************************************************************)
(* Type correctness                                                        *)
(***************************************************************************)

\* A stage saves the artifact's status, or leaves it.
LEMMA StageSavesType ==
    ASSUME TypeOK, Slots, NEW e \in Execs, pc[e] # "free", StageSaves(e)
    PROVE  ingestion' \in [Artifacts -> {"captured", "parsed", "extracted", "failed"}]
<1>1. ArtifactOf[RunOf(e)] \in Artifacts  BY LiveRow, ConstantsAssumption
<1>2. CASE hist[e] + 1 = Stages
  BY <1>1, <1>2 DEF StageSaves, SetIngestion, TypeOK
<1>3. CASE hist[e] + 1 # Stages /\ hist[e] + 1 = Lift /\ Lift # Stages
  BY <1>1, <1>3 DEF StageSaves, SetIngestion, TypeOK
<1>4. CASE hist[e] + 1 # Stages /\ ~(hist[e] + 1 = Lift /\ Lift # Stages)
  BY <1>4 DEF StageSaves, TypeOK
<1>5. QED  BY <1>2, <1>3, <1>4

\* Every action keeps every variable in its range and every execution in a slot
\* that fits its row.
LEMMA TypeStep ==
    ASSUME TypeOK, Slots, [Next]_vars
    PROVE  TypeOK' /\ Slots'
<1> USE ConstantsAssumption, RowFacts, LiveRow
<1> USE DEF TypeOK, Slots, Working, Redoing, Statuses, RunStatuses, Verdicts, IsAdmission,
            rowVars, runVars, copyVars, execVars, countVars, adminVars, ghostVars
<1>1. ASSUME NEW r \in Runs, Schedule(r)
      PROVE  TypeOK' /\ Slots'
  <2>1. /\ job' \in [Rows -> Statuses] /\ run' \in [Rows -> RunStatuses]
        /\ requests' \in 0..MaxRequests
    BY <1>1 DEF Schedule, SetRow
  <2>2. CASE UNCHANGED execVars
    BY <1>1, <2>1, <2>2 DEF Schedule, SendOrLose, Send, Fault
  <2>3. ASSUME NEW e \in Execs, Send(Adm(r), e), UNCHANGED faults
        PROVE  TypeOK' /\ Slots'
    BY <1>1, <2>1, <2>3 DEF Schedule, Send
  <2>4. QED  BY <1>1, <2>2, <2>3 DEF Schedule, SendOrLose
<1>2. ASSUME NEW r \in Runs, Reschedule(r)
      PROVE  TypeOK' /\ Slots'
  <2>1. /\ job' \in [Rows -> Statuses] /\ run' \in [Rows -> RunStatuses]
        /\ requests' \in 0..MaxRequests
    BY <1>2 DEF Reschedule, SetRow
  <2>2. CASE UNCHANGED execVars
    BY <1>2, <2>1, <2>2 DEF Reschedule, SendOrLose, Send, Fault
  <2>3. ASSUME NEW e \in Execs, Send(Adm(r), e), UNCHANGED faults
        PROVE  TypeOK' /\ Slots'
    BY <1>2, <2>1, <2>3 DEF Reschedule, Send
  <2>4. QED  BY <1>2, <2>2, <2>3 DEF Reschedule, SendOrLose
<1>3. ASSUME NEW w \in Rows, NEW e \in Execs, Sweep(w, e)
      PROVE  TypeOK' /\ Slots'
  BY <1>3 DEF Sweep, Send
<1>4. ASSUME NEW e \in Execs, Read(e)
      PROVE  TypeOK' /\ Slots'
  <2>1. RunOf(e) \in Runs  BY <1>4 DEF Read
  <2>2. CASE IsAdmission(e)
    <3>1. /\ hist' = [hist EXCEPT ![e] = history[RunOf(e)]]
          /\ out' = [out EXCEPT ![e] = output[RunOf(e)]]
          /\ amb' = [amb EXCEPT ![e] = ambiguous[RunOf(e)]]
      BY <1>4, <2>2 DEF Read
    <3>2. TypeOK'  BY <1>4, <2>1, <3>1 DEF Read
    <3>3. Slots'   BY <1>4, <3>1 DEF Read
    <3>4. QED  BY <3>2, <3>3
  <2>3. CASE ~IsAdmission(e)
    BY <1>4, <2>3 DEF Read
  <2>4. QED  BY <2>2, <2>3
<1>5. ASSUME NEW e \in Execs, Claim(e)
      PROVE  TypeOK' /\ Slots'
  <2>1. at[e] \in Rows /\ RunOf(e) \in Runs  BY <1>5 DEF Claim
  <2>2. CASE job[at[e]] = "queued"
    <3>1. job' \in [Rows -> Statuses]  BY <1>5, <2>1, <2>2 DEF Claim
    <3>2. stale' \subseteq Runs        BY <1>5, <2>1, <2>2 DEF Claim
    <3>3. QED  BY <1>5, <2>2, <3>1, <3>2 DEF Claim, Goto
  <2>3. CASE job[at[e]] # "queued"
    <3>1. EndExec(e) /\ UNCHANGED <<job, stale>>  BY <1>5, <2>3 DEF Claim
    <3>2. QED  BY <1>5, <3>1 DEF Claim, EndExec
  <2>4. QED  BY <2>2, <2>3
<1>6. ASSUME NEW e \in Execs, Stage(e)
      PROVE  TypeOK' /\ Slots'
  BY <1>6 DEF Stage, Goto
<1>7. ASSUME NEW e \in Execs, StageWork(e)
      PROVE  TypeOK' /\ Slots'
  <2>1. ingestion' \in [Artifacts -> {"captured", "parsed", "extracted", "failed"}]
    BY <1>7, StageSavesType DEF StageWork
  <2>2. out' \in [Execs -> 0..Stages]  BY <1>7 DEF StageWork
  <2>3. amb' \in [Execs -> Verdicts]
    <3>1. UNCHANGED amb \/ \E v \in Verdicts : amb' = [amb EXCEPT ![e] = v]
      BY <1>7 DEF StageWork
    <3>2. CASE UNCHANGED amb  BY <3>2
    <3>3. ASSUME NEW v \in Verdicts, amb' = [amb EXCEPT ![e] = v]
          PROVE  amb' \in [Execs -> Verdicts]
      BY <3>3
    <3>4. QED  BY <3>1, <3>2, <3>3
  <2>4. QED  BY <1>7, <2>1, <2>2, <2>3 DEF StageWork
<1>8. ASSUME NEW e \in Execs, Checkpoint(e)
      PROVE  TypeOK' /\ Slots'
  BY <1>8 DEF Checkpoint
<1>9. ASSUME NEW e \in Execs, Finish(e)
      PROVE  TypeOK' /\ Slots'
  <2>1. job' \in [Rows -> Statuses]     BY <1>9 DEF Finish, SetRow
  <2>2. run' \in [Rows -> RunStatuses]  BY <1>9 DEF Finish, SetRow
  <2>3. QED  BY <1>9, <2>1, <2>2 DEF Finish, EndExec
<1>10. ASSUME NEW e \in Execs, Decompose(e)
       PROVE  TypeOK' /\ Slots'
  BY <1>10 DEF Decompose, Goto
<1>11. ASSUME NEW e \in Execs, DistillBatch(e)
       PROVE  TypeOK' /\ Slots'
  BY <1>11 DEF DistillBatch, SetIngestion, Goto
<1>12. ASSUME NEW e \in Execs, FinishBatch(e)
       PROVE  TypeOK' /\ Slots'
  BY <1>12 DEF FinishBatch, SetRow, EndExec
<1>13. ASSUME NEW e \in Execs, FailRun(e)
       PROVE  TypeOK' /\ Slots'
  BY <1>13 DEF FailRun, Goto
<1>14. ASSUME NEW e \in Execs, FailJob(e)
       PROVE  TypeOK' /\ Slots'
  <2>1. job' \in [Rows -> Statuses]  BY <1>14 DEF FailJob
  <2>2. CASE IsAdmission(e)
    <3>1. Goto(e, "failartifact")  BY <1>14, <2>2 DEF FailJob
    <3>2. QED  BY <1>14, <2>1, <2>2, <3>1 DEF FailJob, Goto
  <2>3. CASE ~IsAdmission(e)
    <3>1. EndExec(e)  BY <1>14, <2>3 DEF FailJob
    <3>2. QED  BY <1>14, <2>1, <3>1 DEF FailJob, EndExec
  <2>4. QED  BY <2>2, <2>3
<1>15. ASSUME NEW e \in Execs, FailArtifact(e)
       PROVE  TypeOK' /\ Slots'
  BY <1>15 DEF FailArtifact, SetIngestion, EndExec
<1>16. ASSUME NEW e \in Execs, StageFails(e)
       PROVE  TypeOK' /\ Slots'
  <2>1. ingestion' \in [Artifacts -> {"captured", "parsed", "extracted", "failed"}]
    BY <1>16, StageSavesType DEF StageFails
  <2>2. faults' \in 0..MaxFaults  BY <1>16 DEF StageFails, Fault
  <2>3. pc[e] \in Working  BY <1>16 DEF StageFails
  <2>4. QED  BY <1>16, <2>1, <2>2, <2>3 DEF StageFails, Goto
<1>17. ASSUME NEW e \in Execs, Crash(e)
       PROVE  TypeOK' /\ Slots'
  BY <1>17 DEF Crash, EndExec, Fault
<1>18. ASSUME NEW w \in Rows, Cancel(w) \/ LoseCancel(w)
       PROVE  TypeOK' /\ Slots'
  BY <1>18 DEF Cancel, LoseCancel, Intervene, Fault
<1>19. ASSUME NEW w \in Rows, SaveCanceled(w)
       PROVE  TypeOK' /\ Slots'
  <2>1. cancels' \in [Rows -> Nat]  BY <1>19 DEF SaveCanceled
  <2>2. job' \in [Rows -> Statuses]  BY <1>19 DEF SaveCanceled
  <2>3. CASE UNCHANGED execVars
    BY <1>19, <2>1, <2>2, <2>3 DEF SaveCanceled
  <2>4. ASSUME NEW e \in Execs, EndExec(e)
        PROVE  TypeOK' /\ Slots'
    <3>4. UNCHANGED <<run, runVars, ingestion, countVars, ghostVars>>
      BY <1>19 DEF SaveCanceled
    <3>1. TypeOK'  BY <2>1, <2>2, <2>4, <3>4 DEF EndExec
    <3>2. Slots'   BY <2>4 DEF EndExec
    <3>3. QED  BY <3>1, <3>2
  <2>5. QED  BY <1>19, <2>3, <2>4 DEF SaveCanceled
<1>20. ASSUME NEW w \in Rows, ReRun(w)
       PROVE  TypeOK' /\ Slots'
  BY <1>20 DEF ReRun, Intervene
<1>21. ASSUME NEW w \in Rows, NEW status \in Statuses \ {"absent"}, Edit(w, status)
       PROVE  TypeOK' /\ Slots'
  BY <1>21 DEF Edit, Intervene
<1>22. ASSUME NEW e \in Execs, Redo(e) \/ Offload(e)
       PROVE  TypeOK' /\ Slots'
  <2>1. /\ UNCHANGED <<rowVars, runVars, ingestion, cancels, countVars, ghostVars>>
        /\ pc[e] \in {"redo", "offload"}
        /\ EndExec(e) \/ Goto(e, "redispatch") \/ Goto(e, "offsave")
    BY <1>22 DEF Redo, Offload
  <2>2. CASE EndExec(e)
    <3>1. TypeOK'  BY <2>1, <2>2 DEF EndExec
    <3>2. Slots'   BY <2>1, <2>2 DEF EndExec
    <3>3. QED  BY <3>1, <3>2
  <2>3. CASE Goto(e, "redispatch") \/ Goto(e, "offsave")
    <3>1. TypeOK'  BY <2>1, <2>3 DEF Goto
    <3>2. Slots'   BY <2>1, <2>3 DEF Goto
    <3>3. QED  BY <3>1, <3>2
  <2>4. QED  BY <2>1, <2>2, <2>3
<1>23. ASSUME NEW e \in Execs, Redispatch(e) \/ OffloadEnds(e)
       PROVE  TypeOK' /\ Slots'
  <2>1. UNCHANGED <<run, runVars, ingestion, cancels, countVars, ghostVars>>
    BY <1>23 DEF Redispatch, OffloadEnds
  <2>2. job' \in [Rows -> Statuses]  BY <1>23 DEF Redispatch, OffloadEnds
  <2>3. CASE Redispatch(e)
    <3>1. pc[e] = "redispatch" /\ Goto(e, "offload")  BY <2>3 DEF Redispatch
    <3>2. TypeOK'  BY <2>1, <2>2, <3>1 DEF Goto
    <3>3. Slots'   BY <2>1, <3>1 DEF Goto
    <3>4. QED  BY <3>2, <3>3
  <2>4. CASE OffloadEnds(e)
    <3>1. EndExec(e)  BY <2>4 DEF OffloadEnds
    <3>2. TypeOK'  BY <2>1, <2>2, <3>1 DEF EndExec
    <3>3. Slots'   BY <2>1, <3>1 DEF EndExec
    <3>4. QED  BY <3>2, <3>3
  <2>5. QED  BY <1>23, <2>3, <2>4
<1>24. CASE UNCHANGED vars
  BY <1>24 DEF vars
<1> HIDE DEF TypeOK, Slots
<1>25. QED
  BY <1>1, <1>2, <1>3, <1>4, <1>5, <1>6, <1>7, <1>8, <1>9, <1>10, <1>11, <1>12,
     <1>13, <1>14, <1>15, <1>16, <1>17, <1>18, <1>19, <1>20, <1>21, <1>22, <1>23,
     <1>24 DEF Next, ExecStep

(***************************************************************************)
(* The lease                                                               *)
(***************************************************************************)

\* What every step does to the marks: it keeps them, no row ever ceases to exist,
\* and what the admin site has put its hand to stays overridden.
Grows ==
    /\ Marks'
    /\ Overridden \subseteq Overridden'
    /\ \A w \in Rows : job'[w] = "absent" => job[w] = "absent"

\* Messages of re-runs and cancels on their way are of rows that were re-run and
\* rows that exist: no row ever ceases to exist, and the admin site forgets nothing.
LEMMA MarksStep ==
    ASSUME TypeOK, Slots, Marks, [Next]_vars
    PROVE  /\ Marks'
           /\ Overridden \subseteq Overridden'
           /\ \A w \in Rows : job'[w] = "absent" => job[w] = "absent"
<1> USE RowFacts, LiveRow
<1> USE DEF Grows, TypeOK, Marks, Working, Redoing, Statuses, Overridden, rowVars,
            runVars, copyVars, execVars, countVars, adminVars, ghostVars
<1>1. ASSUME NEW r \in Runs, Schedule(r) \/ Reschedule(r)
      PROVE  Grows
  <2>1. job' = [job EXCEPT ![Adm(r)] = "queued"] /\ UNCHANGED <<cancels, ghostVars>>
    BY <1>1 DEF Schedule, Reschedule, SetRow
  <2>2. \A e \in Execs : pc'[e] \in Redoing => pc'[e] = pc[e] /\ at'[e] = at[e]
    BY <1>1 DEF Schedule, Reschedule, SendOrLose, Send
  <2>3. QED  BY <2>1, <2>2
<1>2. ASSUME NEW w \in Rows, NEW e \in Execs, Sweep(w, e)
      PROVE  Grows
  BY <1>2 DEF Sweep, Send
<1>3. ASSUME NEW w \in Rows, Cancel(w) \/ LoseCancel(w)
      PROVE  Grows
  BY <1>3 DEF Cancel, LoseCancel
<1>4. ASSUME NEW w \in Rows, SaveCanceled(w)
      PROVE  Grows
  BY <1>4 DEF SaveCanceled, EndExec
<1>5. ASSUME NEW w \in Rows, ReRun(w)
      PROVE  Grows
  BY <1>5 DEF ReRun
<1>6. ASSUME NEW w \in Rows, NEW status \in Statuses \ {"absent"}, Edit(w, status)
      PROVE  Grows
  BY <1>6 DEF Edit
<1>7. ASSUME NEW e \in Execs, Read(e) \/ Claim(e) \/ Stage(e) \/ StageWork(e)
      PROVE  Grows
  BY <1>7 DEF Read, Claim, Stage, StageWork, Goto, EndExec
<1>8. ASSUME NEW e \in Execs, Checkpoint(e) \/ Finish(e) \/ FinishBatch(e)
      PROVE  Grows
  <2>1. UNCHANGED <<cancels, ghostVars>>
    BY <1>8 DEF Checkpoint, Finish, FinishBatch
  <2>2. \A d \in Execs : pc'[d] \in Redoing => pc'[d] = pc[d] /\ at'[d] = at[d]
    BY <1>8 DEF Checkpoint, Finish, FinishBatch, EndExec
  <2>3. \A w \in Rows : job'[w] = job[w] \/ job'[w] \in {"queued", "succeeded"}
    BY <1>8 DEF Checkpoint, Finish, FinishBatch, SetRow
  <2>4. QED  BY <2>1, <2>2, <2>3
<1>9. ASSUME NEW e \in Execs,
             \/ Decompose(e) \/ DistillBatch(e) \/ FailRun(e) \/ FailJob(e)
             \/ FailArtifact(e) \/ StageFails(e) \/ Crash(e)
      PROVE  Grows
  BY <1>9 DEF Decompose, DistillBatch, FailRun, FailJob, FailArtifact, StageFails, Crash,
              Goto, EndExec
<1>10. ASSUME NEW e \in Execs, Redo(e) \/ Redispatch(e) \/ Offload(e) \/ OffloadEnds(e)
       PROVE  Grows
  BY <1>10 DEF Redo, Redispatch, Offload, OffloadEnds, Goto, EndExec
<1>11. ASSUME UNCHANGED vars
       PROVE  Grows
  BY <1>11 DEF vars
<1> HIDE RowFacts, LiveRow
<1> HIDE DEF Grows, TypeOK, Marks, Working, Redoing, Statuses, Overridden, rowVars, runVars,
             copyVars, execVars, countVars, adminVars, ghostVars
<1>12. ASSUME NEW e \in Execs, ExecStep(e) \/ StageFails(e) \/ Crash(e)
       PROVE  Grows
  BY <1>12, <1>7, <1>8, <1>9, <1>10 DEF ExecStep
<1>14. ASSUME NEW w \in Rows, Cancel(w) \/ SaveCanceled(w) \/ LoseCancel(w) \/ ReRun(w)
       PROVE  Grows
  BY <1>14, <1>3, <1>4, <1>5
<1>15. Grows
  BY <1>1, <1>2, <1>14, <1>6, <1>12, <1>11 DEF Next
<1>13. QED  BY <1>15 DEF Grows

\* A step that leaves the runs alone, writes no job but an overridden row's or
\* with a cancel, and brings nobody to a position that holds a row, or to the
\* handler's second statement, keeps the lease.
LEMMA QuietOwned ==
    ASSUME Owned, run' = run, Overridden \subseteq Overridden',
           \A w \in Rows : \/ job'[w] = job[w]
                           \/ w \in Overridden'
                           \/ job'[w] = "canceled",
           \A w \in Rows : job'[w] # "absent" => job[w] # "absent",
           \A e \in Execs : pc'[e] \in Holding =>
               pc[e] \in Holding /\ at'[e] = at[e] /\ at[e] \in Rows,
           \A e \in Execs : pc'[e] = "failjob" => pc[e] = "failjob"
    PROVE  Owned'
<1>1. OneOwner'  BY DEF Owned, OneOwner, Holding
<1>2. Lease' /\ HandlerOrder'
  BY DEF Owned, Lease, HandlerOrder, Holding, Working
<1>3. RowsAgree'  BY DEF Owned, RowsAgree
<1>4. Closed'  BY DEF Owned, Closed, Holding, Working
<1>5. EscalationAfter'  BY RowFacts DEF Owned, EscalationAfter
<1>6. QED  BY <1>1, <1>2, <1>3, <1>4, <1>5 DEF Owned

\* The compare-and-set admits one holder, every statement of the holder keeps the
\* two rows in step, and the success creates the escalation of a row of its own.
LEMMA OwnedStep ==
    ASSUME TypeOK, Slots, TypeOK', Marks, Owned, [Next]_vars
    PROVE  Owned'
<1> USE RowFacts, LiveRow
<1> USE DEF TypeOK, Holding, Working
<1>0. Overridden \subseteq Overridden'  BY MarksStep
<1> USE <1>0
<1>1. ASSUME NEW r \in Runs, Schedule(r) \/ Reschedule(r)
      PROVE  Owned'
  <2>1. /\ job[Adm(r)] \in {"absent", "failed"}
        /\ job' = [job EXCEPT ![Adm(r)] = "queued"]
        /\ run' = [run EXCEPT ![Adm(r)] = "queued"]
    BY <1>1 DEF Schedule, Reschedule, SetRow
  <2>2. \A e \in Execs : pc'[e] \in Holding =>
             pc[e] \in Holding /\ at'[e] = at[e] /\ pc'[e] = pc[e]
    BY <1>1 DEF Schedule, Reschedule, SendOrLose, Send, execVars, copyVars
  <2>3. \A e \in Execs : pc[e] \in Holding /\ Adm(r) \notin Overridden => at[e] # Adm(r)
    BY <2>1 DEF Owned, Lease
  <2>4. Adm(r) \notin Overridden => run[Adm(r)] # "succeeded"
    BY <2>1 DEF Owned, RowsAgree
  <2>5. OneOwner'        BY <2>2 DEF Owned, OneOwner
  <2>6. Lease'           BY <2>1, <2>2, <2>3 DEF Owned, Lease
  <2>7. HandlerOrder'    BY <2>1, <2>2, <2>3 DEF Owned, HandlerOrder
  <2>8. RowsAgree'       BY <2>1 DEF Owned, RowsAgree
  <2>9. Closed'          BY <2>1, <2>2 DEF Owned, Closed
  <2>10. EscalationAfter' BY <2>1, <2>4 DEF Owned, EscalationAfter
  <2>11. QED  BY <2>5, <2>6, <2>7, <2>8, <2>9, <2>10 DEF Owned
<1>2. ASSUME NEW w \in Rows, NEW e \in Execs, Sweep(w, e)
      PROVE  Owned'
  BY <1>2, QuietOwned DEF Sweep, Send, rowVars
<1>3. ASSUME NEW e \in Execs, Read(e)
      PROVE  Owned'
  BY <1>3, QuietOwned DEF Read, rowVars
<1>4. ASSUME NEW e \in Execs, Claim(e)
      PROVE  Owned'
  <2>1. CASE job[at[e]] = "queued"
    <3>1. /\ at[e] \in Rows /\ at' = at /\ run' = run
          /\ job' = [job EXCEPT ![at[e]] = "running"]
          /\ \A d \in Execs : d # e => pc'[d] = pc[d]
          /\ pc'[e] \in {"stage", "batch"}
      BY <1>4, <2>1 DEF Claim, Goto
    <3>2. \A d \in Execs : d # e /\ pc[d] \in Holding => at[d] # at[e] \/ at[e] \in Overridden
      BY <2>1 DEF Owned, Lease
    <3>3. at[e] \notin Overridden => run[at[e]] # "succeeded"
      BY <2>1, <3>1 DEF Owned, RowsAgree
    <3>4. OneOwner'
      <4> SUFFICES ASSUME NEW a \in Execs, NEW b \in Execs, a # b, at[a] = at[b],
                          pc'[a] \in Holding, pc'[b] \in Holding
                   PROVE  at[b] \in Overridden
        BY <3>1 DEF OneOwner
      <4>1. CASE a = e  BY <3>1, <3>2, <4>1
      <4>2. CASE b = e  BY <3>1, <3>2, <4>2
      <4>3. CASE a # e /\ b # e  BY <3>1, <4>3 DEF Owned, OneOwner
      <4>4. QED  BY <4>1, <4>2, <4>3
    <3>5. Lease'           BY <3>1 DEF Owned, Lease
    <3>6. HandlerOrder'    BY <3>1 DEF Owned, HandlerOrder
    <3>7. RowsAgree'       BY <3>1 DEF Owned, RowsAgree
    <3>8. Closed'          BY <3>1, <3>3 DEF Owned, Closed
    <3>9. EscalationAfter' BY <3>1, <2>1 DEF Owned, EscalationAfter
    <3>10. QED  BY <3>4, <3>5, <3>6, <3>7, <3>8, <3>9 DEF Owned
  <2>2. CASE job[at[e]] # "queued"
    <3>1. EndExec(e) /\ UNCHANGED rowVars  BY <1>4, <2>2 DEF Claim, rowVars
    <3>2. QED  BY <3>1, QuietOwned DEF EndExec, rowVars
  <2>3. QED  BY <2>1, <2>2
<1>5. ASSUME NEW e \in Execs, Stage(e) \/ Decompose(e)
      PROVE  Owned'
  <2>1. /\ at[e] \in Rows /\ at' = at /\ job' = job
        /\ run' = [run EXCEPT ![at[e]] = "stage"]
        /\ \A d \in Execs : d # e => pc'[d] = pc[d]
        /\ pc[e] \in Holding /\ pc[e] # "failjob" /\ pc'[e] \in {"work", "distill"}
    BY <1>5 DEF Stage, Decompose, Goto
  <2>2. at[e] \notin Overridden => /\ job[at[e]] \in {"running", "canceled"}
                                   /\ run[at[e]] # "succeeded"
    BY <2>1 DEF Owned, Lease, Closed
  <2> HIDE RowFacts, LiveRow
  <2>10. \A d \in Execs : pc'[d] \in Holding => pc[d] \in Holding
    BY <2>1
  <2>3. OneOwner'  BY <2>1, <2>10 DEF Owned, OneOwner
  <2> USE RowFacts, LiveRow
  <2>4. Lease'  BY <2>1 DEF Owned, Lease
  <2>5. HandlerOrder'  BY <2>1 DEF Owned, HandlerOrder, OneOwner
  <2>6. RowsAgree'  BY <2>1, <2>2 DEF Owned, RowsAgree
  <2>7. Closed'  BY <2>1, <2>10 DEF Owned, Closed
  <2>8. EscalationAfter'  BY <2>1, <2>2 DEF Owned, EscalationAfter
  <2>9. QED  BY <2>3, <2>4, <2>5, <2>6, <2>7, <2>8 DEF Owned
<1>6. ASSUME NEW e \in Execs, StageWork(e)
      PROVE  Owned'
  BY <1>6, QuietOwned DEF StageWork, rowVars
<1>7. ASSUME NEW e \in Execs, Checkpoint(e)
      PROVE  Owned'
  BY <1>7, QuietOwned DEF Checkpoint, rowVars
<1>8. ASSUME NEW e \in Execs, Finish(e) \/ FinishBatch(e)
      PROVE  Owned'
  <2>1. /\ at[e] \in Rows /\ at' = [at EXCEPT ![e] = NoRow]
        /\ pc[e] \in Holding /\ pc'[e] = "free" /\ pc[e] # "failjob"
        /\ \A d \in Execs : d # e => pc'[d] = pc[d]
    BY <1>8 DEF Finish, FinishBatch, EndExec
  <2>2. at[e] \notin Overridden => run[at[e]] # "succeeded"
    BY <2>1 DEF Owned, Closed
  <2>3. \A d \in Execs : d # e /\ pc[d] \in Holding => at[d] # at[e] \/ at[e] \in Overridden
    BY <2>1 DEF Owned, OneOwner
  <2>4. OneOwner'  BY <2>1, <2>3 DEF Owned, OneOwner
  <2>5. CASE /\ job' = [job EXCEPT ![at[e]] = "succeeded"]
             /\ run' = [run EXCEPT ![at[e]] = "succeeded"]
             /\ at[e] = Adm(RunOf(e)) \/ job[at[e]] # "absent"
    <3>1. Lease'           BY <2>1, <2>3, <2>5 DEF Owned, Lease
    <3>2. HandlerOrder'    BY <2>1, <2>3, <2>5 DEF Owned, HandlerOrder
    <3>3. RowsAgree'       BY <2>1, <2>5 DEF Owned, RowsAgree
    <3>4. Closed'          BY <2>1, <2>3, <2>5 DEF Owned, Closed
    <3>5. EscalationAfter' BY <2>1, <2>2, <2>5 DEF Owned, EscalationAfter
    <3>6. QED  BY <2>4, <3>1, <3>2, <3>3, <3>4, <3>5 DEF Owned
  <2>6. CASE /\ at[e] = Adm(RunOf(e)) /\ Schedulable(RunOf(e))
             /\ job' = [job EXCEPT ![at[e]] = "succeeded", ![Esc(RunOf(e))] = "queued"]
             /\ run' = [run EXCEPT ![at[e]] = "succeeded", ![Esc(RunOf(e))] = "queued"]
    <3>1. RunOf(e) \in Runs  BY <2>1
    <3> DEFINE x == Esc(RunOf(e))
    <3>2. x \in Rows /\ x # at[e] /\ job[x] \in {"absent", "failed"}
      BY <2>6, <3>1 DEF Schedulable
    <3>14. \A d \in Execs : pc[d] \in Holding /\ at[d] \notin Overridden =>
            job[at[d]] \in {"running", "canceled"}
      BY DEF Owned, Lease
    <3>3. x \notin Overridden => \A d \in Execs : pc[d] \in Holding => at[d] # x
      BY <3>2, <3>14
    <3>4. \A w \in Rows : w # at[e] /\ w # x => job'[w] = job[w] /\ run'[w] = run[w]
      BY <2>6
    <3>5. /\ job'[at[e]] = "succeeded" /\ run'[at[e]] = "succeeded"
          /\ job'[x] = "queued" /\ run'[x] = "queued"
      BY <2>1, <2>6, <3>2
    <3>6. \A r \in Runs : (Adm(r) = at[e] <=> r = RunOf(e)) /\ (Esc(r) = x <=> r = RunOf(e))
                          /\ Adm(r) # x /\ Esc(r) # at[e]
      BY <2>6, <3>1
    <3> HIDE DEF x
    <3>7. \A d \in Execs : pc'[d] \in Holding =>
            d # e /\ pc[d] \in Holding /\ at'[d] = at[d] /\ pc'[d] = pc[d] /\ at[d] \in Rows
      BY <2>1
    <3> HIDE RowFacts, LiveRow
    <3>8. Lease'           BY <2>3, <3>3, <3>4, <3>7 DEF Owned, Lease
    <3>9. HandlerOrder'    BY <2>3, <3>3, <3>4, <3>7 DEF Owned, HandlerOrder
    <3>10. RowsAgree'       BY <3>4, <3>5 DEF Owned, RowsAgree
    <3>11. Closed'          BY <2>3, <3>4, <3>5, <3>7 DEF Owned, Closed
    <3>12. EscalationAfter'
      <4> SUFFICES ASSUME NEW r \in Runs, Adm(r) \notin Overridden', job'[Esc(r)] # "absent"
                   PROVE  run'[Adm(r)] = "succeeded"
        BY DEF EscalationAfter
      <4>1. CASE r = RunOf(e)  BY <3>5, <3>6, <4>1
      <4>2. CASE r # RunOf(e)
        <5>1. /\ Adm(r) \in Rows /\ Adm(r) # at[e] /\ Adm(r) # x
              /\ Esc(r) \in Rows /\ Esc(r) # at[e] /\ Esc(r) # x
          BY <3>6, <4>2, RowFacts
        <5>2. job'[Esc(r)] = job[Esc(r)] /\ run'[Adm(r)] = run[Adm(r)]
          BY <3>4, <5>1
        <5>3. QED  BY <5>2 DEF Owned, EscalationAfter
      <4>3. QED  BY <4>1, <4>2
    <3>13. QED  BY <2>4, <3>8, <3>9, <3>10, <3>11, <3>12 DEF Owned
  <2>7. CASE Finish(e)
    <3>1. at[e] = Adm(RunOf(e))  BY <2>7 DEF Finish, Slots
    <3>2. QED  BY <2>5, <2>6, <2>7, <3>1 DEF Finish, SetRow
  <2>8. CASE FinishBatch(e)
    <3>1. job[at[e]] # "absent"
      BY <2>1 DEF Owned, Lease, Marks
    <3>2. QED  BY <2>5, <2>8, <3>1 DEF FinishBatch, SetRow
  <2>9. QED  BY <1>8, <2>7, <2>8
<1>9. ASSUME NEW e \in Execs, DistillBatch(e)
      PROVE  Owned'
  BY <1>9, QuietOwned DEF DistillBatch, Goto, rowVars
<1>10. ASSUME NEW e \in Execs, FailRun(e)
       PROVE  Owned'
  <2>1. /\ at[e] \in Rows /\ at' = at /\ job' = job
        /\ run' = [run EXCEPT ![at[e]] = "failed"]
        /\ \A d \in Execs : d # e => pc'[d] = pc[d]
        /\ pc[e] = "fail" /\ pc[e] \in Holding /\ pc'[e] = "failjob"
    BY <1>10 DEF FailRun, Goto
  <2>2. at[e] \notin Overridden => /\ job[at[e]] \in {"running", "canceled"}
                                   /\ run[at[e]] # "succeeded"
    BY <2>1 DEF Owned, Lease, Closed
  <2>3. \A d \in Execs : pc'[d] \in Holding => pc[d] \in Holding
    BY <2>1
  <2>4. OneOwner'  BY <2>1, <2>3 DEF Owned, OneOwner
  <2>5. Lease'  BY <2>1 DEF Owned, Lease
  <2>6. HandlerOrder'  BY <2>1 DEF Owned, HandlerOrder
  <2>7. RowsAgree'  BY <2>1, <2>2 DEF Owned, RowsAgree
  <2>8. Closed'  BY <2>1, <2>3 DEF Owned, Closed
  <2>9. EscalationAfter'  BY <2>1, <2>2 DEF Owned, EscalationAfter
  <2>10. QED  BY <2>4, <2>5, <2>6, <2>7, <2>8, <2>9 DEF Owned
<1>11. ASSUME NEW e \in Execs, FailJob(e)
       PROVE  Owned'
  <2>1. /\ at[e] \in Rows
        /\ job' = [job EXCEPT ![at[e]] = "failed"] /\ run' = run
        /\ \A d \in Execs : d # e => pc'[d] = pc[d] /\ at'[d] = at[d]
        /\ pc[e] = "failjob" /\ pc[e] \in Holding /\ pc'[e] \in {"failartifact", "free"}
    BY <1>11 DEF FailJob, Goto, EndExec
  <2>2. at[e] \notin Overridden => /\ job[at[e]] \in {"running", "canceled"}
                                   /\ run[at[e]] = "failed"
    BY <2>1 DEF Owned, Lease, HandlerOrder
  <2>3. \A d \in Execs : d # e /\ pc[d] \in Holding => at[d] # at[e] \/ at[e] \in Overridden
    BY <2>1 DEF Owned, OneOwner
  <2>11. job[at[e]] # "absent"  BY <2>1, <2>2 DEF Marks
  <2>4. OneOwner'  BY <2>1, <2>3 DEF Owned, OneOwner
  <2>5. Lease'  BY <2>1, <2>3 DEF Owned, Lease
  <2>6. HandlerOrder'  BY <2>1, <2>3 DEF Owned, HandlerOrder
  <2>7. RowsAgree'  BY <2>1, <2>2 DEF Owned, RowsAgree
  <2>8. Closed'  BY <2>1, <2>2 DEF Owned, Closed
  <2>9. EscalationAfter'  BY <2>1, <2>11 DEF Owned, EscalationAfter
  <2>10. QED  BY <2>4, <2>5, <2>6, <2>7, <2>8, <2>9 DEF Owned
<1>12. ASSUME NEW e \in Execs, FailArtifact(e)
       PROVE  Owned'
  BY <1>12, QuietOwned DEF FailArtifact, EndExec, rowVars
<1>13. ASSUME NEW e \in Execs, StageFails(e)
       PROVE  Owned'
  BY <1>13, QuietOwned DEF StageFails, Goto, rowVars
<1>14. ASSUME NEW e \in Execs, Crash(e)
       PROVE  Owned'
  BY <1>14, QuietOwned DEF Crash, EndExec, rowVars
<1>15. ASSUME NEW w \in Rows, Cancel(w) \/ LoseCancel(w)
       PROVE  Owned'
  BY <1>15, QuietOwned DEF Cancel, LoseCancel, execVars, rowVars
<1>16. ASSUME NEW w \in Rows, SaveCanceled(w)
       PROVE  Owned'
  <2>1. /\ job' = [job EXCEPT ![w] = "canceled"] /\ run' = run
        /\ job[w] # "absent"
    BY <1>16 DEF SaveCanceled, Marks
  <2>2. \A e \in Execs : pc'[e] \in Holding => pc'[e] = pc[e] /\ at'[e] = at[e]
    BY <1>16 DEF SaveCanceled, EndExec, execVars
  <2>3. QED  BY <2>1, <2>2, QuietOwned
<1>17. ASSUME NEW w \in Rows, NEW s \in Statuses,
              /\ job' = [job EXCEPT ![w] = s] /\ run' = run
              /\ job[w] # "absent" /\ w \in Overridden'
              /\ \A e \in Execs : pc'[e] \in Holding => pc'[e] = pc[e] /\ at'[e] = at[e]
       PROVE  Owned'
  BY <1>17, QuietOwned
<1>18. ASSUME NEW w \in Rows, ReRun(w)
       PROVE  Owned'
  <2>1. \A e \in Execs : pc'[e] \in Holding => pc'[e] = pc[e] /\ at'[e] = at[e]
    BY <1>18 DEF ReRun, execVars
  <2>2. QED  BY <1>17, <1>18, <2>1 DEF ReRun, Statuses, Overridden
<1>19. ASSUME NEW w \in Rows, NEW status \in Statuses \ {"absent"}, Edit(w, status)
       PROVE  Owned'
  <2>1. \A e \in Execs : pc'[e] \in Holding => pc'[e] = pc[e] /\ at'[e] = at[e]
    BY <1>19 DEF Edit, execVars
  <2>2. QED  BY <1>17, <1>19, <2>1 DEF Edit, Overridden
<1>20. ASSUME NEW e \in Execs, Redo(e) \/ Offload(e)
       PROVE  Owned'
  <2>1. UNCHANGED rowVars  BY <1>20 DEF Redo, Offload
  <2>2. \A d \in Execs : pc'[d] \in Holding => pc'[d] = pc[d] /\ at'[d] = at[d]
    BY <1>20 DEF Redo, Offload, Goto, EndExec
  <2>3. QED  BY <2>1, <2>2, QuietOwned DEF rowVars
<1>21. ASSUME NEW e \in Execs, Redispatch(e) \/ OffloadEnds(e)
       PROVE  Owned'
  <2>1. /\ at[e] \in Rows /\ at[e] \in rerun /\ run' = run
        /\ \E s \in Statuses : job' = [job EXCEPT ![at[e]] = s]
    BY <1>21 DEF Redispatch, OffloadEnds, Marks, Redoing, Statuses
  <2>2. \A d \in Execs : pc'[d] \in Holding => pc'[d] = pc[d] /\ at'[d] = at[d]
    BY <1>21 DEF Redispatch, OffloadEnds, Goto, EndExec
  <2>3. job[at[e]] # "absent" /\ at[e] \in Overridden'
    BY <2>1 DEF Marks, Overridden
  <2>4. PICK s \in Statuses : job' = [job EXCEPT ![at[e]] = s]
    BY <2>1
  <2>5. QED  BY <1>17, <2>1, <2>2, <2>3, <2>4
<1>22. CASE UNCHANGED vars
  BY <1>22, QuietOwned DEF vars, execVars, rowVars
<1> HIDE DEF TypeOK
<1>23. QED
  BY <1>1, <1>2, <1>3, <1>4, <1>5, <1>6, <1>7, <1>8, <1>9, <1>10, <1>11, <1>12,
     <1>13, <1>14, <1>15, <1>16, <1>18, <1>19, <1>20, <1>21, <1>22 DEF Next, ExecStep

(***************************************************************************)
(* Who attends a running job                                               *)
(***************************************************************************)

\* A step that starts no job, and ends no holder but with its job or by a crash,
\* leaves every running job attended.
LEMMA QuietAttended ==
    ASSUME TypeOK, Slots, Attended, crashed \cup edited \subseteq (crashed \cup edited)',
           \A w \in Rows : job'[w] = "running" => job[w] = "running" \/ w \in edited',
           \A e \in Execs : pc[e] \in Attending =>
               \/ pc'[e] \in Attending /\ at'[e] = at[e]
               \/ job'[at[e]] # "running"
               \/ at[e] \in crashed'
    PROVE  Attended'
BY DEF Attended

\* Every action keeps a running job attended: a claim starts it with a holder,
\* and a holder ends with the job's terminal status or by a crash.
LEMMA AttendedStep ==
    ASSUME TypeOK, Slots, Attended, [Next]_vars
    PROVE  Attended'
<1> USE RowFacts, LiveRow, QuietAttended
<1> USE DEF TypeOK, Attending, Holding, Working, rowVars, runVars, copyVars, execVars, countVars,
            adminVars, ghostVars
<1>1. ASSUME NEW r \in Runs, Schedule(r) \/ Reschedule(r)
      PROVE  Attended'
  <2>1. /\ \A w \in Rows : job'[w] = "running" => job[w] = "running"
        /\ UNCHANGED <<crashed, edited>>
    BY <1>1 DEF Schedule, Reschedule, SetRow
  <2>2. \A e \in Execs : pc[e] \in Attending => pc'[e] \in Attending /\ at'[e] = at[e]
    BY <1>1 DEF Schedule, Reschedule, SendOrLose, Send
  <2>3. QED  BY <2>1, <2>2
<1>2. ASSUME NEW w \in Rows, NEW e \in Execs, Sweep(w, e)
      PROVE  Attended'
  BY <1>2 DEF Sweep, Send
<1>3. ASSUME NEW e \in Execs, Read(e)
      PROVE  Attended'
  BY <1>3 DEF Read
<1>4. ASSUME NEW e \in Execs, Claim(e)
      PROVE  Attended'
  <2>1. CASE job[at[e]] = "queued"
    <3>1. /\ at' = at /\ UNCHANGED <<crashed, edited>>
          /\ job' = [job EXCEPT ![at[e]] = "running"]
          /\ \A d \in Execs : d # e => pc'[d] = pc[d]
          /\ pc[e] \notin Attending /\ pc'[e] \in Attending
      BY <1>4, <2>1 DEF Claim, Goto
    <3>2. QED  BY <3>1 DEF Attended
  <2>2. CASE job[at[e]] # "queued"
    <3>1. EndExec(e) /\ UNCHANGED <<job, crashed, edited>>  BY <1>4, <2>2 DEF Claim
    <3>2. pc[e] \notin Attending  BY <1>4 DEF Claim
    <3>3. QED  BY <3>1, <3>2 DEF EndExec
  <2>3. QED  BY <2>1, <2>2
<1>5. ASSUME NEW e \in Execs, Stage(e) \/ Decompose(e) \/ DistillBatch(e) \/ FailRun(e)
      PROVE  Attended'
  <2>1. UNCHANGED <<job, crashed, edited, at>>
    BY <1>5 DEF Stage, Decompose, DistillBatch, FailRun, Goto
  <2>2. \A d \in Execs : pc[d] \in Attending => pc'[d] \in Attending
    BY <1>5 DEF Stage, Decompose, DistillBatch, FailRun, Goto
  <2>3. QED  BY <2>1, <2>2
<1>6. ASSUME NEW e \in Execs, StageWork(e)
      PROVE  Attended'
  BY <1>6 DEF StageWork
<1>7. ASSUME NEW e \in Execs, Checkpoint(e)
      PROVE  Attended'
  BY <1>7 DEF Checkpoint
<1>8. ASSUME NEW e \in Execs, Finish(e) \/ FinishBatch(e)
      PROVE  Attended'
  <2>1. /\ EndExec(e) /\ UNCHANGED <<crashed, edited>>
        /\ \A w \in Rows : job'[w] = "running" => job[w] = "running"
    BY <1>8 DEF Finish, FinishBatch, SetRow
  <2>2. job'[at[e]] # "running"
    BY <1>8 DEF Finish, FinishBatch, SetRow, Slots
  <2>3. QED  BY <2>1, <2>2 DEF EndExec
<1>9. ASSUME NEW e \in Execs, FailJob(e)
      PROVE  Attended'
  <2>1. /\ \A d \in Execs : d # e => pc'[d] = pc[d] /\ at'[d] = at[d]
        /\ UNCHANGED <<crashed, edited>> /\ at[e] \in Rows
        /\ job' = [job EXCEPT ![at[e]] = "failed"]
    BY <1>9 DEF FailJob, Goto, EndExec
  <2>2. QED  BY <2>1
<1>10. ASSUME NEW e \in Execs, FailArtifact(e)
       PROVE  Attended'
  BY <1>10 DEF FailArtifact, EndExec
<1>11. ASSUME NEW e \in Execs, StageFails(e)
       PROVE  Attended'
  <2>1. UNCHANGED <<job, crashed, edited, at>>  BY <1>11 DEF StageFails, Goto
  <2>2. \A d \in Execs : pc[d] \in Attending => pc'[d] \in Attending
    BY <1>11 DEF StageFails, Goto
  <2>3. QED  BY <2>1, <2>2
<1>12. ASSUME NEW e \in Execs, Crash(e)
       PROVE  Attended'
  BY <1>12 DEF Crash, EndExec
<1>13. ASSUME NEW w \in Rows, Cancel(w) \/ LoseCancel(w)
       PROVE  Attended'
  BY <1>13 DEF Cancel, LoseCancel
<1>14. ASSUME NEW w \in Rows, SaveCanceled(w)
       PROVE  Attended'
  <2>1. job' = [job EXCEPT ![w] = "canceled"] /\ UNCHANGED <<crashed, edited>>
    BY <1>14 DEF SaveCanceled
  <2>2. \A e \in Execs : pc[e] \in Attending => pc'[e] \in Attending /\ at'[e] = at[e]
    BY <1>14 DEF SaveCanceled, EndExec
  <2>3. QED  BY <2>1, <2>2
<1>15. ASSUME NEW w \in Rows, ReRun(w)
       PROVE  Attended'
  <2>1. job' = [job EXCEPT ![w] = "queued"] /\ UNCHANGED <<crashed, edited>>
    BY <1>15 DEF ReRun
  <2>2. \A e \in Execs : pc[e] \in Attending => pc'[e] \in Attending /\ at'[e] = at[e]
    BY <1>15 DEF ReRun
  <2>3. QED  BY <2>1, <2>2
<1>16. ASSUME NEW w \in Rows, NEW status \in Statuses \ {"absent"}, Edit(w, status)
       PROVE  Attended'
  BY <1>16 DEF Edit
<1>17. ASSUME NEW e \in Execs, Redo(e)
       PROVE  Attended'
  BY <1>17 DEF Redo, Goto, EndExec
<1>18. ASSUME NEW e \in Execs, Redispatch(e)
       PROVE  Attended'
  <2>1. /\ at' = at /\ UNCHANGED <<crashed, edited>>
        /\ job' = [job EXCEPT ![at[e]] = "running"]
        /\ \A d \in Execs : d # e => pc'[d] = pc[d]
        /\ pc[e] \notin Attending /\ pc'[e] \in Attending
    BY <1>18 DEF Redispatch, Goto
  <2>2. QED  BY <2>1 DEF Attended
<1>19. ASSUME NEW e \in Execs, Offload(e)
       PROVE  Attended'
  BY <1>19 DEF Offload, Goto, EndExec
<1>20. ASSUME NEW e \in Execs, OffloadEnds(e)
       PROVE  Attended'
  <2>1. /\ \A d \in Execs : d # e => pc'[d] = pc[d] /\ at'[d] = at[d]
        /\ UNCHANGED <<crashed, edited>> /\ at[e] \in Rows
    BY <1>20 DEF OffloadEnds, EndExec
  <2>2. job'[at[e]] # "running" /\ \A w \in Rows : w # at[e] => job'[w] = job[w]
    BY <1>20, <2>1 DEF OffloadEnds
  <2>3. QED  BY <2>1, <2>2
<1>21. CASE UNCHANGED vars
  BY <1>21 DEF vars
<1> HIDE DEF TypeOK
<1>22. QED
  BY <1>1, <1>2, <1>3, <1>4, <1>5, <1>6, <1>7, <1>8, <1>9, <1>10, <1>11, <1>12,
     <1>13, <1>14, <1>15, <1>16, <1>17, <1>18, <1>19, <1>20, <1>21 DEF Next, ExecStep

(***************************************************************************)
(* Copies of a run                                                         *)
(***************************************************************************)

\* A step that saves no run, reads none and claims none leaves the copies as
\* good as they were.
LEMMA QuietCopies ==
    ASSUME Copies, UNCHANGED <<runVars, stale>>, Overridden \subseteq Overridden',
           \A e \in Execs : pc'[e] = "read" \/ pc'[e] \in Holding =>
               /\ pc[e] = "read" <=> pc'[e] = "read"
               /\ pc[e] \in Holding <=> pc'[e] \in Holding
               /\ pc'[e] \in {"stage", "check"} => pc'[e] = pc[e]
               /\ at'[e] = at[e] /\ hist'[e] = hist[e] /\ out'[e] = out[e]
               /\ amb'[e] = amb[e]
    PROVE  Copies'
<1>1. \A r \in Runs : Reliable(r)' => history'[r] <= output'[r]
  BY DEF Copies, Reliable, runVars
<1>2. ASSUME NEW e \in Execs, IsAdmission(e)', Reliable(RunOf(e))'
      PROVE  /\ pc'[e] = "read" => Behind(e)'
             /\ pc'[e] \in Holding => InStep(e)'
  <2>1. CASE pc'[e] = "read"
    BY <1>2, <2>1 DEF Copies, Behind, IsAdmission, RunOf, Reliable, runVars,
       Holding, Working
  <2>2. CASE pc'[e] \in Holding
    BY <1>2, <2>2 DEF Copies, InStep, IsAdmission, RunOf, Reliable, runVars,
       Holding, Working
  <2>3. QED  BY <2>1, <2>2
<1>3. Holding' = Holding  BY DEF Holding, Working
<1>4. QED  BY <1>1, <1>2, <1>3 DEF Copies

\* A stage adds its result to what the copy holds, or finds it there.
LEMMA NextResult ==
    ASSUME NEW e \in Execs, hist[e] \in Nat, out[e] \in Nat, hist[e] <= out[e],
           out'[e] = IF out[e] = hist[e] THEN out[e] + 1 ELSE out[e]
    PROVE  hist[e] <= out'[e] /\ out'[e] > hist[e]
<1>1. CASE out[e] = hist[e]
  <2>1. out'[e] = out[e] + 1  BY <1>1
  <2>2. QED  BY <1>1, <2>1
<1>2. CASE out[e] # hist[e]
  <2>1. out'[e] = out[e]  BY <1>2
  <2>2. QED  BY <1>2, <2>1
<1>3. QED  BY <1>1, <1>2

\* While a run has not been claimed with an outdated copy, every step keeps the
\* copies of its executions, and its own output, in step with its history.
LEMMA CopiesStep ==
    ASSUME TypeOK, Slots, Marks, Owned, Copies, [Next]_vars
    PROVE  Copies'
<1> USE ConstantsAssumption, RowFacts, LiveRow
<1>0. Overridden \subseteq Overridden'  BY MarksStep
<1> USE <1>0
<1> USE DEF TypeOK, Holding, Working, Reliable, rowVars, runVars, copyVars, execVars, countVars,
            adminVars, ghostVars
<1>1. ASSUME NEW r \in Runs, Schedule(r) \/ Reschedule(r)
      PROVE  Copies'
  <2>1. UNCHANGED <<runVars, stale, hist, out, amb>>
    BY <1>1 DEF Schedule, Reschedule, SendOrLose, Send
  <2>2. \A e \in Execs : pc'[e] # "sent" => pc'[e] = pc[e] /\ at'[e] = at[e]
    BY <1>1 DEF Schedule, Reschedule, SendOrLose, Send
  <2>3. QED  BY <2>1, <2>2, QuietCopies
<1>2. ASSUME NEW w \in Rows, NEW e \in Execs, Sweep(w, e)
      PROVE  Copies'
  BY <1>2, QuietCopies DEF Sweep, Send
<1>3. ASSUME NEW e \in Execs, Read(e)
      PROVE  Copies'
  <2>1. /\ UNCHANGED <<runVars, stale, at>>
        /\ \A d \in Execs : d # e => /\ pc'[d] = pc[d] /\ hist'[d] = hist[d]
                                     /\ out'[d] = out[d] /\ amb'[d] = amb[d]
        /\ pc'[e] = "read"
    BY <1>3 DEF Read
  <2>2. IsAdmission(e) => /\ RunOf(e) \in Runs
                          /\ hist'[e] = history[RunOf(e)]
                          /\ out'[e] = output[RunOf(e)]
                          /\ amb'[e] = ambiguous[RunOf(e)]
    BY <1>3 DEF Read
  <2>3. ASSUME NEW d \in Execs, IsAdmission(d)', Reliable(RunOf(d))'
        PROVE  /\ pc'[d] = "read" => Behind(d)'
               /\ pc'[d] \in Holding => InStep(d)'
    <3>1. CASE d = e
      BY <2>1, <2>2, <2>3, <3>1 DEF Copies, Behind, IsAdmission, RunOf
    <3>2. CASE d # e
      BY <2>1, <2>3, <3>2 DEF Copies, Behind, InStep, IsAdmission, RunOf
    <3>3. QED  BY <3>1, <3>2
  <2>4. QED  BY <2>1, <2>3 DEF Copies
<1>4. ASSUME NEW e \in Execs, Claim(e)
      PROVE  Copies'
  <2>1. CASE job[at[e]] = "queued"
    <3>1. /\ UNCHANGED <<runVars, at, hist, out, amb>> /\ stale \subseteq stale'
          /\ \A d \in Execs : d # e => pc'[d] = pc[d]
          /\ pc[e] = "read"
          /\ IsAdmission(e) /\ Reliable(RunOf(e))' =>
               hist[e] = history[RunOf(e)] /\ pc'[e] = "stage"
      <4>1. /\ UNCHANGED <<runVars, at, hist, out, amb>> /\ stale \subseteq stale'
            /\ \A d \in Execs : d # e => pc'[d] = pc[d]
            /\ pc[e] = "read"
        BY <1>4, <2>1 DEF Claim, Goto
      <4>2. IsAdmission(e) => pc'[e] = "stage"
        BY <1>4, <2>1 DEF Claim, Goto
      <4>3. IsAdmission(e) /\ hist[e] # history[RunOf(e)] => RunOf(e) \in stale'
        BY <1>4, <2>1 DEF Claim
      <4>4. IsAdmission(e) /\ Reliable(RunOf(e))' => RunOf(e) \notin stale'
        BY <4>1 DEF RunOf
      <4>5. QED  BY <4>1, <4>2, <4>3, <4>4
    <3>2. ASSUME NEW d \in Execs, IsAdmission(d)', Reliable(RunOf(d))'
          PROVE  /\ pc'[d] = "read" => Behind(d)'
                 /\ pc'[d] \in Holding => InStep(d)'
      <4>1. CASE d = e
        BY <3>1, <3>2, <4>1 DEF Copies, Behind, InStep, IsAdmission, RunOf
      <4>2. CASE d # e
        BY <3>1, <3>2, <4>2 DEF Copies, Behind, InStep, IsAdmission, RunOf
      <4>3. QED  BY <4>1, <4>2
    <3>3. QED  BY <3>1, <3>2 DEF Copies
  <2>2. CASE job[at[e]] # "queued"
    <3>1. EndExec(e) /\ UNCHANGED <<runVars, stale>>  BY <1>4, <2>2 DEF Claim
    <3>2. QED  BY <3>1, QuietCopies DEF EndExec
  <2>3. QED  BY <2>1, <2>2
<1>5. ASSUME NEW e \in Execs,
             Stage(e) \/ Decompose(e) \/ DistillBatch(e) \/ StageFails(e)
      PROVE  Copies'
  <2>1. UNCHANGED <<runVars, stale, at, hist, out, amb>>
    BY <1>5 DEF Stage, Decompose, DistillBatch, StageFails, Goto
  <2>2. /\ \A d \in Execs : d # e => pc'[d] = pc[d]
        /\ pc[e] \in Holding /\ pc'[e] \in {"work", "distill", "close", "fail"}
    BY <1>5 DEF Stage, Decompose, DistillBatch, StageFails, Goto
  <2>3. QED  BY <2>1, <2>2, QuietCopies
<1>6. ASSUME NEW e \in Execs, StageWork(e)
      PROVE  Copies'
  <2>1. /\ UNCHANGED <<runVars, stale, at, hist>>
        /\ \A d \in Execs : d # e => pc'[d] = pc[d] /\ out'[d] = out[d] /\ amb'[d] = amb[d]
        /\ pc[e] = "work" /\ pc'[e] = "check"
        /\ out'[e] = IF out[e] = hist[e] THEN out[e] + 1 ELSE out[e]
    BY <1>6 DEF StageWork
  <2>2. ASSUME NEW d \in Execs, IsAdmission(d)', Reliable(RunOf(d))'
        PROVE  /\ pc'[d] = "read" => Behind(d)'
               /\ pc'[d] \in Holding => InStep(d)'
    <3>1. CASE d = e
      <4>1. IsAdmission(e) /\ Reliable(RunOf(e))
        BY <2>1, <2>2, <3>1 DEF IsAdmission, RunOf
      <4>2. InStep(e)  BY <2>1, <4>1 DEF Copies
      <4>3. hist[e] \in Nat /\ out[e] \in Nat /\ hist[e] <= out[e]
        BY <4>2 DEF InStep
      <4>4. hist[e] <= out'[e] /\ out'[e] > hist[e]
        BY <2>1, <4>3, NextResult
      <4>5. InStep(e)'  BY <2>1, <4>2, <4>4 DEF InStep, RunOf
      <4>6. QED  BY <2>1, <3>1, <4>5
    <3>2. CASE d # e
      BY <2>1, <2>2, <3>2 DEF Copies, Behind, InStep, IsAdmission, RunOf
    <3>3. QED  BY <3>1, <3>2
  <2>3. QED  BY <2>1, <2>2 DEF Copies
<1>7. ASSUME NEW e \in Execs, Checkpoint(e)
      PROVE  Copies'
  <2> DEFINE r == RunOf(e)
  <2>1. /\ UNCHANGED <<stale, at, out, amb>>
        /\ \A d \in Execs : d # e => pc'[d] = pc[d] /\ hist'[d] = hist[d]
        /\ pc[e] = "check" /\ pc'[e] = "stage" /\ hist'[e] = hist[e] + 1
        /\ history' = [history EXCEPT ![r] = hist[e] + 1]
        /\ output' = [output EXCEPT ![r] = out[e]]
        /\ ambiguous' = [ambiguous EXCEPT ![r] = amb[e]]
    BY <1>7 DEF Checkpoint
  <2>2. IsAdmission(e) /\ r \in Runs /\ at[e] = Adm(r)  BY <2>1 DEF Slots
  <2>3. Reliable(r) => InStep(e)  BY <2>1, <2>2 DEF Copies
  <2>4. \A s \in Runs : Reliable(s)' => history'[s] <= output'[s]
    BY <2>1, <2>2, <2>3 DEF Copies, InStep
  <2>5. ASSUME NEW d \in Execs, IsAdmission(d)', Reliable(RunOf(d))'
        PROVE  /\ pc'[d] = "read" => Behind(d)'
               /\ pc'[d] \in Holding => InStep(d)'
    <3>1. CASE d = e
      BY <2>1, <2>2, <2>3, <2>5, <3>1 DEF InStep, IsAdmission, RunOf
    <3>2. CASE d # e /\ RunOf(d) # r
      BY <2>1, <2>2, <2>5, <3>2 DEF Copies, Behind, InStep, IsAdmission, RunOf
    <3>3. CASE d # e /\ RunOf(d) = r
      <4>1. pc[d] \in Holding => at[d] = at[e]
        BY <2>1, <2>2, <2>5, <3>3 DEF IsAdmission
      <4>7. Adm(r) \notin Overridden'  BY <2>1, <2>5, <3>3 DEF RunOf
      <4>5. at[e] \notin Overridden  BY <2>2, <4>7
      <4>2. pc[d] \notin Holding  BY <2>1, <3>3, <4>1, <4>5 DEF Owned, OneOwner
      <4>3. pc[d] = "read" => Behind(d)
        BY <2>1, <2>5, <3>3 DEF Copies, IsAdmission, RunOf
      <4>4. pc'[d] = "read" => Behind(d)'
        BY <2>1, <2>2, <2>3, <2>5, <3>3, <4>3 DEF Behind, InStep, IsAdmission, RunOf
      <4>6. QED  BY <2>1, <3>3, <4>2, <4>4
    <3>4. QED  BY <3>1, <3>2, <3>3
  <2>6. QED  BY <2>4, <2>5 DEF Copies
<1>8. ASSUME NEW e \in Execs, Finish(e) \/ FinishBatch(e) \/ FailArtifact(e) \/ Crash(e)
      PROVE  Copies'
  <2>1. EndExec(e) /\ UNCHANGED <<runVars, stale>>
    BY <1>8 DEF Finish, FinishBatch, FailArtifact, Crash
  <2>2. QED  BY <2>1, QuietCopies DEF EndExec
<1>9. ASSUME NEW e \in Execs, FailRun(e)
      PROVE  Copies'
  <2> DEFINE r == RunOf(e)
  <2>1. /\ UNCHANGED <<stale, at, hist, out, amb, history, ambiguous>>
        /\ \A d \in Execs : d # e => pc'[d] = pc[d]
        /\ pc[e] = "fail" /\ pc'[e] = "failjob"
        /\ output' = IF IsAdmission(e) THEN [output EXCEPT ![r] = out[e]] ELSE output
    BY <1>9 DEF FailRun, Goto
  <2>2. IsAdmission(e) /\ Reliable(r) => history[r] <= out[e]
    BY <2>1 DEF Copies, InStep
  <2>3. \A s \in Runs : Reliable(s)' => history'[s] <= output'[s]
    BY <2>1, <2>2 DEF Copies
  <2>4. ASSUME NEW d \in Execs, IsAdmission(d)', Reliable(RunOf(d))'
        PROVE  /\ pc'[d] = "read" => Behind(d)'
               /\ pc'[d] \in Holding => InStep(d)'
    BY <2>1, <2>4 DEF Copies, Behind, InStep, IsAdmission, RunOf
  <2>5. QED  BY <2>3, <2>4 DEF Copies
<1>10. ASSUME NEW e \in Execs, FailJob(e)
       PROVE  Copies'
  <2>1. UNCHANGED <<runVars, stale>>  BY <1>10 DEF FailJob
  <2>2. CASE Goto(e, "failartifact")
    BY <2>1, <2>2, QuietCopies DEF Goto
  <2>3. CASE EndExec(e)
    BY <2>1, <2>3, QuietCopies DEF EndExec
  <2>4. QED  BY <1>10, <2>2, <2>3 DEF FailJob
<1>11. ASSUME NEW w \in Rows, Cancel(w) \/ LoseCancel(w)
       PROVE  Copies'
  BY <1>11, QuietCopies DEF Cancel, LoseCancel
<1>12. ASSUME NEW w \in Rows, SaveCanceled(w) \/ ReRun(w)
       PROVE  Copies'
  <2>1. UNCHANGED <<runVars, stale>>  BY <1>12 DEF SaveCanceled, ReRun
  <2>2. \A e \in Execs :
          \/ pc'[e] \in {"free", "redo"} /\ pc[e] \in {"free", "redo"}
          \/ /\ pc'[e] = pc[e] /\ at'[e] = at[e] /\ hist'[e] = hist[e]
             /\ out'[e] = out[e] /\ amb'[e] = amb[e]
    BY <1>12 DEF SaveCanceled, ReRun, EndExec
  <2>3. QED  BY <2>1, <2>2, QuietCopies
<1>13. ASSUME NEW w \in Rows, NEW status \in Statuses \ {"absent"}, Edit(w, status)
       PROVE  Copies'
  BY <1>13, QuietCopies DEF Edit
<1>14. ASSUME NEW e \in Execs, Redo(e) \/ Redispatch(e) \/ Offload(e) \/ OffloadEnds(e)
       PROVE  Copies'
  <2>1. UNCHANGED <<runVars, stale>>
    BY <1>14 DEF Redo, Redispatch, Offload, OffloadEnds
  <2>2. pc[e] \in Redoing /\ pc'[e] \in Redoing \cup {"free"}
    BY <1>14 DEF Redo, Redispatch, Offload, OffloadEnds, Goto, EndExec, Redoing
  <2>3. \A d \in Execs : d # e =>
          /\ pc'[d] = pc[d] /\ at'[d] = at[d] /\ hist'[d] = hist[d]
          /\ out'[d] = out[d] /\ amb'[d] = amb[d]
    BY <1>14 DEF Redo, Redispatch, Offload, OffloadEnds, Goto, EndExec
  <2>4. QED  BY <2>1, <2>2, <2>3, QuietCopies DEF Redoing
<1>15. CASE UNCHANGED vars
  BY <1>15, QuietCopies DEF vars
<1> HIDE DEF TypeOK
<1>16. QED
  BY <1>1, <1>2, <1>3, <1>4, <1>5, <1>6, <1>7, <1>8, <1>9, <1>10, <1>11, <1>12,
     <1>13, <1>14, <1>15 DEF Next, ExecStep

(***************************************************************************)
(* What success leaves behind                                              *)
(***************************************************************************)

\* What the success of a run promises.
Outcome == SucceededComplete /\ EscalationFollows

\* A step that ends no admission with success and, of one that has succeeded,
\* touches neither the run nor whether there is an escalation, is of no account.
LEMMA QuietOutcome ==
    ASSUME Outcome, Owned', stale \subseteq stale', Overridden \subseteq Overridden',
           \A r \in Runs : run'[Adm(r)] = "succeeded" /\ Adm(r) \notin Overridden' =>
               /\ run[Adm(r)] = "succeeded"
               /\ job'[Esc(r)] = "absent" <=> job[Esc(r)] = "absent"
               /\ history'[r] = history[r]
               /\ output'[r] = output[r]
               /\ ambiguous'[r] = ambiguous[r]
    PROVE  Outcome'
<1>1. SucceededComplete'  BY DEF Outcome, SucceededComplete
<1>2. EscalationFollows'
  BY DEF Outcome, EscalationFollows, Owned, EscalationAfter
<1>3. QED  BY <1>1, <1>2 DEF Outcome

\* The success of an admission finds every stage in the run's history and
\* output, and schedules the escalation its checkpoints ask for.
LEMMA FinishOutcome ==
    ASSUME TypeOK, Slots, Owned, Copies, Outcome, Owned',
           NEW e \in Execs, Finish(e)
    PROVE  Outcome'
<1> USE ConstantsAssumption, RowFacts, LiveRow
<1> DEFINE r == RunOf(e)
<1>1. /\ pc[e] = "stage" /\ hist[e] = Stages
      /\ UNCHANGED <<history, output, ambiguous, stale>> /\ Overridden' = Overridden
  BY DEF Finish, runVars, ghostVars, adminVars, Overridden
<1>2. IsAdmission(e) /\ r \in Runs /\ at[e] = Adm(r)  BY <1>1 DEF Slots
<1>3. Adm(r) \notin Overridden => run[Adm(r)] # "succeeded"
  BY <1>1, <1>2 DEF Owned, Closed, Holding, Working
<1>4. Adm(r) \notin Overridden => job[Esc(r)] = "absent"
  BY <1>2, <1>3 DEF Owned, EscalationAfter
<1>5. Reliable(r) => /\ history[r] = Stages
                     /\ history[r] <= output[r]
                     /\ amb[e] = ambiguous[r]
  BY <1>1, <1>2 DEF Copies, InStep, Holding, Working
<1>6. output[r] \in 0..Stages  BY <1>2 DEF TypeOK
<1>7. Reliable(r) => output[r] = Stages  BY <1>5, <1>6
<1>8. \A s \in Runs : s # r => /\ run'[Adm(s)] = run[Adm(s)]
                               /\ job'[Esc(s)] = job[Esc(s)]
  BY <1>2 DEF Finish, SetRow, TypeOK
<1>9. Adm(r) \notin Overridden => (job'[Esc(r)] # "absent" <=> amb[e] = "ambiguous")
  BY <1>2, <1>4 DEF Finish, Schedulable, SetRow, TypeOK
<1>10. SucceededComplete'
  BY <1>1, <1>5, <1>7, <1>8 DEF Outcome, SucceededComplete, Reliable
<1>11. EscalationFollows'
  BY <1>1, <1>5, <1>8, <1>9 DEF Outcome, EscalationFollows, Owned, EscalationAfter, Reliable
<1>12. QED  BY <1>10, <1>11 DEF Outcome

\* Every other action is quiet: what it changes of a run that is not overridden, it
\* changes while it holds the run's row, or while the job has failed.
LEMMA OutcomeStep ==
    ASSUME TypeOK, Slots, Marks, Owned, Copies, Outcome, Owned', [Next]_vars
    PROVE  Outcome'
<1>0. /\ Overridden \subseteq Overridden'
      /\ \A w \in Rows : job'[w] = "absent" => job[w] = "absent"
  BY MarksStep
<1> USE <1>0, RowFacts, LiveRow, QuietOutcome
<1> USE DEF TypeOK, Holding, Working, rowVars, runVars, copyVars, execVars, countVars,
            ghostVars
<1>1. ASSUME NEW r \in Runs, Schedule(r) \/ Reschedule(r)
      PROVE  Outcome'
  <2>1. /\ UNCHANGED <<runVars, stale>>
        /\ job' = [job EXCEPT ![Adm(r)] = "queued"]
        /\ run' = [run EXCEPT ![Adm(r)] = "queued"]
    BY <1>1 DEF Schedule, Reschedule, SetRow
  <2>2. QED  BY <2>1
<1>2. ASSUME UNCHANGED <<run, runVars, stale>>,
             \A w \in Rows : job'[w] # "absent" => job[w] # "absent"
      PROVE  Outcome'
  BY <1>2
<1>3. ASSUME NEW w \in Rows, NEW e \in Execs, Sweep(w, e)
      PROVE  Outcome'
  BY <1>3, <1>2 DEF Sweep
<1>4. ASSUME NEW e \in Execs, Claim(e)
      PROVE  Outcome'
  <2>1. /\ UNCHANGED <<run, runVars>> /\ stale \subseteq stale'
        /\ \A w \in Rows : job'[w] # "absent" => job[w] # "absent"
    BY <1>4 DEF Claim
  <2>2. QED  BY <2>1
<1>5. ASSUME NEW e \in Execs,
             \/ Read(e) \/ StageWork(e) \/ DistillBatch(e) \/ FailArtifact(e)
             \/ StageFails(e) \/ Crash(e)
      PROVE  Outcome'
  <2>1. UNCHANGED <<job, run, runVars, stale>>
    BY <1>5 DEF Read, StageWork, DistillBatch, FailArtifact, StageFails, Crash
  <2>2. QED  BY <2>1, <1>2
<1>6. ASSUME NEW e \in Execs, Stage(e) \/ Decompose(e) \/ Checkpoint(e) \/ FailRun(e)
      PROVE  Outcome'
  <2> DEFINE r == RunOf(e)
  <2>1. pc[e] \in Holding /\ at[e] \in Rows /\ UNCHANGED <<job, stale>>
    BY <1>6 DEF Stage, Decompose, Checkpoint, FailRun
  <2>2. at[e] \notin Overridden => run[at[e]] # "succeeded"
    BY <2>1 DEF Owned, Closed
  <2>3. \A w \in Rows : run'[w] = "succeeded" => run[w] = "succeeded"
    BY <1>6 DEF Stage, Decompose, Checkpoint, FailRun
  <2>4. \A s \in Runs : at[e] # Adm(s) =>
          history'[s] = history[s] /\ output'[s] = output[s] /\ ambiguous'[s] = ambiguous[s]
    <3>1. CASE Checkpoint(e)
      <4>1. at[e] = Adm(r)  BY <3>1 DEF Checkpoint, Slots
      <4>2. QED  BY <3>1, <4>1 DEF Checkpoint
    <3>2. CASE FailRun(e) /\ IsAdmission(e)
      <4>1. at[e] = Adm(r)  BY <2>1, <3>2
      <4>2. QED  BY <3>2, <4>1 DEF FailRun
    <3>3. CASE FailRun(e) /\ ~IsAdmission(e)
      BY <3>3 DEF FailRun
    <3>4. CASE Stage(e) \/ Decompose(e)
      BY <3>4 DEF Stage, Decompose
    <3>5. QED  BY <1>6, <3>1, <3>2, <3>3, <3>4
  <2>5. QED  BY <2>1, <2>2, <2>3, <2>4
<1>7. ASSUME NEW e \in Execs, Finish(e)
      PROVE  Outcome'
  BY <1>7, FinishOutcome
<1>8. ASSUME NEW e \in Execs, FinishBatch(e)
      PROVE  Outcome'
  <2>1. /\ at[e] \in Rows /\ UNCHANGED <<runVars, stale>> /\ pc[e] = "close"
        /\ job' = [job EXCEPT ![at[e]] = "succeeded"]
        /\ run' = [run EXCEPT ![at[e]] = "succeeded"]
    BY <1>8 DEF FinishBatch, SetRow
  <2>2. ~IsAdmission(e) /\ RunOf(e) \in Runs  BY <2>1 DEF Slots
  <2>3. at[e] = Esc(RunOf(e))  BY <2>1, <2>2
  <2>4. \A s \in Runs : run'[Adm(s)] = run[Adm(s)]  BY <2>1, <2>3
  <2>5. job[at[e]] = "absent" => at[e] \in Overridden
    BY <2>1 DEF Owned, Lease
  <2>6. job[at[e]] # "absent"
    BY <2>1, <2>5 DEF Marks
  <2>7. QED  BY <2>1, <2>4, <2>6
<1>9. ASSUME NEW e \in Execs, FailJob(e)
      PROVE  Outcome'
  <2>1. /\ at[e] \in Rows /\ UNCHANGED <<run, runVars, stale>> /\ pc[e] \in Holding
        /\ job' = [job EXCEPT ![at[e]] = "failed"]
    BY <1>9 DEF FailJob
  <2>2. job[at[e]] # "absent"
    BY <2>1 DEF Owned, Lease, Marks, Overridden
  <2>3. QED  BY <2>1, <2>2
<1>10. ASSUME NEW w \in Rows, Cancel(w) \/ LoseCancel(w) \/ SaveCanceled(w) \/ ReRun(w)
       PROVE  Outcome'
  <2>1. UNCHANGED <<run, runVars, stale>>
    BY <1>10 DEF Cancel, LoseCancel, SaveCanceled, ReRun
  <2>2. \A u \in Rows : job'[u] # "absent" => job[u] # "absent"
    BY <1>10 DEF Cancel, LoseCancel, SaveCanceled, ReRun, Marks
  <2>3. QED  BY <2>1, <2>2, <1>2
<1>11. ASSUME NEW w \in Rows, NEW status \in Statuses \ {"absent"}, Edit(w, status)
       PROVE  Outcome'
  BY <1>11, <1>2 DEF Edit
<1>12. ASSUME NEW e \in Execs, Redo(e) \/ Redispatch(e) \/ Offload(e) \/ OffloadEnds(e)
       PROVE  Outcome'
  <2>1. UNCHANGED <<run, runVars, stale>> /\ at[e] \in rerun /\ at[e] \in Rows
    BY <1>12 DEF Redo, Redispatch, Offload, OffloadEnds, Marks, Redoing
  <2>2. \A u \in Rows : job'[u] = job[u] \/ u = at[e]
    BY <1>12 DEF Redo, Redispatch, Offload, OffloadEnds
  <2>3. job[at[e]] # "absent"  BY <2>1 DEF Marks, Overridden
  <2>4. QED  BY <2>1, <2>2, <2>3, <1>2
<1>13. CASE UNCHANGED vars
  BY <1>13, <1>2 DEF vars
<1> HIDE DEF TypeOK
<1>14. QED
  BY <1>1, <1>3, <1>4, <1>5, <1>6, <1>7, <1>8, <1>9, <1>10, <1>11, <1>12, <1>13
     DEF Next, ExecStep

(***************************************************************************)
(* The invariant and its consequences                                      *)
(***************************************************************************)

\* Before the first request there is no row and no execution.
LEMMA InitIInv == Init => IInv
<1> SUFFICES ASSUME Init PROVE IInv
  OBVIOUS
<1> USE ConstantsAssumption, RowFacts
<1>1. TypeOK
  BY DEF Init, TypeOK, Statuses, RunStatuses, Verdicts
<1>2. Slots  BY DEF Init, Slots, IsAdmission
<1>3. Owned
  BY DEF Init, Owned, OneOwner, Lease, HandlerOrder, RowsAgree, Closed, EscalationAfter,
         Holding, Working
<1>8. Marks
  BY DEF Init, Marks, Redoing, Overridden
<1>4. Attended  BY DEF Init, Attended
<1>5. Copies  BY DEF Init, Copies, IsAdmission
<1>6. SucceededComplete /\ EscalationFollows
  BY DEF Init, SucceededComplete, EscalationFollows
<1>7. QED  BY <1>1, <1>2, <1>3, <1>4, <1>5, <1>6, <1>8 DEF IInv

\* Every step keeps the invariant.
LEMMA StepIInv == IInv /\ [Next]_vars => IInv'
<1> SUFFICES ASSUME IInv, [Next]_vars PROVE IInv'
  OBVIOUS
<1>1. /\ TypeOK /\ Slots /\ Marks /\ Owned /\ Attended /\ Copies
      /\ SucceededComplete /\ EscalationFollows
  BY DEF IInv
<1>2. TypeOK' /\ Slots' /\ Marks'  BY <1>1, TypeStep, MarksStep
<1>3. Owned'     BY <1>1, <1>2, OwnedStep
<1>4. Attended'  BY <1>1, AttendedStep
<1>5. Copies'    BY <1>1, CopiesStep
<1>6. Outcome'   BY <1>1, <1>3, OutcomeStep DEF Outcome
<1>7. QED  BY <1>2, <1>3, <1>4, <1>5, <1>6 DEF IInv, Outcome

\* The inductive invariant holds in every reachable state.
THEOREM IInvInvariant == Spec => []IInv
<1>1. QED  BY InitIInv, StepIInv, PTL DEF Spec

\* Every column and local stays in its range.
THEOREM TypeCorrect == Spec => []TypeOK
<1>1. IInv => TypeOK  BY DEF IInv
<1>2. QED  BY <1>1, IInvInvariant, PTL

\* The claim's compare-and-set admits one execution at a time to a row, however
\* many messages the sweep has sent for it and whenever the row is canceled; the
\* rows a re-run or an edit has overridden are left out.
THEOREM OneOwnerHolds == Spec => []OneOwner
<1>1. IInv => OneOwner  BY DEF IInv, Owned
<1>2. QED  BY <1>1, IInvInvariant, PTL

\* The run and its job agree whenever the job is neither running nor canceled,
\* although separate statements write them, on every row that no re-run or edit
\* has overridden.
THEOREM RowsAgreeHolds == Spec => []RowsAgree
<1>1. IInv => RowsAgree  BY DEF IInv, Owned
<1>2. QED  BY <1>1, IInvInvariant, PTL

\* A run that succeeds without ever having been claimed with an outdated copy
\* holds every stage in its history and its output, over any number of failures,
\* resumptions and cancels; overridden rows are left out.
THEOREM SucceededCompleteHolds == Spec => []SucceededComplete
<1>1. IInv => SucceededComplete  BY DEF IInv
<1>2. QED  BY <1>1, IInvInvariant, PTL

\* Escalations follow ambiguous successes, and nothing else, canceled or not, for
\* the runs whose admission no re-run or edit has overridden.
THEOREM EscalationFollowsHolds == Spec => []EscalationFollows
<1>1. IInv => EscalationFollows  BY DEF IInv
<1>2. QED  BY <1>1, IInvInvariant, PTL

\* Only a crash, or an edit by hand, leaves a job running with no execution: of
\* every row, re-run and canceled ones included.
THEOREM AbandonedByCrashHolds == Spec => []AbandonedByCrash
<1>1. IInv => AbandonedByCrash  BY DEF IInv, Attended, AbandonedByCrash
<1>2. QED  BY <1>1, IInvInvariant, PTL

\* Success is never reopened: whoever could write the row holds it, and nobody
\* holds the row of a run that has succeeded.
LEMMA FinalStep ==
    ASSUME IInv, [Next]_vars, NEW w \in Rows \ Overridden', run[w] = "succeeded"
    PROVE  job'[w] \in {"succeeded", "canceled"} /\ run'[w] = "succeeded"
<1> USE RowFacts
<1>1. TypeOK /\ Slots /\ Marks /\ Owned  BY DEF IInv
<1>2. Owned' /\ w \in Rows  BY StepIInv DEF IInv
<1>3. w \notin Overridden  BY <1>1, MarksStep
<1>4. \A e \in Execs : pc[e] \in Holding => at[e] \in Rows /\ at[e] # w
  BY <1>1, <1>2, <1>3, LiveRow DEF Owned, Closed, Holding, Working
<1>5. job[w] \in {"succeeded", "canceled"}
  BY <1>1, <1>2, <1>3 DEF Owned, Closed
<1> SUFFICES run'[w] = "succeeded"
  BY <1>2, <1>3 DEF Owned, Closed
<1> USE <1>1, <1>2, <1>4, <1>5
<1> USE DEF Holding, Working, rowVars, TypeOK
<1>6. CASE UNCHANGED run
  BY <1>6
<1>7. ASSUME NEW r \in Runs, Schedule(r) \/ Reschedule(r)
      PROVE  run'[w] = "succeeded"
  BY <1>7 DEF Schedule, Reschedule, SetRow
<1>8. ASSUME NEW e \in Execs, Stage(e) \/ Decompose(e) \/ FinishBatch(e) \/ FailRun(e)
      PROVE  run'[w] = "succeeded"
  BY <1>8 DEF Stage, Decompose, FinishBatch, FailRun, SetRow
<1>9. ASSUME NEW e \in Execs, Finish(e)
      PROVE  run'[w] = "succeeded"
  BY <1>9, LiveRow DEF Finish, Schedulable, SetRow
<1> HIDE <1>1, <1>2, <1>4, <1>5
<1> HIDE DEF TypeOK
<1>10. ASSUME NEW u \in Rows, NEW e \in Execs, Sweep(u, e)
       PROVE  UNCHANGED run
  BY <1>10 DEF Sweep
<1>11. ASSUME NEW e \in Execs,
              \/ Read(e) \/ Claim(e) \/ StageWork(e) \/ Checkpoint(e) \/ DistillBatch(e)
              \/ FailJob(e) \/ FailArtifact(e) \/ StageFails(e) \/ Crash(e)
              \/ Redo(e) \/ Redispatch(e) \/ Offload(e) \/ OffloadEnds(e)
       PROVE  UNCHANGED run
  BY <1>11 DEF Read, Claim, StageWork, Checkpoint, DistillBatch, FailJob, FailArtifact,
               StageFails, Crash, Redo, Redispatch, Offload, OffloadEnds
<1>12. ASSUME NEW u \in Rows, Cancel(u) \/ SaveCanceled(u) \/ LoseCancel(u) \/ ReRun(u)
       PROVE  UNCHANGED run
  BY <1>12 DEF Cancel, SaveCanceled, LoseCancel, ReRun
<1>13. ASSUME NEW u \in Rows, NEW status \in Statuses \ {"absent"}, Edit(u, status)
       PROVE  UNCHANGED run
  BY <1>13 DEF Edit
<1>14. CASE UNCHANGED vars
  BY <1>14 DEF vars, rowVars
<1>15. QED
  BY <1>6, <1>7, <1>8, <1>9, <1>10, <1>11, <1>12, <1>13, <1>14, <1>6 DEF Next, ExecStep

\* A run that has succeeded stays so, and its job can only become canceled, on
\* every row that no re-run or edit has overridden.
THEOREM SucceededFinalHolds == Spec => SucceededFinal
<1>1. IInv /\ [Next]_vars =>
        [\A w \in Rows \ Overridden' : run[w] = "succeeded" =>
           job'[w] \in {"succeeded", "canceled"} /\ run'[w] = "succeeded"]_vars
  BY FinalStep
<1>2. QED  BY <1>1, IInvInvariant, PTL DEF Spec, SucceededFinal
=============================================================================
