-------------------------- MODULE TrainingRunProofs --------------------------
(***************************************************************************)
(* Machine-checked safety of TrainingRun, for any set of worker slots, any *)
(* number of pods and any bounds on cancels and faults.                    *)
(***************************************************************************)
EXTENDS TrainingRun, TLAPS

(***************************************************************************)
(* The strengthening.  The locals of an execution are copies of the row;   *)
(* what makes them good enough is which of them only the training task     *)
(* has, who may still end a pod, and what an execution has written by the  *)
(* time it calls the run succeeded.                                        *)
(***************************************************************************)

\* Only the training task creates, records and watches pods.
PodsOfTraining ==
    \A e \in Execs :
        pc[e] \in {"create", "record", "watch"} => loc[e].task = "train"

\* A pod that runs is ended by the execution that records or watches it, or by
\* one whose except clause is about to terminate it.  That some copy of the row
\* names the pod is not enough: the next create overwrites the copy.
Watched ==
    \A p \in Pods : pod[p] = "up" =>
        \/ p \in lost
        \/ \E e \in Execs : /\ pc[e] \in {"record", "watch", "failing"}
                            /\ loc[e].pod = p /\ loc[e].task = "train"

Ingested == ledger /\ "trajectories" \in descriptors

\* An execution that publishes has ingested, and so has one that will call the
\* run succeeded.
PublishersIngested ==
    \A e \in Execs :
        /\ pc[e] = "publish" => Ingested /\ "trajectories" \in loc[e].kinds
        /\ pc[e] \in {"clean", "finish", "save"} /\ loc[e].result = "succeeded"
              => Ingested

\* While no execution was torn between its two saves, descriptors that are not
\* complete are about to be completed.
HalfPublished ==
    \/ torn
    \/ descriptors \in {{}, Kinds}
    \/ \E e \in Execs : pc[e] = "publish"

SucceededIngested == status = "succeeded" => Ingested

IInv ==
    /\ TypeOK
    /\ PodsOfTraining
    /\ Watched
    /\ PublishersIngested
    /\ HalfPublished
    /\ SucceededIngested

(***************************************************************************)
(* Type correctness                                                        *)
(***************************************************************************)
\* The record updates of the model stay in the range of the locals.
LEMMA LocalsKept ==
    ASSUME NEW l \in Locals
    PROVE  /\ l.task \in Tasks /\ l.pod \in Pods \cup {NoPod} /\ l.kinds \subseteq Kinds
           /\ l.seen \in Statuses /\ l.result \in Terminal
           /\ \A t \in Tasks : [l EXCEPT !.task = t] \in Locals
           /\ \A p \in Pods \cup {NoPod} : [l EXCEPT !.pod = p] \in Locals
           /\ \A p \in Pods \cup {NoPod}, k \in SUBSET Kinds :
                 [l EXCEPT !.pod = p, !.kinds = k] \in Locals
           /\ \A k \in SUBSET Kinds : [l EXCEPT !.kinds = k] \in Locals
           /\ \A k \in SUBSET Kinds, r \in Terminal :
                 [l EXCEPT !.kinds = k, !.result = r] \in Locals
           /\ \A s \in Statuses : [l EXCEPT !.seen = s] \in Locals
           /\ \A r \in Terminal : [l EXCEPT !.result = r] \in Locals
BY DEF Locals

\* An idle execution holds nothing.
LEMMA IdleType == Idle \in Locals
BY DEF Idle, Locals, Tasks, Statuses, Terminal

\* The locals of an execution stay in their range when it goes on.
LEMMA GotoType ==
    ASSUME TypeOK, NEW e \in Execs, NEW label \in Positions, NEW l \in Locals,
           GotoWith(e, label, l)
    PROVE  pc' \in [Execs -> Positions] /\ loc' \in [Execs -> Locals]
BY DEF TypeOK, GotoWith

\* Every action keeps every variable in its range.
LEMMA TypeStep ==
    ASSUME TypeOK, [Next]_vars
    PROVE  TypeOK'
<1> USE ConstantsAssumption
<1> DEFINE ExecOK == pc' \in [Execs -> Positions] /\ loc' \in [Execs -> Locals]
<1>0. ASSUME NEW e \in Execs
      PROVE  /\ loc[e] \in Locals
             /\ \A label \in Positions : Goto(e, label) => ExecOK
             /\ \A label \in Positions, l \in Locals : GotoWith(e, label, l) => ExecOK
             /\ EndExec(e) => ExecOK
             /\ \A r \in Terminal : Finish(e, r) => ExecOK
  <2>1. loc[e] \in Locals  BY DEF TypeOK
  <2>2. \A label \in Positions, l \in Locals : GotoWith(e, label, l) => ExecOK
    BY GotoType
  <2>3. EndExec(e) => ExecOK
    BY GotoType, IdleType DEF EndExec, Positions
  <2>4. \A r \in Terminal : Finish(e, r) => ExecOK
    BY <2>1, <2>2, LocalsKept DEF Finish, Positions
  <2>5. \A label \in Positions : Goto(e, label) => ExecOK
    BY <2>1, <2>2 DEF Goto
  <2>6. QED  BY <2>1, <2>2, <2>3, <2>4, <2>5
<1> HIDE DEF ExecOK
<1>c. /\ Fault \/ NoFault => faults' \in 0..MaxFaults
      /\ \A e \in Execs : Unwatched(e) \subseteq Pods
  <2>1. Fault \/ NoFault => faults' \in 0..MaxFaults
    BY DEF Fault, NoFault, TypeOK
  <2>2. \A e \in Execs : loc[e].pod \in Pods \cup {NoPod}
    BY <1>0, LocalsKept
  <2>3. QED  BY <2>1, <2>2 DEF Unwatched
<1> USE DEF inputVars, rowVars, execVars, podVars, history, Send,
            Terminated, TerminateFails, Tasks
<1>1. CASE Submit
  BY <1>1 DEF Submit, TypeOK, Statuses
<1>2. CASE CancelRun
  BY <1>2 DEF CancelRun, TypeOK, Statuses, Terminal
<1>3. ASSUME NEW t \in Tasks, DisturbMessage(t)
      PROVE  TypeOK'
  BY <1>3, <1>c DEF DisturbMessage, TypeOK
<1>4. ASSUME NEW e \in Execs, NEW t \in Tasks, Receive(e, t)
      PROVE  TypeOK'
  <2>1. ExecOK
    BY <1>4, <1>0, IdleType, LocalsKept DEF Receive, Positions
  <2>2. QED  BY <1>4, <2>1 DEF Receive, TypeOK, ExecOK
<1>5. ASSUME NEW e \in Execs, Read(e)
       PROVE  TypeOK'
  <2>1. ExecOK
    BY <1>5, <1>0 DEF Read, Positions, TypeOK, Terminal, Kinds
  <2>2. QED  BY <1>5, <2>1, <1>c DEF Read, TypeOK, ExecOK, NoFault
<1>6. ASSUME NEW e \in Execs, Claim(e)
       PROVE  TypeOK'
  <2>1. ExecOK
    BY <1>6, <1>0, LocalsKept DEF Claim, Positions, TypeOK, Terminal, Kinds
  <2>2. QED  BY <1>6, <2>1 DEF Claim, TypeOK, ExecOK, Statuses
<1>7. ASSUME NEW e \in Execs, Create(e)
       PROVE  TypeOK'
  <2>1. ExecOK
    BY <1>7, <1>0, LocalsKept DEF Create, Positions, TypeOK, Terminal, Kinds
  <2>2. QED  BY <1>7, <2>1, <1>c DEF Create, TypeOK, ExecOK
<1>8. ASSUME NEW e \in Execs, Record(e)
       PROVE  TypeOK'
  <2>1. ExecOK
    BY <1>8, <1>0, LocalsKept DEF Record, Positions, TypeOK, Terminal, Kinds
  <2>2. QED  BY <1>8, <2>1, <1>0, LocalsKept DEF Record, TypeOK, ExecOK, Locals
<1>9. ASSUME NEW e \in Execs, Watch(e)
       PROVE  TypeOK'
  <2>1. ExecOK
    BY <1>9, <1>0 DEF Watch, Positions, TypeOK, Terminal, Kinds
  <2>2. QED  BY <1>9, <2>1, <1>c DEF Watch, TypeOK, ExecOK
<1>10. ASSUME NEW e \in Execs, Collect(e)
       PROVE  TypeOK'
  <2>1. ExecOK
    BY <1>10, <1>0 DEF Collect, Positions, TypeOK, Terminal, Kinds
  <2>2. QED  BY <1>10, <2>1, <1>c DEF Collect, TypeOK, ExecOK
<1>11. ASSUME NEW e \in Execs, Eval(e)
       PROVE  TypeOK'
  <2>1. ExecOK
    BY <1>11, <1>0 DEF Eval, Positions, TypeOK, Terminal, Kinds
  <2>2. QED  BY <1>11, <2>1 DEF Eval, TypeOK, ExecOK
<1>12. ASSUME NEW e \in Execs, Ingest(e)
       PROVE  TypeOK'
  <2>1. ExecOK
    BY <1>12, <1>0, LocalsKept DEF Ingest, Positions, TypeOK, Terminal, Kinds
  <2>2. loc[e].kinds \subseteq Kinds  BY <1>0, LocalsKept
  <2>3. QED  BY <1>12, <2>1, <2>2, <1>c DEF Ingest, TypeOK, ExecOK, Kinds
<1>13. ASSUME NEW e \in Execs, Publish(e)
       PROVE  TypeOK'
  <2>1. ExecOK
    BY <1>13, <1>0, LocalsKept DEF Publish, Positions, TypeOK, Terminal, Kinds
  <2>2. loc[e].kinds \subseteq Kinds  BY <1>0, LocalsKept
  <2>3. QED  BY <1>13, <2>1, <2>2, <1>c DEF Publish, TypeOK, ExecOK, Kinds
<1>14. ASSUME NEW e \in Execs, Clean(e)
       PROVE  TypeOK'
  <2>1. ExecOK
    BY <1>14, <1>0 DEF Clean, Positions, TypeOK, Terminal, Kinds
  <2>2. QED  BY <1>14, <2>1, <1>c DEF Clean, TypeOK, ExecOK
<1>15. ASSUME NEW e \in Execs, Failing(e)
       PROVE  TypeOK'
  <2>1. ExecOK
    BY <1>15, <1>0 DEF Failing, Positions, TypeOK, Terminal, Kinds
  <2>2. QED  BY <1>15, <2>1, <1>c DEF Failing, TypeOK, ExecOK, NoFault
<1>16. ASSUME NEW e \in Execs, Refresh(e)
       PROVE  TypeOK'
  <2>1. ExecOK
    BY <1>16, <1>0, LocalsKept DEF Refresh, Positions, TypeOK, Terminal, Kinds
  <2>2. QED  BY <1>16, <2>1 DEF Refresh, TypeOK, ExecOK
<1>17. ASSUME NEW e \in Execs, Save(e)
       PROVE  TypeOK'
  <2>1. ExecOK
    BY <1>17, <1>0 DEF Save, Positions, TypeOK, Terminal, Kinds
  <2>2. QED  BY <1>17, <2>1, <1>0, LocalsKept DEF Save, TypeOK, ExecOK, Statuses, Terminal
<1>18. ASSUME NEW e \in Execs, Crash(e)
       PROVE  TypeOK'
  <2>1. ExecOK
    BY <1>18, <1>0 DEF Crash, Positions, TypeOK, Terminal, Kinds
  <2>2. QED  BY <1>18, <2>1, <1>c DEF Crash, TypeOK, ExecOK
<1>19. ASSUME NEW p \in Pods, PodEnd(p)
       PROVE  TypeOK'
  BY <1>19 DEF PodEnd, TypeOK
<1>20. CASE UNCHANGED vars
  BY <1>20 DEF vars, TypeOK
<1>21. QED
  BY <1>1, <1>2, <1>3, <1>4, <1>5, <1>6, <1>7, <1>8, <1>9, <1>10, <1>11, <1>12,
     <1>13, <1>14, <1>15, <1>16, <1>17, <1>18, <1>19, <1>20
     DEF Next, Step

(***************************************************************************)
(* Preservation of the strengthened invariant, one lemma per concern       *)
(***************************************************************************)

\* Pods: whoever takes its hands off a pod that runs has terminated it, or a
\* fault has put it among the lost.
LEMMA PodStep ==
    ASSUME IInv, [Next]_vars
    PROVE  PodsOfTraining' /\ Watched'
<1> USE ConstantsAssumption
<1> USE DEF inputVars, rowVars, execVars, podVars, history,
            GotoWith, Goto, EndExec, Finish, NoFault, Terminated, TerminateFails
<1>0. /\ pc \in [Execs -> Positions] /\ loc \in [Execs -> Locals]
      /\ pod \in [Pods -> {"none", "up", "ended", "terminated"}]
      /\ PodsOfTraining /\ Watched
  BY DEF IInv, TypeOK
<1>1. CASE UNCHANGED <<execVars, podVars>>
  BY <1>0, <1>1 DEF PodsOfTraining, Watched
<1> DEFINE Holds(e) == pc[e] \in {"record", "watch", "failing"}
<1>2. ASSUME NEW e \in Execs, ~Holds(e), UNCHANGED podVars,
             pc'[e] \notin {"create", "record", "watch"}, 
             \A f \in Execs \ {e} : pc'[f] = pc[f] /\ loc'[f] = loc[f]
      PROVE  PodsOfTraining' /\ Watched'
  BY <1>0, <1>2 DEF PodsOfTraining, Watched
<1>3. ASSUME NEW e \in Execs, NEW t \in Tasks, Receive(e, t)
      PROVE  PodsOfTraining' /\ Watched'
  BY <1>0, <1>2, <1>3 DEF Receive
<1>4. ASSUME NEW e \in Execs, Read(e)
      PROVE  PodsOfTraining' /\ Watched'
  BY <1>0, <1>4 DEF Read, PodsOfTraining, Watched
<1>5. ASSUME NEW e \in Execs, Claim(e)
      PROVE  PodsOfTraining' /\ Watched'
  <2>1. ~Holds(e) /\ UNCHANGED podVars  BY <1>5 DEF Claim
  <2>2. \A f \in Execs \ {e} : pc'[f] = pc[f] /\ loc'[f] = loc[f]
    BY <1>0, <1>5 DEF Claim
  <2>3. pc'[e] \notin {"record", "watch"}
        /\ (pc'[e] = "create" => loc'[e].task = "train")
    BY <1>0, <1>5 DEF Claim, Idle, Locals
  <2>4. QED  BY <1>0, <2>1, <2>2, <2>3 DEF PodsOfTraining, Watched
<1>6. ASSUME NEW e \in Execs, Create(e)
      PROVE  PodsOfTraining' /\ Watched'
  BY <1>0, <1>6 DEF Create, PodsOfTraining, Watched, Locals
<1>7. ASSUME NEW e \in Execs, Record(e)
      PROVE  PodsOfTraining' /\ Watched'
  BY <1>0, <1>7 DEF Record, PodsOfTraining, Watched
<1>8. ASSUME NEW e \in Execs, Watch(e)
      PROVE  PodsOfTraining' /\ Watched'
  BY <1>0, <1>8 DEF Watch, PodsOfTraining, Watched, Locals
<1>9. ASSUME NEW e \in Execs, \/ Collect(e) \/ Eval(e) \/ Ingest(e) \/ Publish(e)
                             \/ Clean(e) \/ Refresh(e) \/ Save(e)
      PROVE  PodsOfTraining' /\ Watched'
  BY <1>0, <1>2, <1>9 DEF Collect, Eval, Ingest, Publish, Clean, Refresh, Save
<1>10. ASSUME NEW e \in Execs, Failing(e)
       PROVE  PodsOfTraining' /\ Watched'
  BY <1>0, <1>10 DEF Failing, PodsOfTraining, Watched, Unwatched, Locals
<1>11. ASSUME NEW e \in Execs, Crash(e)
       PROVE  PodsOfTraining' /\ Watched'
  BY <1>0, <1>11 DEF Crash, PodsOfTraining, Watched, Unwatched
<1>12. ASSUME NEW p \in Pods, PodEnd(p)
       PROVE  PodsOfTraining' /\ Watched'
  BY <1>0, <1>12 DEF PodEnd, PodsOfTraining, Watched
<1>13. QED
  BY <1>1, <1>3, <1>4, <1>5, <1>6, <1>7, <1>8, <1>9, <1>10, <1>11, <1>12
     DEF Next, Step, vars, Submit, CancelRun, DisturbMessage

\* Descriptors: whatever copy of the row an execution writes back, the name of
\* the trajectories is in it, and a copy that lacks the rest is completed by the
\* execution that wrote it.
LEMMA PublishStep ==
    ASSUME IInv, [Next]_vars
    PROVE  PublishersIngested' /\ HalfPublished' /\ SucceededIngested'
<1> DEFINE Kept == PublishersIngested' /\ HalfPublished' /\ SucceededIngested'
<1> USE DEF inputVars, rowVars, execVars, podVars, history,
            GotoWith, Goto, EndExec, Finish, PublishersIngested, HalfPublished,
            SucceededIngested, Ingested
<1>0. /\ pc \in [Execs -> Positions] /\ loc \in [Execs -> Locals]
      /\ PublishersIngested /\ HalfPublished /\ SucceededIngested
      /\ descriptors \subseteq Kinds /\ torn \in BOOLEAN
  BY DEF IInv, TypeOK
<1>1. CASE UNCHANGED <<status, descriptors, ledger, pc, loc, torn>>
  BY <1>0, <1>1
\* Steps of an execution that is not publishing and writes neither status nor
\* descriptors.
<1>2. ASSUME NEW e \in Execs, pc[e] # "publish", pc'[e] \notin {"publish", "clean", "save"},
             pc'[e] = "finish" => \/ loc'[e].result # "succeeded"
                                  \/ pc[e] = "clean" /\ loc'[e] = loc[e],
             \A f \in Execs \ {e} : pc'[f] = pc[f] /\ loc'[f] = loc[f],
             UNCHANGED <<status, descriptors, ledger, torn>>
      PROVE  Kept
  BY <1>0, <1>2
<1>3. ASSUME NEW e \in Execs, \E t \in Tasks : Receive(e, t)
      PROVE  Kept
  BY <1>0, <1>2, <1>3 DEF Receive
<1>4. ASSUME NEW e \in Execs, \/ Read(e) \/ Record(e) \/ Collect(e) \/ Eval(e) \/ Clean(e)
      PROVE  Kept
  BY <1>0, <1>2, <1>4 DEF Read, Record, Collect, Eval, Clean
<1>5. ASSUME NEW e \in Execs, \/ Create(e) \/ Watch(e) \/ Failing(e)
      PROVE  Kept
  BY <1>0, <1>2, <1>5 DEF Create, Watch, Failing, Locals
<1>6. ASSUME NEW e \in Execs, Claim(e)
      PROVE  Kept
  BY <1>0, <1>6 DEF Claim
<1>7. ASSUME NEW e \in Execs, Ingest(e)
      PROVE  Kept
  BY <1>0, <1>7 DEF Ingest, Locals
<1>8. ASSUME NEW e \in Execs, Publish(e)
      PROVE  Kept
  BY <1>0, <1>8 DEF Publish, Locals, Kinds
<1>9. ASSUME NEW e \in Execs, Refresh(e)
      PROVE  Kept
  BY <1>0, <1>9 DEF Refresh, Locals
<1>10. ASSUME NEW e \in Execs, Save(e)
       PROVE  Kept
  BY <1>0, <1>10 DEF Save
<1>11. ASSUME NEW e \in Execs, Crash(e)
       PROVE  Kept
  BY <1>0, <1>11 DEF Crash
<1>12. CASE Submit \/ CancelRun
  BY <1>0, <1>12 DEF Submit, CancelRun
<1> HIDE DEF PublishersIngested, HalfPublished, SucceededIngested, Ingested
<1>13. QED
  BY <1>1, <1>3, <1>4, <1>5, <1>6, <1>7, <1>8, <1>9, <1>10, <1>11, <1>12
     DEF Next, Step, vars, DisturbMessage, PodEnd

(***************************************************************************)
(* Theorems                                                                *)
(***************************************************************************)

\* The strengthened invariant holds initially and every step preserves it.
THEOREM TrainingInvariant == Spec => []IInv
<1>1. Init => IInv
  <2> SUFFICES ASSUME Init PROVE IInv  OBVIOUS
  <2>1. TypeOK
    <3>1. loc \in [Execs -> Locals]  BY IdleType DEF Init
    <3>2. cancels \in 0..MaxCancels /\ faults \in 0..MaxFaults
      BY ConstantsAssumption DEF Init
    <3>3. QED  BY <3>1, <3>2 DEF Init, TypeOK, Statuses, Kinds, Positions
  <2>2. PodsOfTraining /\ Watched  BY DEF Init, PodsOfTraining, Watched
  <2>3. PublishersIngested /\ HalfPublished /\ SucceededIngested
    BY DEF Init, PublishersIngested, HalfPublished, SucceededIngested
  <2>4. QED  BY <2>1, <2>2, <2>3 DEF IInv
<1>2. IInv /\ [Next]_vars => IInv'
  BY TypeStep, PodStep, PublishStep DEF IInv
<1>3. QED  BY <1>1, <1>2, PTL DEF Spec

\* Every column, message count and local stays in its range.
THEOREM TrainingTypeCorrect == Spec => []TypeOK
<1>1. IInv => TypeOK  BY DEF IInv
<1>2. QED  BY <1>1, TrainingInvariant, PTL

\* With any number of duplicated executions, a pod that runs has an execution
\* that will end it, or is among those a fault has left to themselves.
THEOREM PodsAccountedHolds == Spec => []PodsAccounted
<1>1. IInv => PodsAccounted  BY DEF IInv, Watched, PodsAccounted, Busy
<1>2. QED  BY <1>1, TrainingInvariant, PTL

\* A run that succeeded has its ledger and names its trajectories; once it has
\* settled without a torn execution it names everything.
THEOREM SucceededPublishedHolds == Spec => []SucceededPublished
<1>1. IInv => SucceededPublished
  BY DEF IInv, SucceededPublished, SucceededIngested, Ingested, HalfPublished,
         Settled, Busy, TypeOK
<1>2. QED  BY <1>1, TrainingInvariant, PTL

\* A canceled run changes its status only through the save of an execution that
\* refreshed the row before the cancel.
THEOREM CancelOverwrittenOnlyBySaveHolds == Spec => CancelOverwrittenOnlyBySave
<1> DEFINE Overwritten == status = "canceled" /\ status' # "canceled" =>
                \E e \in Execs : pc[e] = "save" /\ loc[e].seen # "canceled"
<1>1. [Next]_vars => [Overwritten]_vars
  <2> SUFFICES ASSUME Next, status = "canceled", status' # "canceled"
               PROVE  \E e \in Execs : pc[e] = "save" /\ loc[e].seen # "canceled"
    OBVIOUS
  <2>1. \E e \in Execs : Save(e)
    BY DEF Next, Step, rowVars, Submit, CancelRun, DisturbMessage, Receive,
           Read, Claim, Create, Record, Watch, Collect, Eval, Ingest, Publish,
           Clean, Failing, Refresh, Crash, PodEnd
  <2>2. QED  BY <2>1 DEF Save
<1>2. QED  BY <1>1, PTL DEF Spec, CancelOverwrittenOnlyBySave
=============================================================================
