----------------------------- MODULE TrainingRun -----------------------------
(***************************************************************************)
(* Reinforcement-learning runs: theorem_control/rl/{api,tasks,runpod,      *)
(* ingest}.py.                                                             *)
(*                                                                         *)
(* One run, an evaluation or a prime-rl training.  Its Celery task claims  *)
(* the row under a lock and then works without one: it creates a RunPod    *)
(* pod, saves the pod's id, polls it, ingests what the pod has uploaded    *)
(* under keys that all executions of the run share, and saves the final    *)
(* status.  Cancel locks the row and sends the training task, whatever the *)
(* run is, so that a pod with a saved id is terminated.                    *)
(***************************************************************************)
EXTENDS Integers, FiniteSets

CONSTANTS
    Execs,      \* Celery worker slots
    Pods,       \* pods RunPod can create: 1..n
    NoPod,      \* the empty pod_id
    MaxCancels, \* bound: cancel requests
    MaxFaults   \* bound: crashes, refused calls, lost or repeated messages

ASSUME ConstantsAssumption ==
    /\ Pods \subseteq Nat /\ IsFiniteSet(Pods)
    /\ NoPod \notin Pods /\ MaxFaults \in Nat /\ MaxCancels \in Nat

VARIABLES
    kind,        \* column operation; the request fixes it
    traces,      \* what the run's traces.jsonl parses to; the input fixes it
    status, podId, descriptors,   \* columns of control_trainingrun
    ledger,      \* control_trajectory has rows of the run
    incoming,    \* object store: outputs are under the run's incoming keys
    messages,    \* task messages in flight, by task
    pc, loc,     \* one execution: position and locals
    pod,         \* RunPod: state of each pod
    lost,        \* history: pods a fault left without anyone to terminate them
    cancels,     \* history: cancels answered
    torn,        \* history: an execution died, or failed between its two saves
    faults

rowVars == <<status, podId, descriptors, ledger>>
inputVars == <<kind, traces>>
execVars == <<pc, loc>>
podVars == <<pod, lost>>
history == <<cancels, torn>>
vars == <<inputVars, rowVars, incoming, messages, execVars, podVars, history,
          faults>>

Terminal == {"succeeded", "failed", "canceled"}
Statuses == {"absent", "queued", "running"} \cup Terminal
Tasks == {"eval", "train"}
Kinds == {"trajectories", "supporting"}      \* of artifact descriptors
\* Locals: the task, the copy of the row (pod id, descriptors, status at the
\* last refresh) and the status _finish is called with.
Idle == [task |-> "eval", pod |-> NoPod, kinds |-> {}, seen |-> "absent",
         result |-> "failed"]
Locals == [task : Tasks, pod : Pods \cup {NoPod}, kinds : SUBSET Kinds,
           seen : Statuses, result : Terminal]
Positions == {"idle", "read", "claim", "create", "record", "watch", "collect",
              "eval", "ingest", "publish", "clean", "failing", "finish", "save"}

\* Type invariant: row, messages, locals of the executions, pods.
TypeOK ==
    /\ kind \in Tasks /\ traces \in {"good", "invalid", "mistyped"}
    /\ status \in Statuses /\ podId \in Pods \cup {NoPod}
    /\ descriptors \subseteq Kinds /\ ledger \in BOOLEAN
    /\ incoming \in BOOLEAN
    /\ messages \in [Tasks -> Nat]
    /\ pc \in [Execs -> Positions]
    /\ loc \in [Execs -> Locals]
    /\ pod \in [Pods -> {"none", "up", "ended", "terminated"}]
    /\ lost \subseteq Pods
    /\ cancels \in 0..MaxCancels /\ torn \in BOOLEAN
    /\ faults \in 0..MaxFaults

Init ==
    /\ kind \in Tasks /\ traces \in {"good", "invalid", "mistyped"}
    /\ status = "absent" /\ podId = NoPod /\ descriptors = {} /\ ledger = FALSE
    /\ incoming = FALSE
    /\ messages = [t \in Tasks |-> 0]
    /\ pc = [e \in Execs |-> "idle"] /\ loc = [e \in Execs |-> Idle]
    /\ pod = [p \in Pods |-> "none"]
    /\ lost = {} /\ cancels = 0 /\ torn = FALSE /\ faults = 0

(***************************************************************************)
(* Helpers                                                                 *)
(***************************************************************************)
Fault == faults < MaxFaults /\ faults' = faults + 1
NoFault == UNCHANGED faults
GotoWith(e, label, locals) ==
    /\ pc' = [pc EXCEPT ![e] = label]
    /\ loc' = [loc EXCEPT ![e] = locals]
Goto(e, label) == GotoWith(e, label, loc[e])
EndExec(e) == GotoWith(e, "idle", Idle)
Finish(e, result) == GotoWith(e, "finish", [loc[e] EXCEPT !.result = result])

Send(task) == messages' = [messages EXCEPT ![task] = @ + 1]

\* client.terminate(p): the pod goes, or the call fails and it stays as it is.
Terminated(p) == pod' = [pod EXCEPT ![p] = "terminated"] /\ NoFault
TerminateFails == UNCHANGED pod /\ Fault
Unwatched(e) == IF loc[e].pod # NoPod /\ pod[loc[e].pod] = "up"
                THEN {loc[e].pod} ELSE {}

(***************************************************************************)
(* API                                                                     *)
(***************************************************************************)
\* _submit: one row for an operation id, the task after the commit; a replay
\* changes nothing.
Submit ==
    /\ status = "absent"
    /\ status' = "queued"
    /\ Send(kind)
    /\ UNCHANGED <<inputVars, podId, descriptors, ledger, incoming, execVars,
                   podVars, history, faults>>

\* cancel_run, under the lock of the row; the training task follows the commit.
CancelRun ==
    /\ status \in {"queued", "running"} /\ cancels < MaxCancels
    /\ status' = "canceled"
    /\ cancels' = cancels + 1
    /\ Send("train")
    /\ UNCHANGED <<inputVars, podId, descriptors, ledger, incoming, execVars,
                   podVars, torn, faults>>

\* The broker loses a message, or delivers it a second time.
DisturbMessage(t) ==
    /\ messages[t] > 0 /\ Fault
    /\ \E n \in {-1, 1} : messages' = [messages EXCEPT ![t] = @ + n]
    /\ UNCHANGED <<inputVars, rowVars, incoming, execVars, podVars, history>>

Receive(e, t) ==
    /\ pc[e] = "idle" /\ messages[t] > 0
    /\ messages' = [messages EXCEPT ![t] = @ - 1]
    /\ GotoWith(e, IF t = "train" THEN "read" ELSE "claim",
                [Idle EXCEPT !.task = t])
    /\ UNCHANGED <<inputVars, rowVars, incoming, podVars, history, faults>>

(***************************************************************************)
(* run_eval and run_prime_rl_training                                      *)
(***************************************************************************)
\* The training task looks at the row without a lock.  For a canceled run it
\* terminates the pod of the row, whatever comes of it, and is done.
Read(e) ==
    /\ pc[e] = "read"
    /\ \/ /\ status = "canceled"
          /\ \/ podId = NoPod /\ UNCHANGED <<pod, faults>>
             \/ podId # NoPod /\ (Terminated(podId) \/ TerminateFails)
          /\ EndExec(e)
       \/ status # "canceled" /\ Goto(e, "claim") /\ UNCHANGED <<pod, faults>>
    /\ UNCHANGED <<inputVars, rowVars, incoming, messages, lost, history>>

\* Mutant of Claim: a canceled run is claimed too.
ClaimCanceled(e) ==
    /\ pc[e] = "claim"
    /\ \/ status = "succeeded" /\ EndExec(e) /\ UNCHANGED status
       \/ /\ status # "succeeded"
          /\ status' = "running"
          /\ GotoWith(e, IF loc[e].task = "train" THEN "create" ELSE "eval",
                      [loc[e] EXCEPT !.pod = podId, !.kinds = descriptors])
    /\ UNCHANGED <<inputVars, podId, descriptors, ledger, incoming, messages,
                   podVars, history, faults>>

\* _claim, under the lock: queued, failed and running runs alike.
Claim(e) ==
    /\ pc[e] = "claim"
    /\ \/ status \in {"canceled", "succeeded"} /\ EndExec(e) /\ UNCHANGED status
       \/ /\ status \notin {"canceled", "succeeded"}
          /\ status' = "running"
          /\ GotoWith(e, IF loc[e].task = "train" THEN "create" ELSE "eval",
                      [loc[e] EXCEPT !.pod = podId, !.kinds = descriptors])
    /\ UNCHANGED <<inputVars, podId, descriptors, ledger, incoming, messages,
                   podVars, history, faults>>

\* client.create.  The next unused pod stands for the id RunPod answers with.
\* When the configuration is refused there is no client yet; when the call
\* fails, the pod may exist all the same.
Create(e) ==
    /\ pc[e] = "create"
    /\ \/ \E p \in Pods :
             /\ pod[p] = "none" /\ \A q \in Pods : pod[q] = "none" => p <= q
             /\ pod' = [pod EXCEPT ![p] = "up"]
             /\ \/ /\ GotoWith(e, "record", [loc[e] EXCEPT !.pod = p])
                   /\ UNCHANGED lost /\ NoFault
                \/ Goto(e, "failing") /\ lost' = lost \cup {p} /\ Fault
       \/ Goto(e, "failing") /\ Fault /\ UNCHANGED podVars
       \/ Finish(e, "failed") /\ Fault /\ UNCHANGED podVars
    /\ UNCHANGED <<inputVars, rowVars, incoming, messages, history>>

Record(e) ==
    /\ pc[e] = "record"
    /\ podId' = loc[e].pod
    /\ Goto(e, "watch")
    /\ UNCHANGED <<inputVars, status, descriptors, ledger, incoming, messages,
                   podVars, history, faults>>

\* RunpodPodClient.wait: one round of its loop that leaves it.
Watch(e) ==
    /\ pc[e] = "watch"
    /\ LET p == loc[e].pod IN
       \/ /\ status = "canceled"
          /\ \/ Terminated(p) /\ Finish(e, "canceled")
             \/ TerminateFails /\ Goto(e, "failing")
       \/ /\ status # "canceled"
          /\ \/ pod[p] # "up" /\ Goto(e, "collect") /\ UNCHANGED <<pod, faults>>
             \* get fails, as it also may for a pod that was terminated
             \/ Goto(e, "failing") /\ UNCHANGED pod
                  /\ (IF pod[p] = "terminated" THEN NoFault ELSE Fault)
             \* the deadline
             \/ pod[p] = "up" /\ (Terminated(p) \/ TerminateFails)
                  /\ Goto(e, "failing")
    /\ UNCHANGED <<inputVars, rowVars, incoming, messages, lost, history>>

\* _read_training_outputs: the incoming keys are the run's, not the pod's.
Collect(e) ==
    /\ pc[e] = "collect"
    /\ \/ incoming /\ Goto(e, "ingest") /\ NoFault
       \/ Goto(e, "failing") /\ (IF incoming THEN Fault ELSE NoFault)
    /\ UNCHANGED <<inputVars, rowVars, incoming, messages, podVars, history>>

\* The evaluation is a subprocess of the worker; any way it can fail is caught.
Eval(e) ==
    /\ pc[e] = "eval"
    /\ Goto(e, "ingest") \/ Goto(e, "failing")
    /\ UNCHANGED <<inputVars, rowVars, incoming, messages, podVars, history,
                   faults>>

\* ingest_trajectories: the shard is written and read back, then the rows of
\* the ledger and the descriptors of the run's copy are saved together.  A
\* TypeError of parse_traces is not caught: the execution ends there.
Ingest(e) ==
    /\ pc[e] = "ingest"
    /\ \/ /\ traces = "good"
          /\ ledger' = TRUE
          /\ LET kinds == loc[e].kinds \cup {"trajectories"} IN
             /\ descriptors' = kinds
             /\ GotoWith(e, "publish", [loc[e] EXCEPT !.kinds = kinds])
          /\ NoFault
       \/ /\ traces = "mistyped" /\ EndExec(e)
          /\ UNCHANGED <<ledger, descriptors>> /\ NoFault
       \/ /\ Goto(e, "failing") /\ UNCHANGED <<ledger, descriptors>>
          /\ (IF traces = "invalid" THEN NoFault ELSE traces = "good" /\ Fault)
    /\ UNCHANGED <<inputVars, status, podId, incoming, messages, podVars, history>>

\* Mutant of Publish: the descriptors the copy was claimed with are lost.
PublishOnly(e) ==
    /\ pc[e] = "publish"
    /\ \/ /\ descriptors' = {"supporting"}
          /\ GotoWith(e, IF loc[e].task = "train" THEN "clean" ELSE "finish",
                      [loc[e] EXCEPT !.result = "succeeded"])
          /\ NoFault /\ UNCHANGED torn
       \/ Goto(e, "failing") /\ Fault /\ torn' = TRUE /\ UNCHANGED descriptors
    /\ UNCHANGED <<inputVars, status, podId, ledger, incoming, messages, podVars,
                   cancels>>

\* publish_supporting_artifacts.
Publish(e) ==
    /\ pc[e] = "publish"
    /\ \/ /\ LET kinds == loc[e].kinds \cup {"supporting"} IN
             /\ descriptors' = kinds
             /\ GotoWith(e, IF loc[e].task = "train" THEN "clean" ELSE "finish",
                         [loc[e] EXCEPT !.kinds = kinds, !.result = "succeeded"])
          /\ NoFault /\ UNCHANGED torn
       \/ Goto(e, "failing") /\ Fault /\ torn' = TRUE /\ UNCHANGED descriptors
    /\ UNCHANGED <<inputVars, status, podId, ledger, incoming, messages, podVars,
                   cancels>>

\* The incoming objects are deleted before the run is finished.
Clean(e) ==
    /\ pc[e] = "clean"
    /\ \/ incoming' = FALSE /\ Goto(e, "finish") /\ NoFault
       \/ Goto(e, "failing") /\ Fault /\ incoming' \in {FALSE, incoming}
    /\ UNCHANGED <<inputVars, rowVars, messages, podVars, history>>

\* Mutant of Failing: the pod is left to its own end.
FailingKeeps(e) ==
    /\ pc[e] = "failing"
    /\ Finish(e, "failed")
    /\ UNCHANGED <<inputVars, rowVars, incoming, messages, podVars, history, faults>>

\* Mutant of Failing: nothing is saved.
FailingSilent(e) ==
    /\ pc[e] = "failing"
    /\ \/ /\ loc[e].task = "train" /\ loc[e].pod # NoPod
          /\ \/ Terminated(loc[e].pod) /\ UNCHANGED lost
             \/ TerminateFails /\ lost' = lost \cup Unwatched(e)
       \/ (loc[e].task = "eval" \/ loc[e].pod = NoPod) /\ UNCHANGED <<podVars, faults>>
    /\ EndExec(e)
    /\ UNCHANGED <<inputVars, rowVars, incoming, messages, history>>

\* The except clause; only the training task has a pod to terminate, and what
\* its copy of the row calls pod_id may be the pod of another execution.
Failing(e) ==
    /\ pc[e] = "failing"
    /\ \/ /\ loc[e].task = "train" /\ loc[e].pod # NoPod
          /\ \/ Terminated(loc[e].pod) /\ UNCHANGED lost
             \/ TerminateFails /\ lost' = lost \cup Unwatched(e)
       \/ (loc[e].task = "eval" \/ loc[e].pod = NoPod) /\ UNCHANGED <<podVars, faults>>
    /\ Finish(e, "failed")
    /\ UNCHANGED <<inputVars, rowVars, incoming, messages, history>>

\* _finish refreshes the row and saves it, without a lock between the two.
Refresh(e) ==
    /\ pc[e] = "finish"
    /\ GotoWith(e, "save", [loc[e] EXCEPT !.seen = status])
    /\ UNCHANGED <<inputVars, rowVars, incoming, messages, podVars, history, faults>>

\* Mutant of Save: a status the model does not know.
SaveMisspelt(e) ==
    /\ pc[e] = "save"
    /\ status' = IF loc[e].seen = "canceled" THEN "cancelled" ELSE loc[e].result
    /\ EndExec(e)
    /\ UNCHANGED <<inputVars, podId, descriptors, ledger, incoming, messages,
                   podVars, history, faults>>

Save(e) ==
    /\ pc[e] = "save"
    /\ status' = IF loc[e].seen = "canceled" THEN "canceled" ELSE loc[e].result
    /\ EndExec(e)
    /\ UNCHANGED <<inputVars, podId, descriptors, ledger, incoming, messages,
                   podVars, history, faults>>

\* A worker dies.  Its message is acknowledged: nobody takes the run up again.
Crash(e) ==
    /\ pc[e] # "idle" /\ Fault
    /\ EndExec(e) /\ torn' = TRUE
    /\ lost' = lost \cup Unwatched(e)
    /\ UNCHANGED <<inputVars, rowVars, incoming, messages, pod, cancels>>

\* RunPod: a pod ends by itself; when all went well its outputs are uploaded.
PodEnd(p) ==
    /\ pod[p] = "up"
    /\ pod' = [pod EXCEPT ![p] = "ended"]
    /\ incoming' \in {TRUE, incoming}
    /\ UNCHANGED <<inputVars, rowVars, messages, execVars, lost, history, faults>>

Step(e) ==
    \/ Read(e) \/ Claim(e) \/ Create(e) \/ Record(e) \/ Watch(e) \/ Collect(e)
    \/ Eval(e) \/ Ingest(e) \/ Publish(e) \/ Clean(e) \/ Failing(e)
    \/ Refresh(e) \/ Save(e)

Next ==
    \/ Submit \/ CancelRun
    \/ \E t \in Tasks : DisturbMessage(t)
    \/ \E e \in Execs : (\E t \in Tasks : Receive(e, t)) \/ Step(e) \/ Crash(e)
    \/ \E p \in Pods : PodEnd(p)

\* Workers take messages and go on; the poll has a deadline, so a pod that
\* never ends does not keep its execution.
Fairness ==
    \A e \in Execs : WF_vars(Step(e)) /\ WF_vars(\E t \in Tasks : Receive(e, t))

Spec == Init /\ [][Next]_vars
FairSpec == Spec /\ Fairness

(***************************************************************************)
(* Properties                                                              *)
(***************************************************************************)
Busy(e) == pc[e] # "idle"
Settled == status \in Terminal /\ \A e \in Execs : ~Busy(e)

\* tasks.py:253, 289, 241: a pod that runs is some execution's to terminate,
\* whatever duplicates, cancels and overwritten pod ids do; only a fault (a
\* dead worker, a refused call, an answer lost) leaves one to itself.
PodsAccounted ==
    \A p \in Pods : pod[p] = "up" =>
        p \in lost \/ \E e \in Execs : Busy(e) /\ loc[e].pod = p

\* ingest.py:217, tasks.py:278: a run that succeeded has its ledger and names
\* its trajectories, also while a second execution publishes over it from an
\* older copy of the row; once no execution is left it names everything,
\* unless one died or failed between its two saves.
SucceededPublished ==
    status = "succeeded" =>
        /\ ledger /\ "trajectories" \in descriptors
        /\ Settled /\ ~torn => descriptors = Kinds

\* tasks.py:36, 48: nothing but the save of an execution that refreshed the
\* row before the cancel takes a canceled run out of that status.
CancelOverwrittenOnlyBySave ==
    [][status = "canceled" /\ status' # "canceled" =>
        \E e \in Execs : pc[e] = "save" /\ loc[e].seen # "canceled"]_vars

\* tasks.py:112, 235: without faults, and unless the traces are of a shape the
\* code does not catch, a submitted run reaches a final status, its executions
\* end and no pod is left running.
Settles ==
    (status # "absent")
        ~> \/ faults > 0 \/ traces = "mistyped"
           \/ Settled /\ \A p \in Pods : pod[p] # "up"
=============================================================================
