----------------------------- MODULE MCTraining -----------------------------
(* Two worker slots; one submission, one cancel and two faults make at most   *)
(* four executions of a run, each with a pod of its own.                     *)
EXTENDS TrainingRun
const_Pods == 1..4
=============================================================================
