------------------------------ MODULE MCOffload ------------------------------
(* Small instances of OffloadJob.                                           *)
EXTENDS OffloadJob

Scenario(queues, jobs, messages, canceled, allowed, again, broken, produced) ==
    [queues |-> queues, jobs |-> jobs, messages |-> messages, cancels |-> canceled,
     limit |-> allowed, reruns |-> again, faults |-> broken, others |-> produced]

\* One job with two of a cancel, a re-run and a fault; two that compete for the
\* quota, among themselves and with rows of other producers.
Troubled ==
    {Scenario({"runpod"}, 1, 2, FALSE, 1, 1, 1, 0), Scenario({"runpod"}, 1, 2, TRUE, 1, 1, 0, 0),
     Scenario({"runpod"}, 1, 2, TRUE, 1, 0, 1, 0), Scenario({"r"}, 1, 2, TRUE, 1, 0, 1, 0),
     Scenario({"r"}, 2, 3, TRUE, 1, 0, 0, 0), Scenario({"r"}, 2, 2, TRUE, 1, 1, 0, 0),
     Scenario({"r"}, 2, 2, TRUE, 2, 0, 0, 2)}
Calm == {Scenario({"runpod", "r"}, 1, 2, TRUE, 1, 0, 0, 0)}
=============================================================================
