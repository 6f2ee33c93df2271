--------------------------- MODULE MCControlPlane ---------------------------
(* Small instances of ControlPlane.                                           *)
EXTENDS ControlPlane
CONSTANTS s1, s2
Scenario(maxEvents, keysOn, maxReports, atOnce, peersOn, maxFaults) ==
    [events |-> maxEvents, keys |-> keysOn, reports |-> maxReports, workers |-> atOnce,
     peers |-> peersOn, faults |-> maxFaults]
const_Slugs == {s1, s2}
const_Scenarios ==
    {Scenario(5, FALSE, 0, 1, FALSE, 0),  \* one handler at a time, any order
     Scenario(4, FALSE, 0, 1, FALSE, 1),  \* and an event twice, or given up on
     Scenario(3, FALSE, 0, 2, FALSE, 0),  \* two handlers at once
     Scenario(4, FALSE, 0, 1, TRUE, 0),   \* the caches of the peers
     Scenario(2, FALSE, 0, 1, TRUE, 1),   \* and an edit by hand, or an outage
     Scenario(0, TRUE, 0, 0, TRUE, 1),    \* keys
     Scenario(0, FALSE, 4, 2, FALSE, 1)}  \* usage
=============================================================================
