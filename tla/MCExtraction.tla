---------------------------- MODULE MCExtraction ----------------------------
(* Instances of ExtractionJob for TLC. *)
EXTENDS ExtractionJob, TLC

CONSTANTS e1, e2

MCExecs == {e1, e2}

\* No disturbance: rows of the source, rows that fit in a shard, splits, and
\* the outcomes of a shard of one row and of a larger one.
Quiet(rows, fit, splits, one, two) ==
    [rows |-> rows, fit |-> fit, splits |-> splits,
     outcomes |-> [n \in 0..MaxRows |-> IF n < 2 THEN one ELSE two],
     cancels |-> 0, reruns |-> 0, faults |-> 0, actors |-> 2]

Either == {"", "oversize"}

\* Two executions that split the same shard; an empty source; and a cancel, a
\* re-run or faults (a cancel that fails among them), of a job with one shard,
\* with one that is split, or with two shards.
MCScenarios ==
    {Quiet(2, 2, 2, {""}, {"oversize"}), Quiet(0, 2, 0, Either, Either),
     [Quiet(2, 2, 1, {""}, Either) EXCEPT !.cancels = 1],
     [Quiet(2, 1, 0, {"", "error"}, Either) EXCEPT !.cancels = 1],
     [Quiet(1, 1, 0, {""}, {""}) EXCEPT !.cancels = 1, !.faults = 1],
     [Quiet(1, 1, 0, Either, Either) EXCEPT !.reruns = 1],
     [Quiet(1, 1, 0, Either, Either) EXCEPT !.faults = 2],
     [Quiet(2, 2, 1, Either, Either) EXCEPT !.faults = 1],
     [Quiet(2, 1, 0, {"", "error"}, Either) EXCEPT !.faults = 1]}
=============================================================================
