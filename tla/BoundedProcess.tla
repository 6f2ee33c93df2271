--------------------------- MODULE BoundedProcess ---------------------------
(***************************************************************************)
(* run_bounded_process of apps/rendering/oracle_process.py.                *)
(*                                                                         *)
(* The operator scripts run every command through it: a child that leads a *)
(* process group of its own, two pipes that it and its descendants may     *)
(* write to, a deadline, and a cap on what they write.                     *)
(***************************************************************************)
EXTENDS Integers, FiniteSets

CONSTANTS
    Cap,        \* output_max_bytes, in chunks
    MaxWrites,  \* bound: chunks written
    Checks,     \* values of the parameter check that are used
    Nobody      \* no result, no exit code

VARIABLES
    pc,
    check,      \* the caller wants an error for a nonzero exit code
    result,     \* "ok", "nonzero", "timeout", "limit", "interrupted", "refused",
                \* "unwatched" (an exception no handler acts upon), or Nobody
    leader,     \* "none", "alive" or "dead": the child
    code,       \* its exit code, 0 or 1
    helper,     \* "none", "alive" or "dead": a descendant in its group
    holds,      \* streams whose write end each of the two has open
    pipe,       \* stream -> chunks in the pipe
    listening,  \* streams that are registered with the selector
    got,        \* chunks captured
    late,       \* the deadline has passed
    written,    \* history: chunks written
    survivor    \* history: the leader was dead when the group was to be killed

vars == <<pc, check, result, leader, code, helper, holds, pipe, listening, got, late,
          written, survivor>>

Streams == {"stdout", "stderr"}
Processes == {"leader", "helper"}
Alive(p) == IF p = "leader" THEN leader = "alive" ELSE helper = "alive"
Held(s) == \E p \in Processes : Alive(p) /\ s \in holds[p]

Init ==
    /\ pc = "start"
    /\ check \in Checks
    /\ result = Nobody
    /\ leader = "none" /\ code = Nobody /\ helper = "none"
    /\ holds = [p \in Processes |-> {}]
    /\ pipe = [s \in Streams |-> 0]
    /\ listening = {}
    /\ got = 0 /\ late = FALSE /\ written = 0 /\ survivor = FALSE

End(r) == pc' = "done" /\ result' = r

\* Popen, which may refuse the command.
Open ==
    /\ pc = "start"
    /\ \/ /\ pc' = "opened" /\ UNCHANGED result
          /\ leader' = "alive"
          /\ holds' = [holds EXCEPT !["leader"] = Streams]
       \/ End("refused") /\ UNCHANGED <<leader, holds>>
    /\ UNCHANGED <<check, code, helper, pipe, listening, got, late, written, survivor>>

\* From the fork inside Popen to the try block nothing looks after the child: an
\* interrupt, or an error of the selector, ends the call and leaves it.
Unwatched ==
    /\ pc = "opened" /\ End("unwatched")
    /\ UNCHANGED <<check, leader, code, helper, holds, pipe, listening, got, late, written, survivor>>

\* The try block begins: the pipes are registered.
Watch ==
    /\ pc = "opened" /\ pc' = "loop"
    /\ listening' = Streams
    /\ UNCHANGED <<check, result, leader, code, helper, holds, pipe, got, late, written, survivor>>

\* Mutant of Kill: SIGKILL to the child alone.
KillChild ==
    IF leader = "alive"
    THEN leader' = "dead" /\ UNCHANGED <<helper, survivor>>
    ELSE survivor' = TRUE /\ UNCHANGED <<leader, helper>>

\* _terminate_process_group: the group is killed unless its leader has exited.
Kill ==
    IF leader = "alive"
    THEN /\ leader' = "dead"
         /\ helper' = IF helper = "alive" THEN "dead" ELSE helper
         /\ UNCHANGED survivor
    ELSE survivor' = TRUE /\ UNCHANGED <<leader, helper>>

\* The clock is read before every select, and once more before the wait.
Deadline ==
    /\ pc = "loop" /\ late
    /\ Kill /\ End("timeout")
    /\ UNCHANGED <<check, code, holds, pipe, listening, got, late, written>>

Capture(s) ==
    /\ pc = "loop" /\ s \in listening /\ pipe[s] > 0
    /\ pipe' = [pipe EXCEPT ![s] = @ - 1]
    /\ got' = got + 1
    /\ IF got' > Cap THEN Kill /\ End("limit")
       ELSE UNCHANGED <<leader, helper, survivor, pc, result>>
    /\ UNCHANGED <<check, code, holds, listening, late, written>>

EndOfFile(s) ==
    /\ pc = "loop" /\ s \in listening
    /\ pipe[s] = 0 /\ ~Held(s)
    /\ listening' = listening \ {s}
    /\ UNCHANGED <<pc, check, result, leader, code, helper, holds, pipe, got, late, written, survivor>>

\* process.wait after both ends of file.
Wait ==
    /\ pc = "loop" /\ listening = {} /\ leader = "dead"
    /\ End(IF check /\ code # 0 THEN "nonzero" ELSE "ok")
    /\ UNCHANGED <<check, leader, code, helper, holds, pipe, listening, got, late, written, survivor>>

\* An exception of any kind in the try block, an interrupt among them, is handled
\* by killing the group, unless a second one ends the handler first.
Interrupt ==
    /\ pc = "loop" /\ pc' = "handling"
    /\ UNCHANGED <<check, result, leader, code, helper, holds, pipe, listening, got, late, written, survivor>>

Handle ==
    /\ pc = "handling"
    /\ Kill /\ End("interrupted")
    /\ UNCHANGED <<check, code, holds, pipe, listening, got, late, written>>

Abandon ==
    /\ pc = "handling" /\ End("unwatched")
    /\ UNCHANGED <<check, leader, code, helper, holds, pipe, listening, got, late, written, survivor>>

(***************************************************************************)
(* The child and its descendant                                            *)
(***************************************************************************)
Write(p, s) ==
    /\ Alive(p) /\ s \in holds[p] /\ written < MaxWrites
    /\ pipe' = [pipe EXCEPT ![s] = @ + 1]
    /\ written' = written + 1
    /\ UNCHANGED <<pc, check, result, leader, code, helper, holds, listening, got, late, survivor>>

Close(p, s) ==
    /\ Alive(p) /\ s \in holds[p]
    /\ holds' = [holds EXCEPT ![p] = @ \ {s}]
    /\ UNCHANGED <<pc, check, result, leader, code, helper, pipe, listening, got, late, written, survivor>>

\* A descendant inherits the pipes.
Spawn ==
    /\ leader = "alive" /\ helper = "none"
    /\ helper' = "alive"
    /\ holds' = [holds EXCEPT !["helper"] = holds["leader"]]
    /\ UNCHANGED <<pc, check, result, leader, code, pipe, listening, got, late, written, survivor>>

Exit ==
    /\ \/ /\ leader = "alive" /\ leader' = "dead" /\ code' \in {0, 1}
          /\ UNCHANGED helper
       \/ /\ helper = "alive" /\ helper' = "dead"
          /\ UNCHANGED <<leader, code>>
    /\ UNCHANGED <<pc, check, result, holds, pipe, listening, got, late, written, survivor>>

Elapse ==
    /\ pc = "loop" /\ ~late /\ late' = TRUE
    /\ UNCHANGED <<pc, check, result, leader, code, helper, holds, pipe, listening, got, written, survivor>>

Next ==
    \/ Open \/ Unwatched \/ Watch \/ Deadline \/ Wait \/ Interrupt \/ Handle \/ Abandon
    \/ Elapse \/ Spawn \/ Exit
    \/ \E s \in Streams :
        \/ Capture(s) \/ EndOfFile(s)
        \/ \E p \in Processes : Write(p, s) \/ Close(p, s)

(***************************************************************************)
(* Properties                                                              *)
(***************************************************************************)
\* A command that is reported to have run has run to its end, and all that it
\* and its descendants have written to the pipes was captured, within the cap.
ResultTrue ==
    result \in {"ok", "nonzero"} =>
        /\ leader = "dead"
        /\ got = written /\ got <= Cap
        /\ check => (result = "ok" <=> code = 0)

\* A call that ends leaves no child, and no descendant of it unless the child has
\* run to its end, or had exited before what ended the call, so that its group was
\* not killed.  The windows are named: an exception between the fork and the try
\* block, and a second one in the handler of the first.
NothingLeft ==
    pc = "done" =>
        /\ leader = "alive" => result = "unwatched"
        /\ helper = "alive" => survivor \/ result \in {"ok", "nonzero", "unwatched"}

BoundedSound == ResultTrue /\ NothingLeft
=============================================================================
