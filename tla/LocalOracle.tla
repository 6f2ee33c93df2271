---------------------------- MODULE LocalOracle ----------------------------
(***************************************************************************)
(* scripts/run-layout-local-oracles.py.                                    *)
(*                                                                         *)
(* The script runs the local tests against a storage server of its own: it *)
(* downloads and verifies the binary into a temporary directory, starts it *)
(* on two ports it has found free, drains its log in a thread, proves that *)
(* it is the server it wants, runs the tests and insists on their receipt; *)
(* whatever happens, it then stops the server, sees that the ports are     *)
(* closed, and removes the directory.  The operator may interrupt it at    *)
(* any moment.  Commands it waits for are those of BoundedProcess.         *)
(***************************************************************************)
EXTENDS Integers, FiniteSets, Sequences

CONSTANTS
    Required,   \* the tests that must have run
    Receipts,   \* receipts pytest may leave, or None
    Bodies,     \* responses to the download: [declared, length, genuine]
    DownloadCap, LogCap,
    MaxEvents,  \* bound: what the server, others and the operator do on their own
    None

VARIABLES
    pc,
    directory,  \* the temporary directory exists
    binary,     \* "none", "partial", "genuine" or "alien"
    server,     \* "none", "alive" or "dead": the leader of the server's group
    child,      \* [alive, pipe, port]: a descendant of it, which may have the
                \* log's pipe and the port
    port,       \* "free", "ours" or "other"
    reserved,   \* a port number was chosen
    owned,      \* of "server" and "log", what the script has a variable for
    log,        \* chunks the server has logged that are not drained
    drained,    \* chunks drained
    drainer,    \* "none", "alive", "over" (still draining, past the cap) or "done"
    failure,    \* None, "error" or "interrupt"
    leftovers,  \* what cleanup reports
    receipt,    \* the receipt that was accepted
    status,     \* exit status, or None
    events,
    passed,     \* history: the cleanup was not interrupted
    against     \* history: the binary, and the port, the server was proved with

vars == <<pc, directory, binary, server, child, port, reserved, owned, log, drained, drainer,
          failure, leftovers, receipt, status, events, passed, against>>

serverVars == <<server, child, port, log>>
logVars == <<drained, drainer>>
handVars == <<reserved, owned, against>>
outcomeVars == <<failure, leftovers, receipt, status>>

NoChild == [alive |-> FALSE, pipe |-> FALSE, port |-> FALSE]

Init ==
    /\ pc = "identify"
    /\ directory = FALSE /\ binary = "none"
    /\ server = "none" /\ child = NoChild
    /\ port = "free" /\ reserved = FALSE /\ owned = {}
    /\ log = 0 /\ drained = 0 /\ drainer = "none"
    /\ failure = None /\ leftovers = {} /\ receipt = None /\ status = None
    /\ events = 0 /\ passed = FALSE /\ against = None

Before == {"identify", "makedir"}
Trying == {"download", "version", "reserve", "launch", "attach", "ready", "prove", "test"}
Cleaning == {"terminate", "closelog", "closeport", "remove", "report"}

Goto(label) == pc' = label

Exit(n) == Goto("done") /\ status' = n

\* main prints the error.
FailBefore ==
    /\ Exit(1)
    /\ UNCHANGED <<directory, failure, leftovers, receipt>>

\* The try block ends and the cleanup begins.
Fail(kind) ==
    /\ Goto("terminate")
    /\ failure' = kind
    /\ UNCHANGED <<leftovers, receipt, status>>

Go(label) == Goto(label) /\ UNCHANGED outcomeVars

\* The platform and the Valkey binary, before the try block.
Identify ==
    /\ pc = "identify"
    /\ \/ Go("makedir") /\ UNCHANGED directory
       \/ FailBefore
    /\ UNCHANGED <<binary, serverVars, handVars, logVars, events, passed>>

MakeDir ==
    /\ pc = "makedir"
    /\ Go("download") /\ directory' = TRUE
    /\ UNCHANGED <<binary, serverVars, handVars, logVars, events, passed>>

\* Mutant of Genuine: no checksum.
GenuineUnchecked(body) ==
    /\ body.declared \in {None, body.length}
    /\ body.length <= DownloadCap

\* _download_and_verify: whole and as declared, within cap and deadline, and with
\* the checksum that is pinned.
Genuine(body) ==
    /\ body.declared \in {None, body.length}
    /\ body.length <= DownloadCap
    /\ body.genuine

\* What was downloaded by then is removed, unless that fails too.
Download ==
    /\ pc = "download"
    /\ \E body \in Bodies, late \in BOOLEAN :
        IF Genuine(body) /\ ~late
        THEN Go("version") /\ binary' = IF body.genuine THEN "genuine" ELSE "alien"
        ELSE Fail("error") /\ binary' \in {"none", "partial"}
    /\ UNCHANGED <<directory, serverVars, handVars, logVars, events, passed>>

\* _verify_binary_identity
Version ==
    /\ pc = "version"
    /\ Go("reserve") \/ Fail("error")
    /\ UNCHANGED <<directory, binary, serverVars, handVars, logVars, events, passed>>

\* Free ports are found by binding them; they are free again before the server
\* binds them.
Reserve ==
    /\ pc = "reserve"
    /\ \/ port = "free" /\ Go("launch") /\ reserved' = TRUE
       \/ Fail("error") /\ UNCHANGED reserved
    /\ UNCHANGED <<directory, binary, serverVars, owned, against, logVars, events, passed>>

\* An interrupt between the start of something and the assignment of it.
Between ==
    /\ events < MaxEvents /\ events' = events + 1
    /\ Fail("interrupt") /\ UNCHANGED owned

\* Popen: the server is there from the fork on, and known from the assignment on.
Launch ==
    /\ pc = "launch"
    /\ \/ /\ server' = "alive"
          /\ \/ Go("attach") /\ owned' = owned \cup {"server"} /\ UNCHANGED events
             \/ Between
       \/ Fail("error") /\ UNCHANGED <<server, owned, events>>
    /\ UNCHANGED <<directory, binary, child, port, reserved, against, log, logVars, passed>>

\* The thread of _BoundedProcessLog starts.
Attach ==
    /\ pc = "attach"
    /\ drainer' = "alive"
    /\ \/ Go("ready") /\ owned' = owned \cup {"log"} /\ UNCHANGED events
       \/ Between
    /\ UNCHANGED <<directory, binary, serverVars, reserved, against, drained, passed>>

\* _wait_for_minio: whoever has the port may answer that it is ready.
Ready ==
    /\ pc = "ready"
    /\ \/ drainer # "over" /\ server = "alive" /\ port # "free" /\ Go("prove")
       \/ Fail("error")
    /\ UNCHANGED <<directory, binary, serverVars, handVars, logVars, events, passed>>

\* _prove_minio_identity_and_bucket: nobody else knows the keys of the server.
Prove ==
    /\ pc = "prove"
    /\ \/ /\ port = "ours" /\ Go("test")
          /\ against' = [binary |-> binary, port |-> port]
       \/ Fail("error") /\ UNCHANGED against
    /\ UNCHANGED <<directory, binary, serverVars, reserved, owned, logVars, events, passed>>

\* Mutant of Accepted: goes by the counters of the receipt.
AcceptedCounts(r) ==
    /\ r # None
    /\ r.tests = Cardinality(Required) /\ r.skipped = 0 /\ r.failures = 0

\* _require_pytest_receipt: a receipt is [tests, skipped, failures, cases], where
\* failures counts errors too and a case is [test, passed].
Accepted(r) ==
    /\ r # None
    /\ r.tests = Cardinality(Required) /\ r.skipped = 0 /\ r.failures = 0
    /\ Len(r.cases) = Cardinality(Required)
    /\ {r.cases[i].test : i \in DOMAIN r.cases} = Required
    /\ \A i \in DOMAIN r.cases : r.cases[i].passed

\* _run_pytest: the tests exit with 0, and have left a receipt.
Test ==
    /\ pc = "test"
    /\ \/ \E r \in Receipts :
            IF Accepted(r)
            THEN /\ Goto("terminate") /\ receipt' = r
                 /\ UNCHANGED <<failure, leftovers, status>>
            ELSE Fail("error")
       \/ Fail("error")
    /\ UNCHANGED <<directory, binary, serverVars, handVars, logVars, events, passed>>

(***************************************************************************)
(* The finally block: a step that fails is reported and the next one taken.*)
(***************************************************************************)
Report(what, label) ==
    /\ Goto(label) /\ leftovers' = leftovers \cup what
    /\ UNCHANGED <<failure, receipt, status>>

\* _terminate_process_group: SIGTERM to the group, then SIGKILL.  The leader is
\* waited for; what a descendant does with SIGTERM is its own affair.
Terminate ==
    /\ pc = "terminate"
    /\ IF server # "alive" \/ "server" \notin owned
       THEN Report({}, "closelog") /\ UNCHANGED <<server, child, port>>
       ELSE \/ /\ server' = "dead"
               /\ child' \in {child, NoChild}
               /\ port' = IF port = "ours" /\ ~child'.port THEN "free" ELSE port
               /\ Report({}, "closelog")
            \/ /\ Report({"server"}, "closelog")
               /\ child' = NoChild
               /\ UNCHANGED <<server, port>>
    /\ UNCHANGED <<directory, binary, handVars, log, logVars, events, passed>>

Writable == server = "alive" \/ (child.alive /\ child.pipe)

\* process_log.close, of a log that the script knows: the thread ends at the end of
\* the file, or does not.  A server that logged too much has failed.
CloseLog ==
    /\ pc = "closelog"
    /\ Goto("closeport")
    /\ \/ /\ "log" \notin owned
          /\ UNCHANGED <<drainer, leftovers, failure>>
       \/ /\ "log" \in owned
          /\ \/ /\ Writable /\ UNCHANGED drainer
                /\ leftovers' = leftovers \cup {"drainer"}
             \/ /\ ~Writable /\ log = 0 /\ drainer' = "done"
                /\ UNCHANGED leftovers
          /\ failure' = IF drainer = "over" /\ failure = None THEN "error" ELSE failure
    /\ UNCHANGED <<directory, binary, serverVars, handVars, drained, receipt, status, events, passed>>

\* Mutant of ClosePort: the port is not looked at.
ClosePortBlind ==
    /\ pc = "closeport"
    /\ Report({}, "remove")
    /\ UNCHANGED <<directory, binary, serverVars, handVars, logVars, events, passed>>

\* _require_closed_port
ClosePort ==
    /\ pc = "closeport"
    /\ Report(IF reserved /\ port # "free" THEN {"port"} ELSE {}, "remove")
    /\ UNCHANGED <<directory, binary, serverVars, handVars, logVars, events, passed>>

Remove ==
    /\ pc = "remove"
    /\ \/ directory' = FALSE /\ binary' = "none" /\ Report({}, "report")
       \/ Report({"directory"}, "report") /\ UNCHANGED <<directory, binary>>
    /\ UNCHANGED <<serverVars, handVars, logVars, events, passed>>

\* The rest of run_oracles, and main: every failure of the try block has become
\* a LocalOracleError, an interrupt too.
Outcome ==
    /\ pc = "report"
    /\ Exit(IF leftovers # {} \/ failure # None \/ receipt = None THEN 1 ELSE 0)
    /\ passed' = TRUE
    /\ UNCHANGED <<directory, binary, serverVars, handVars, logVars, failure, leftovers, receipt, events>>

(***************************************************************************)
(* The drainer, the server, other programs and the operator                *)
(***************************************************************************)
\* Past the cap the thread kills the group once, and drains on.
Drain ==
    /\ drainer \in {"alive", "over"} /\ log > 0 /\ pc # "done"
    /\ log' = log - 1
    /\ drained' = drained + 1
    /\ IF drained' > LogCap /\ drainer = "alive"
       THEN /\ drainer' = "over"
            /\ server' = "dead" /\ child' = NoChild
            /\ port' = IF port = "ours" THEN "free" ELSE port
       ELSE UNCHANGED <<drainer, server, child, port>>
    /\ UNCHANGED <<pc, directory, binary, handVars, outcomeVars, events, passed>>

\* KeyboardInterrupt: before the try block it ends the script, in it it is a
\* failure like any other, and the cleanup does not catch it.  (The finalizer of the
\* temporary directory, which the interpreter may run as it exits, is left out.)
Interrupt ==
    /\ \/ /\ pc \in Trying /\ Fail("interrupt")
       \/ /\ pc \in Before \cup Cleaning /\ Exit(130)
          /\ UNCHANGED <<failure, leftovers, receipt>>
    /\ UNCHANGED <<directory, binary, serverVars, handVars, logVars, passed>>

ServerLogs == Writable /\ log' = log + 1 /\ UNCHANGED <<server, child, port>>
\* The port goes with whoever listens on it last.
ServerListens == server = "alive" /\ port = "free" /\ reserved /\ port' = "ours"
                 /\ UNCHANGED <<server, child, log>>
ServerForks ==
    /\ server = "alive" /\ ~child.alive
    /\ child' \in [alive : {TRUE}, pipe : BOOLEAN, port : {FALSE, port = "ours"}]
    /\ UNCHANGED <<server, port, log>>
ServerDies ==
    /\ server = "alive" /\ server' = "dead"
    /\ port' = IF port = "ours" /\ ~child.port THEN "free" ELSE port
    /\ UNCHANGED <<child, log>>
ChildDies ==
    /\ child.alive /\ child' = NoChild
    /\ port' = IF port = "ours" /\ server # "alive" THEN "free" ELSE port
    /\ UNCHANGED <<server, log>>
OtherBinds == port = "free" /\ port' = "other" /\ UNCHANGED <<server, child, log>>
OtherLeaves == port = "other" /\ port' = "free" /\ UNCHANGED <<server, child, log>>

Event ==
    /\ events < MaxEvents /\ events' = events + 1 /\ pc # "done"
    /\ \/ Interrupt
       \/ /\ ServerLogs \/ ServerListens \/ ServerForks \/ ServerDies \/ ChildDies \/ OtherBinds \/ OtherLeaves
          /\ UNCHANGED <<pc, directory, binary, handVars, logVars, outcomeVars, passed>>

Next ==
    \/ Identify \/ MakeDir \/ Download \/ Version \/ Reserve \/ Launch \/ Attach \/ Ready
    \/ Prove \/ Test
    \/ Terminate \/ CloseLog \/ ClosePort \/ Remove \/ Outcome
    \/ Drain \/ Event

(***************************************************************************)
(* Properties                                                              *)
(***************************************************************************)
\* An exit of 0, "verified": every required test has passed, once, and nothing else
\* was run; the server they ran against had been proved to be the one that was
\* started on that port, of the binary that is pinned; it has stayed within the
\* cap of its log; and it is gone, with its pipe, its port and the directory.
VerifiedTrue ==
    status = 0 =>
        /\ \A t \in Required : \E i \in DOMAIN receipt.cases :
              receipt.cases[i].test = t /\ receipt.cases[i].passed
        /\ Len(receipt.cases) = Cardinality(Required)
        /\ receipt.skipped = 0 /\ receipt.failures = 0
        /\ against = [binary |-> "genuine", port |-> "ours"]
        /\ drained <= LogCap /\ log = 0
        /\ server = "dead" /\ port # "ours"
        /\ ~(child.alive /\ child.pipe)
        /\ ~directory

\* A cleanup that is not itself interrupted reports what it leaves: a server that
\* runs, a port it or its descendant has, a pipe that is held, the directory.  Of
\* a server or a log whose start was interrupted before it was assigned the
\* script knows nothing.
LeftoversReported ==
    status # None /\ passed =>
        /\ directory => "directory" \in leftovers
        /\ server = "alive" /\ "server" \in owned => "server" \in leftovers
        /\ port = "ours" /\ "server" \in owned => leftovers \cap {"server", "port"} # {}
        /\ "log" \in owned /\ child.alive /\ child.pipe => "drainer" \in leftovers

LocalOracleSound == VerifiedTrue /\ LeftoversReported
=============================================================================
