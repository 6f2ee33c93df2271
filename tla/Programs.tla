------------------------------ MODULE Programs ------------------------------
(***************************************************************************)
(* The programs that run outside the web and worker processes and share no *)
(* state with them or with each other: the two RunPod workers, the bounded *)
(* child process, and the two scripts that prove a renderer.  A behaviour  *)
(* is one of the four; a variable of another program is None, and a        *)
(* variable two programs name alike is the variable of the one that runs.  *)
(***************************************************************************)
EXTENDS Integers, FiniteSets, Sequences

CONSTANTS
    None, Pods, Required, Alien, Built,
    CaseFold, PodScenarios, Receipts, Bodies, Hosts, Files,
    OutputCap, MaxWrites, DownloadCap, LogCap, MaxEvents, MaxChanges

VARIABLES
    program, pc,
    scenario, input, output, request, held, answer, used, writer, tries, faults,
    check, result, leader, code, helper, holds, pipe, listening, got, late, written, survivor,
    directory, binary, server, child, port, reserved, owned, log, drained, drainer,
    failure, leftovers, receipt, passed, against, status, events,
    host, files, images, tag, shared, created, verdict, removal, primary, cleanup, asked,
    probed, removed, moved

Worker == INSTANCE PodWorker WITH Scenarios <- PodScenarios
Bounded == INSTANCE BoundedProcess WITH Cap <- OutputCap, Checks <- BOOLEAN, Nobody <- None
Layout == INSTANCE LocalOracle
Container == INSTANCE ContainerOracle WITH MaxEvents <- MaxChanges

workerVars == <<scenario, input, output, request, held, answer, used, writer, tries, faults>>
boundedVars ==
    <<check, result, leader, code, helper, holds, pipe, listening, got, late, written, survivor>>
layoutVars ==
    <<directory, binary, server, child, port, reserved, owned, log, drained, drainer, failure,
      leftovers, receipt, passed, against>>
containerVars ==
    <<host, files, images, tag, shared, created, verdict, removal, primary, cleanup, asked,
      probed, removed, moved>>
WorkerRests ==
    /\ scenario = None /\ input = None /\ output = None /\ request = None /\ held = None
    /\ answer = None /\ used = None /\ writer = None /\ tries = None /\ faults = None
BoundedRests ==
    /\ check = None /\ result = None /\ leader = None /\ code = None /\ helper = None
    /\ holds = None /\ pipe = None /\ listening = None /\ got = None /\ late = None
    /\ written = None /\ survivor = None
LayoutRests ==
    /\ directory = None /\ binary = None /\ server = None /\ child = None /\ port = None
    /\ reserved = None /\ log = None /\ drained = None /\ drainer = None /\ failure = None
    /\ leftovers = None /\ receipt = None /\ passed = None /\ owned = None /\ against = None
ContainerRests ==
    /\ host = None /\ files = None /\ images = None /\ tag = None /\ shared = None
    /\ created = None /\ verdict = None /\ removal = None /\ primary = None /\ cleanup = None
    /\ asked = None /\ probed = None /\ removed = None /\ moved = None
Not(variables) == UNCHANGED <<program, variables>>

\* Inputs, requests and replies are well formed, None is nothing else, and
\* neither are the images.
ASSUME CapsAssumption == OutputCap \in Nat /\ LogCap \in Nat
ASSUME NoneAssumption ==
    /\ None \notin Pods
    /\ None \notin {"ok", "nonzero", "timeout", "limit", "interrupted", "refused", "unwatched"}
    /\ None \notin {"error", "interrupt"}
    /\ None \notin {0, 1, 2, 130}
ASSUME DataOk == Worker!DataAssumption
ASSUME ImagesAssumption == Built \notin {Alien, None, "unknown"}

ProgramsInit ==
    \/ program = "worker" /\ Worker!Init
       /\ BoundedRests /\ LayoutRests /\ ContainerRests
       /\ status = None /\ events = None
    \/ program = "bounded" /\ Bounded!Init
       /\ WorkerRests /\ LayoutRests /\ ContainerRests
       /\ status = None /\ events = None
    \/ program = "layout" /\ Layout!Init
       /\ WorkerRests /\ BoundedRests /\ ContainerRests
    \/ program = "container" /\ Container!Init
       /\ WorkerRests /\ BoundedRests /\ LayoutRests

ProgramsNext ==
    \/ /\ program = "worker" /\ Worker!Next
       /\ Not(<<boundedVars, layoutVars, containerVars, status, events>>)
    \/ /\ program = "bounded" /\ Bounded!Next
       /\ Not(<<workerVars, layoutVars, containerVars, status, events>>)
    \/ program = "layout" /\ Layout!Next /\ Not(<<workerVars, boundedVars, containerVars>>)
    \/ program = "container" /\ Container!Next /\ Not(<<workerVars, boundedVars, layoutVars>>)

ProgramsVars ==
    <<program, pc, status, events, workerVars, boundedVars, layoutVars, containerVars>>

ProgramsSpec == ProgramsInit /\ [][ProgramsNext]_ProgramsVars

\* An answer of a pod describes its output, and the output is that of its very
\* input (worker.py handler of both images); the result of a command is what
\* happened, what stays behind is reported but in the windows each program names,
\* and a proof is only claimed for what was proved (oracle_process.py
\* run_bounded_process, run-layout-local-oracles.py main,
\* run-rendering-container-oracles.py main).
ProgramsSound ==
    /\ program = "worker" => Worker!PodsDeliver
    /\ program = "bounded" => Bounded!BoundedSound
    /\ program = "layout" => Layout!LocalOracleSound
    /\ program = "container" => Container!ContainerSound

\* What a pod computes of its input is what the operation promises: rows with
\* true spans and one key each, communities that are the connected parts
\* (worker.py _canonical_rows, _find_span, _community_assign).
OutputsRight == program = "worker" => Worker!OutputsRight
=============================================================================
