-------------------------- MODULE ContainerOracle --------------------------
(***************************************************************************)
(* scripts/run-rendering-container-oracles.py.                             *)
(*                                                                         *)
(* The script looks for a Docker client with a local daemon, builds the    *)
(* declared image under a tag nobody has, runs its probe in a container of *)
(* that tag, and removes the image again.  The daemon is shared: others    *)
(* may move the tag, tag the image a second time or remove it.             *)
(***************************************************************************)
EXTENDS Integers, FiniteSets

CONSTANTS
    Hosts,      \* what the script may find: [docker, version, endpoint, info]
    Files,      \* declared files as they may be: [docker, requirements, ignore, space]
    Alien,      \* an image of somebody else
    Built,      \* the image the script builds
    MaxEvents,  \* bound: what others and the operator do
    None

VARIABLES
    pc, host, files,
    images,     \* images the daemon has
    tag,        \* the image under the tag of the script, or None
    shared,     \* the built image has another tag too
    created,    \* the image id the script has read, or None
    verdict,    \* last answer about the tag: an image, None, or "unknown"
    removal,    \* the exit of image rm was 0
    primary,    \* None, "error", "prerequisite" or "interrupt"
    cleanup,    \* the cleanup has failed
    status,     \* exit status, or None
    asked,      \* history: endpoints that were sent a command
    probed,     \* history: the image the probe ran in
    removed,    \* history: images the script has removed
    moved,      \* history: others have moved the tag
    events

vars == <<pc, host, files, images, tag, shared, created, verdict, removal, primary, cleanup,
          status, asked, probed, removed, moved, events>>

daemonVars == <<images, tag, shared>>
historyVars == <<asked, probed, removed>>
envVars == <<host, files, moved, events>>

Init ==
    /\ pc = "inspect"
    /\ host \in Hosts /\ files \in Files
    /\ images = {Alien} /\ tag \in {None, Alien} /\ shared = FALSE
    /\ created = None /\ verdict = None /\ removal = FALSE
    /\ primary = None /\ cleanup = FALSE /\ status = None
    /\ asked = {} /\ probed = None /\ removed = {} /\ moved = FALSE /\ events = 0

Goto(label) == pc' = label

End(n) == pc' = "done" /\ status' = n

\* inspect_runtime_candidates on the docker client: only a local socket is sent
\* a command; the info command's limits are not caught.
Candidate(h) ==
    CASE ~h.docker -> "missing"
      [] h.docker /\ h.version # "ok" -> "unusable"
      [] h.docker /\ h.version = "ok" /\ h.endpoint # "local" -> "remote-refused"
      [] h.docker /\ h.version = "ok" /\ h.endpoint = "local" ->
            IF h.info = "ok" THEN "usable" ELSE "daemon-unavailable"

Asks(h) == h.docker /\ h.version = "ok" /\ h.endpoint = "local"

\* Mutant of Inspect: asks the daemon first and refuses its endpoint afterwards.
InspectFirst ==
    /\ pc = "inspect"
    /\ asked' = IF host.docker /\ host.version = "ok" THEN {host.endpoint} ELSE {}
    /\ IF Asks(host) /\ host.info = "raises" THEN End(1) ELSE Goto("declared") /\ UNCHANGED status
    /\ UNCHANGED <<daemonVars, created, verdict, removal, primary, cleanup, probed, removed, envVars>>

Inspect ==
    /\ pc = "inspect"
    /\ asked' = IF Asks(host) THEN {host.endpoint} ELSE {}
    /\ IF Asks(host) /\ host.info = "raises" THEN End(1) ELSE Goto("declared") /\ UNCHANGED status
    /\ UNCHANGED <<daemonVars, created, verdict, removal, primary, cleanup, probed, removed, envVars>>

\* The declared files, select_runtime, and run_container_oracle up to the tag.
Declared ==
    /\ pc = "declared"
    /\ IF ~(files.docker /\ files.requirements /\ files.ignore) THEN End(1)
       ELSE IF Candidate(host) # "usable" \/ ~files.space THEN End(2)
       ELSE Goto("reserve") /\ UNCHANGED status
    /\ UNCHANGED <<daemonVars, created, verdict, removal, primary, cleanup, historyVars, envVars>>

\* inspect_image_id: an answer, or none that can be read.
Answers == {tag, "unknown"}

\* reserve_image_tag
Reserve ==
    /\ pc = "reserve"
    /\ verdict' \in Answers
    /\ IF verdict' = None THEN Goto("build") /\ UNCHANGED status ELSE End(1)
    /\ UNCHANGED <<daemonVars, created, removal, primary, cleanup, historyVars, envVars>>

(***************************************************************************)
(* The try block                                                           *)
(***************************************************************************)
Fail(kind) ==
    /\ primary' = kind
    /\ Goto(IF created' = None THEN "outcome" ELSE "before")

\* A build that succeeds has written its id; one that fails, or is stopped at a
\* limit, may have left image and tag.
Build ==
    /\ pc = "build"
    /\ \/ /\ images' = images \cup {Built} /\ tag' = Built
          /\ \/ Goto("readid") /\ UNCHANGED <<created, primary>>
             \/ UNCHANGED created /\ Fail("error")
       \/ /\ UNCHANGED created /\ Fail("error")
          /\ UNCHANGED <<images, tag>>
    /\ UNCHANGED <<shared, verdict, removal, cleanup, status, historyVars, envVars>>

\* _read_created_image_id, which may find no id.
ReadId ==
    /\ pc = "readid"
    /\ \/ created' = Built /\ Goto("checktag") /\ UNCHANGED primary
       \/ UNCHANGED created /\ Fail("error")
    /\ UNCHANGED <<daemonVars, verdict, removal, cleanup, status, historyVars, envVars>>

CheckTag ==
    /\ pc = "checktag"
    /\ UNCHANGED created
    /\ verdict' \in Answers
    /\ IF verdict' = created THEN Goto("probe") /\ UNCHANGED primary ELSE Fail("error")
    /\ UNCHANGED <<daemonVars, removal, cleanup, status, historyVars, envVars>>

\* The container is started by tag; the probe of another image may pass as well.
Probe ==
    /\ pc = "probe"
    /\ UNCHANGED created
    /\ \/ tag # None /\ probed' = tag /\ Goto("before") /\ UNCHANGED primary
       \/ Fail("error") /\ UNCHANGED probed
    /\ UNCHANGED <<daemonVars, verdict, removal, cleanup, status, asked, removed, envVars>>

(***************************************************************************)
(* cleanup_created_image                                                   *)
(***************************************************************************)
CleanupFails == cleanup' = TRUE /\ Goto("outcome")

Before ==
    /\ pc = "before"
    /\ verdict' \in Answers
    /\ IF verdict' # created THEN CleanupFails ELSE Goto("remove") /\ UNCHANGED cleanup
    /\ UNCHANGED <<daemonVars, created, removal, primary, status, historyVars, envVars>>

\* Mutant of Remove: by tag.
RemoveTag ==
    /\ pc = "remove" /\ Goto("after")
    /\ IF tag # None
       THEN /\ removal' = TRUE
            /\ removed' = removed \cup {tag}
            /\ images' = images \ {tag}
            /\ tag' = None
       ELSE removal' = FALSE /\ UNCHANGED <<images, tag, removed>>
    /\ UNCHANGED <<shared, created, verdict, primary, cleanup, status, asked, probed, envVars>>

\* image rm of the immutable id: refused while the image has several tags, and
\* it may fail with or without effect.
Remove ==
    /\ pc = "remove" /\ Goto("after")
    /\ \/ /\ created \in images /\ ~shared
          /\ removal' \in BOOLEAN
          /\ removed' = removed \cup {created}
          /\ images' = images \ {created}
          /\ tag' = IF tag = created THEN None ELSE tag
       \/ removal' = FALSE /\ UNCHANGED <<images, tag, removed>>
    /\ UNCHANGED <<shared, created, verdict, primary, cleanup, status, asked, probed, envVars>>

After ==
    /\ pc = "after"
    /\ verdict' \in Answers
    /\ IF verdict' # None \/ ~removal THEN CleanupFails
       ELSE Goto("outcome") /\ UNCHANGED cleanup
    /\ UNCHANGED <<daemonVars, created, removal, primary, status, historyVars, envVars>>

\* raise_after_cleanup is not reached by an interrupt.
Outcome ==
    /\ pc = "outcome"
    /\ End(IF primary = "interrupt" THEN 130
           ELSE IF primary # None \/ cleanup THEN 1 ELSE 0)
    /\ UNCHANGED <<daemonVars, created, verdict, removal, primary, cleanup, historyVars, envVars>>

(***************************************************************************)
(* Others, and the operator                                                *)
(***************************************************************************)
Event(Happens) ==
    /\ events < MaxEvents /\ events' = events + 1 /\ pc # "done"
    /\ Happens
    /\ UNCHANGED <<host, files, verdict, removal, historyVars>>

Retag ==
    /\ \E i \in images \cup {None} : i # tag /\ tag' = i
    /\ moved' = TRUE
    /\ UNCHANGED <<images, shared>>

TagAgain == Built \in images /\ shared' = ~shared /\ UNCHANGED <<images, tag, moved>>

Prune ==
    /\ Built \in images /\ images' = images \ {Built}
    /\ tag' = IF tag = Built THEN None ELSE tag
    /\ shared' = FALSE
    /\ moved' = TRUE

Others ==
    /\ Retag \/ TagAgain \/ Prune
    /\ UNCHANGED <<pc, created, primary, cleanup, status>>

Interrupt ==
    /\ UNCHANGED <<created, daemonVars, moved>>
    /\ \/ pc \in {"inspect", "declared", "reserve"} /\ End(130) /\ UNCHANGED <<primary, cleanup>>
       \/ pc \in {"build", "readid", "checktag", "probe"} /\ Fail("interrupt")
          /\ UNCHANGED <<cleanup, status>>
       \/ pc \in {"before", "remove", "after"} /\ End(130) /\ UNCHANGED <<primary, cleanup>>

Next ==
    \/ Inspect \/ Declared \/ Reserve \/ Build \/ ReadId \/ CheckTag \/ Probe
    \/ Before \/ Remove \/ After \/ Outcome
    \/ Event(Others) \/ Event(Interrupt)

(***************************************************************************)
(* Properties                                                              *)
(***************************************************************************)
\* Only a local daemon is sent a command, and only the image that was built is
\* removed, whoever has moved the tag meanwhile.
Careful == asked \subseteq {"local"} /\ removed \subseteq {Built}

\* "passed; helper image removed": the probe has run, in the image that was built
\* unless others moved the tag, and the image is gone.
PassedTrue ==
    status = 0 =>
        /\ probed # None /\ (probed = Built \/ moved)
        /\ Built \notin images

\* A built image that stays is told: a failed exit, with the failure of the
\* cleanup unless the script has never known its id or was interrupted.
SurvivorTold ==
    status # None /\ Built \in images =>
        /\ status # 0
        /\ cleanup \/ created = None \/ status = 130

ContainerSound == Careful /\ PassedTrue /\ SurvivorTold
=============================================================================
