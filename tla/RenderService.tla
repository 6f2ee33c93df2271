---------------------------- MODULE RenderService ----------------------------
(***************************************************************************)
(* Rendering: apps/rendering/{api,service}.py on top of the artifact store.*)
(*                                                                         *)
(* A web thread admits a source, draws it in a child process, checks what  *)
(* the child has drawn, publishes it and answers with a link; a descriptor *)
(* that was answered earlier is refreshed with a new link.                 *)
(***************************************************************************)
EXTENDS ArtifactStore

CONSTANTS
    OutputCap,   \* RENDER_OUTPUT_MAX_BYTES
    Renders      \* requests, [renderer, source, format, tenant, runtime]: source
                 \* is blank, refused or fine, runtime whether jar, checksum,
                 \* version and security profile are those that are pinned

VARIABLE drawing \* thread: the request it renders, or None

Init == StoreInit /\ drawing = [t \in Threads |-> None]

\* Without a call of the store the answer is about the drawing.
Stop(t, outcome) ==
    /\ Return(t, outcome, None)
    /\ UNCHANGED <<bucket, links, call, disturbed>>

\* The schemas, and the checks that need no child: render_plantuml up to the
\* digest of the jar, validate_diagrams_source.
Receive(t, r) ==
    /\ pc[t] = "idle" /\ t \in scenario.threads /\ r \in scenario.renders
    /\ asks < scenario.asks /\ asks' = asks + 1
    /\ drawing' = [drawing EXCEPT ![t] = r]
    /\ call' = [call EXCEPT ![t] = None]
    /\ disturbed' = disturbed \ {t}
    /\ CASE r.source # "fine" -> Return(t, "invalid", None)
         [] r.source = "fine" /\ r.renderer = "diagrams" ->
                pc' = [pc EXCEPT ![t] = "draw"] /\ answer' = [answer EXCEPT ![t] = NoAnswer]
         [] r.source = "fine" /\ r.renderer = "plantuml" /\ r.runtime ->
                pc' = [pc EXCEPT ![t] = "verify"] /\ answer' = [answer EXCEPT ![t] = NoAnswer]
         [] r.source = "fine" /\ r.renderer = "plantuml" /\ ~r.runtime ->
                Return(t, "unavailable", None)
    /\ UNCHANGED <<scenario, bucket, links, faults>>

\* java -version, in a child of its own; its release is the one that is pinned.
Verify(t) ==
    /\ pc[t] = "verify"
    /\ Goto(t, "draw")
    /\ UNCHANGED <<scenario, bucket, links, call, disturbed, asks, faults, drawing>>

\* _run: the deadline kills the group of the child; it exits with an error, or
\* its output is empty or over the cap.
RunFails(t) ==
    /\ pc[t] \in {"verify", "draw"}
    /\ \E outcome \in {"timeout", "unavailable"} : Stop(t, outcome)
    /\ UNCHANGED <<scenario, asks, faults, drawing>>

\* _validate_svg, the document in which PlantUML reports an error, and the
\* signature of a PNG.
Accepted(r, p) ==
    /\ p.size \in 1..OutputCap
    /\ CASE r.format = "png" -> p.form = "png"
         [] r.format = "svg" /\ r.renderer = "diagrams" -> p.form \in {"svg", "diagnostic"}
         [] r.format = "svg" /\ r.renderer = "plantuml" -> p.form = "svg"

RenderCall(r, p) ==
    [op |-> "render", tenant |-> r.tenant, payload |-> p, expect |-> None, proper |-> TRUE,
     key |-> [tenant |-> r.tenant, folder |-> "renders", name |-> r.format,
              digest |-> None, clean |-> TRUE]]

\* What the child has drawn goes to the store, or is no drawing.
Draw(t, p) ==
    LET r == drawing[t]
    IN  /\ pc[t] = "draw"
        /\ IF Accepted(r, p)
           THEN Enter(t, RenderCall(r, p)) /\ UNCHANGED <<bucket, links>>
           ELSE Stop(t, "unavailable")
        /\ UNCHANGED <<scenario, asks, faults, drawing>>

\* _render_and_store, refresh_render_descriptor: the status of the answer.  That
\* an object is missing is an answer to a refresh only.
Status(t) ==
    LET outcome == answer[t].outcome
    IN  CASE outcome = "none" -> 0
          [] outcome = "ok" -> 200
          [] outcome = "invalid" -> 422
          [] outcome = "timeout" -> 504
          [] outcome = "missing" /\ drawing[t] = None -> 404
          [] OTHER -> 503

Next ==
    \/ \E t \in Threads :
        \/ \E r \in Renders : Receive(t, r)
        \/ Verify(t) \/ RunFails(t)
        \/ \E p \in Payloads : Draw(t, p)
        \/ \E c \in scenario.calls : Begin(t, c) /\ drawing' = [drawing EXCEPT ![t] = None]
        \/ StoreStep(t) /\ UNCHANGED drawing
    \/ Outside /\ UNCHANGED drawing

Spec == Init /\ [][Next]_<<vars, drawing>>

(***************************************************************************)
(* What the callers keep to.  Keys that are in use are in Keys; a drawing  *)
(* is written by this service alone, and tables are written, and PUT links *)
(* handed out, for keys without a digest (orchestration/api.py:140,        *)
(* tasks.py:249, rl/tasks.py:171, extraction/planner.py:320).              *)
(***************************************************************************)
CallOk(c) ==
    /\ c # None
    /\ c.op \in {"web", "rl", "competence", "table", "delete", "delete_competence",
                "presign_get", "presign_put"} \cup Reads
    /\ c.op \in {"table", "presign_put"} => c.key.digest = None /\ c.key.folder # "renders"
    /\ Admissible(c) => KeyOf(c) \in Keys
RenderOk(r) ==
    /\ r.renderer \in {"plantuml", "diagrams"} /\ r.format \in {"svg", "png"}
    /\ \A p \in Payloads :
          /\ RenderCall(r, p) # None
          /\ Admissible(RenderCall(r, p)) => KeyOf(RenderCall(r, p)) \in Keys
CallsAssumption ==
    /\ None \notin Threads \cup Renders
    /\ \A s \in Scenarios : \A c \in s.calls : CallOk(c)
    /\ \A r \in Renders : RenderOk(r)

\* A render that is answered with a link has an image behind it that is a
\* drawing, of the format that was asked for, under a key of its tenant; and
\* nothing else is ever found where drawings are
\* (service.py render_plantuml, render_diagrams; artifacts.py render_artifact_key).
RendersTrue ==
    /\ \A t \in Threads : Status(t) = 200 /\ drawing[t] # None =>
        /\ Accepted(drawing[t], call[t].payload)
        /\ KeyOf(call[t]).tenant = drawing[t].tenant
        /\ KeyOf(call[t]).name = drawing[t].format
    /\ \A k \in Keys : k.folder = "renders" /\ bucket[k] \notin {None, Garbled} =>
        bucket[k].form \in (IF k.name = "png" THEN {"png"} ELSE {"svg", "diagnostic"})
=============================================================================
