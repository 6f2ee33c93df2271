------------------------------ MODULE Services ------------------------------
(***************************************************************************)
(* The two services of the web processes, LayoutService and RenderService. *)
(* They run in the same processes and share no state, so a behaviour is    *)
(* one of either while the other one rests.  What the two name alike, the  *)
(* scenario, the positions of the threads and the bounds, is of the one    *)
(* that runs.                                                              *)
(***************************************************************************)
EXTENDS LayoutService

CONSTANTS Garbled, Payloads, Keys, MaxBytes, OutputCap, Renders, RenderScenarios

VARIABLES bucket, links, call, answer, disturbed, drawing

\* The rendering service and its store.
R == INSTANCE RenderService WITH Scenarios <- RenderScenarios, None <- Unset

\* What callers keep to, and that a scenario says which service runs.
ASSUME CallsOk == R!CallsAssumption
ASSUME ScenariosApart == Scenarios \cap RenderScenarios = {}

layoutVars == <<req, reply, left, held, now, memory, valkey, up, version, day>>
renderVars == <<bucket, links, call, answer, disturbed, drawing>>
sharedVars == <<scenario, pc, asks, faults>>

RenderRests == R!Fresh /\ drawing = [t \in Threads |-> Unset]

ServicesInit ==
    \/ Init /\ RenderRests
    \/ R!Init /\ Fresh

ServicesNext ==
    \/ scenario \in Scenarios /\ Next /\ UNCHANGED renderVars
    \/ scenario \in RenderScenarios /\ R!Next /\ UNCHANGED layoutVars

ServicesSpec == ServicesInit /\ [][ServicesNext]_<<sharedVars, layoutVars, renderVars>>

\* What the services keep or publish is what its key says it is: cached layouts
\* (cache.py set_cached_response), objects and links (artifacts.py), rendered
\* images (rendering/service.py).
ServicesSound == CachesSound /\ R!StoreSound /\ R!RendersTrue
=============================================================================
