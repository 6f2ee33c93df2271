--------------------------- MODULE LayoutContract ---------------------------
(***************************************************************************)
(* What POST /internal/layout/compute promises, whatever is cached where:  *)
(* a caller gets the layout of the graph it sent, as the release that      *)
(* answers computes it, or a refusal that its request or the engine gives  *)
(* rise to, and nothing but a timeout once its ten seconds are over.       *)
(***************************************************************************)
CONSTANTS
    Clients, Requests, Releases,
    None,            \* no request, no reply, no body
    Layout(_, _),    \* the body for a request, computed afresh by a release
    Refusals(_)      \* statuses that a request brings on itself

VARIABLES
    asked,    \* client -> its request
    reply,    \* client -> the status and body of its answer, or none yet
    late,     \* client -> its deadline has passed
    release   \* client -> the release it talks to

vars == <<asked, reply, late, release>>

Init ==
    /\ asked = [c \in Clients |-> None]
    /\ reply = [c \in Clients |-> None]
    /\ late = [c \in Clients |-> FALSE]
    /\ release \in [Clients -> Releases]

Ask(c, r) ==
    /\ asked[c] = None \/ reply[c] # None
    /\ asked' = [asked EXCEPT ![c] = r]
    /\ reply' = [reply EXCEPT ![c] = None]
    /\ late' = [late EXCEPT ![c] = FALSE]
    /\ UNCHANGED release

Refuse(statuses) == {[status |-> s, body |-> None] : s \in statuses}
Serve(body) == [status |-> 200, body |-> body]

\* The engine may be out of order (503) or too slow (504).  An answer comes in
\* time or not at all, except that a body was never read.
Answers(c) ==
    LET refusals == Refusals(asked[c])
    IN  IF late[c] THEN Refuse({504} \cup (refusals \cap {400, 413}))
        ELSE IF refusals # {} THEN Refuse(refusals \cup {504})
        ELSE Refuse({503, 504}) \cup {Serve(Layout(asked[c], release[c]))}

Answer(c) ==
    /\ asked[c] # None /\ reply[c] = None
    /\ \E answer \in Answers(c) : reply' = [reply EXCEPT ![c] = answer]
    /\ UNCHANGED <<asked, late, release>>

\* The deadline of a client that is still waiting passes.
Overrun(c) ==
    /\ asked[c] # None /\ reply[c] = None
    /\ late' = [late EXCEPT ![c] = TRUE]
    /\ UNCHANGED <<asked, reply, release>>

\* A process is replaced by one of another release: its clients hang up.
Replace(gone, v) ==
    /\ asked' = [c \in Clients |-> IF c \in gone THEN None ELSE asked[c]]
    /\ reply' = [c \in Clients |-> IF c \in gone THEN None ELSE reply[c]]
    /\ late' = [c \in Clients |-> IF c \in gone THEN FALSE ELSE late[c]]
    /\ release' = [c \in Clients |-> IF c \in gone THEN v ELSE release[c]]

Next ==
    \/ \E c \in Clients : Answer(c) \/ Overrun(c) \/ \E r \in Requests : Ask(c, r)
    \/ \E gone \in SUBSET Clients, v \in Releases : Replace(gone, v)

Spec == Init /\ [][Next]_vars
=============================================================================
