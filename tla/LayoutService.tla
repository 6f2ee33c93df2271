---------------------------- MODULE LayoutService ----------------------------
(***************************************************************************)
(* Graph layout: apps/layout/*.py.                                         *)
(*                                                                         *)
(* A thread of a web process serves one request at a time: it admits the   *)
(* body, derives the policy, the DOT and the digest of the graph, looks    *)
(* the digest up in Valkey, or in the memory of its process when Valkey    *)
(* does not answer, and otherwise runs Graphviz in a child process and     *)
(* stores what it says.  The threads of a process share its memory cache,  *)
(* all processes share Valkey, and a release may replace one process while *)
(* another still serves: that no caller can tell is LayoutContract.        *)
(***************************************************************************)
EXTENDS Integers, FiniteSets, SequencesExt

CONSTANTS
    Threads, Procs,
    ProcOf,        \* thread -> the process it belongs to
    Versions,      \* of the Graphviz library, one per release
    MaxEntries,    \* LAYOUT_MEMORY_CACHE_MAX_ENTRIES
    LargeFrom,     \* node count from which a graph is large (200 in the code)
    MaxNodes, MaxEdges,
    Scenarios,     \* [requests, threads, asks, days, faults]: which requests
                   \* come, to which threads, how many, and the days and the
                   \* outages and releases that may pass
    Unset          \* None

VARIABLES
    scenario,
    pc, req, reply,  \* thread: position, request, and answer to it
    left,            \* thread: its time, 2 ample, 1 under 50 ms, 0 none
    held,            \* thread: the payload it holds
    now,             \* thread: the day it read before it took the memory lock
    memory,          \* process: sequence of [key, value, expires], oldest use first
    valkey, up,      \* entries in Valkey, and whether it answers
    version,         \* process: its Graphviz
    day, asks, faults

vars == <<scenario, pc, req, reply, left, held, now, memory, valkey, up, version,
          day, asks, faults>>

(***************************************************************************)
(* The graph of a request: nodes and edges come as sequences in the order  *)
(* the caller lists them.                                                  *)
(***************************************************************************)
NodesOf(r) == ToSet(r.nodes)
EdgesOf(r) == ToSet(r.edges)
Ids(r) == {n.id : n \in NodesOf(r)}

WellFormed(r) ==
    /\ Len(r.nodes) \in 1..MaxNodes /\ Len(r.edges) <= MaxEdges
    /\ Cardinality(Ids(r)) = Len(r.nodes)
    /\ Cardinality({e.id : e \in EdgesOf(r)}) = Len(r.edges)
    /\ \A n \in NodesOf(r) : n.sized
    /\ \A e \in EdgesOf(r) : {e.from, e.to} \subseteq Ids(r)

\* Kahn's algorithm: take away nodes without an edge into them while there are.
IsDag(nodes, edges) ==
    LET Sources(S) == {n \in S : ~\E e \in edges : e.from \in S /\ e.to = n}
        Rest[S \in SUBSET nodes] ==
            IF Sources(S) = {} THEN S ELSE Rest[S \ Sources(S)]
    IN  (\A e \in edges : e.from # e.to) /\ Rest[nodes] = {}

Classify(r) ==
    CASE EdgesOf(r) # {}
         /\ \A e \in EdgesOf(r) : e.kind \in {"contains", "containment"} -> "containment"
      [] IsDag(Ids(r), EdgesOf(r)) -> "derivation"
      [] Len(r.nodes) >= LargeFrom /\ Len(r.edges) >= 2 * Len(r.nodes) -> "code_map_large"
      [] OTHER -> "neighborhood"

(***************************************************************************)
(* Policy, canonical DOT and digest                                        *)
(***************************************************************************)
LayoutPolicy(engine, attrs) ==
    [engine |-> engine, large |-> engine, attrs |-> attrs, ranks |-> FALSE,
     clusters |-> FALSE, root |-> FALSE, loose |-> {}]

Policies ==
    [plan_dag |-> [LayoutPolicy("dot", "LR, spaced")
                   EXCEPT !.ranks = TRUE, !.loose = {"verifies"}],
     derivation |-> LayoutPolicy("dot", "LR"),
     query_plan |-> LayoutPolicy("dot", "LR"),
     code_map_small |-> LayoutPolicy("dot", "TB"),
     code_map_large |-> LayoutPolicy("sfdp", "prism"),
     neighborhood |-> [LayoutPolicy("neato", "no overlap") EXCEPT !.large = "sfdp"],
     ego_radial |-> [LayoutPolicy("twopi", "") EXCEPT !.root = TRUE],
     cyclic_ring |-> LayoutPolicy("circo", ""),
     containment |-> [LayoutPolicy("osage", "") EXCEPT !.clusters = TRUE]]

ClassOf(r) == IF r.class = Unset THEN Classify(r) ELSE r.class
PolicyOf(r) == Policies[ClassOf(r)]

EngineFor(r) ==
    IF Len(r.nodes) >= LargeFrom THEN PolicyOf(r).large ELSE PolicyOf(r).engine

FocusOf(r) ==
    IF PolicyOf(r).root /\ r.focus = Unset
    THEN CHOOSE i \in Ids(r) : \A j \in Ids(r) : i <= j
    ELSE r.focus

PolicyAccepts(r) ==
    IF PolicyOf(r).root THEN FocusOf(r) \in Ids(r) ELSE r.focus = Unset

\* A node that does the work and one that verifies it share a rank.
RankGroups(r) ==
    LET OfKind(kinds) == {n.id : n \in {m \in NodesOf(r) : m.kind \in kinds}}
    IN  {pair \in OfKind({"work", "implementation"})
                  \X OfKind({"verify", "verification"}) :
            \E e \in EdgesOf(r) : e.kind = "verifies" /\ {e.from, e.to} = {pair[1], pair[2]}}

\* Nodes, clusters, edges and ranks are written in sorted order, so the text
\* tells of them what these sets tell.
CanonicalDot(r) ==
    LET p == PolicyOf(r)
    IN  [attrs |-> p.attrs, root |-> FocusOf(r),
         nodes |-> {<<n.id, IF p.clusters THEN n.cluster ELSE Unset>> : n \in NodesOf(r)},
         edges |-> {<<e.id, e.from, e.to, e.kind \in p.loose>> : e \in EdgesOf(r)},
         ranks |-> IF p.ranks THEN RankGroups(r) ELSE {}]

\* Mutant of DigestInput: without the policy parameters.
DigestBare(r, v) == <<CanonicalDot(r), EngineFor(r), v>>

DigestInput(r, v) ==
    <<CanonicalDot(r), EngineFor(r), [class |-> ClassOf(r), attrs |-> PolicyOf(r).attrs,
                                      focus |-> FocusOf(r)], v>>

CacheKey(r, v) == <<r.tenant, DigestInput(r, v)>>

\* The positions Graphviz computes depend on the text, the engine and its release.
Encode(r, v) ==
    [positions |-> <<CanonicalDot(r), EngineFor(r), v>>, engine |-> EngineFor(r),
     graphviz_version |-> v, policy_id |-> ClassOf(r), input_digest |-> DigestInput(r, v)]

AllRequests == UNION {s.requests : s \in Scenarios}
Served(r) == r.wire = "ok" /\ WellFormed(r) /\ PolicyAccepts(r)
Computed ==
    [rv \in {r \in AllRequests : Served(r)} \X Versions |->
        [key |-> CacheKey(rv[1], rv[2]), payload |-> Encode(rv[1], rv[2])]]

\* What the routes answer with, and how the body of a request may come.
Replies == [status : {200, 400, 413, 422, 503, 504},
            body : {Unset} \cup {Computed[rv].payload : rv \in DOMAIN Computed}]
Wires == {"ok", "length", "unread", "long", "mismatch"}

ASSUME ConstantsAssumption ==
    /\ ProcOf \in [Threads -> Procs] /\ MaxEntries \in Nat
    /\ \A r \in AllRequests : r.wire \in Wires
    /\ Unset \notin AllRequests /\ Unset \notin Replies

(***************************************************************************)
(* Threads                                                                 *)
(***************************************************************************)
Busy(t) == pc[t] # "idle"
KeyOf(t) == Computed[<<req[t], version[ProcOf[t]]>>].key
PayloadOf(t) == Computed[<<req[t], version[ProcOf[t]]>>].payload

Fresh ==
    /\ req = [t \in Threads |-> Unset]
    /\ reply = [t \in Threads |-> Unset]
    /\ left = [t \in Threads |-> 2]
    /\ held = [t \in Threads |-> Unset]
    /\ now = [t \in Threads |-> 0]
    /\ memory = [p \in Procs |-> <<>>]
    /\ valkey = {}
    /\ up = TRUE
    /\ \E v \in Versions : version = [p \in Procs |-> v]
    /\ day = 0

Init ==
    /\ scenario \in Scenarios
    /\ pc = [t \in Threads |-> "idle"]
    /\ Fresh
    /\ asks = 0 /\ faults = 0

Answer(t, status, body) ==
    /\ reply' = [reply EXCEPT ![t] = [status |-> status, body |-> body]]
    /\ pc' = [pc EXCEPT ![t] = "idle"]
    /\ held' = [held EXCEPT ![t] = Unset]

\* The middleware answers 504 in place of what came too late.
Refuse(t, status) == Answer(t, IF left[t] = 0 THEN 504 ELSE status, Unset)
Serve(t) == IF left[t] = 0 THEN Answer(t, 504, Unset) ELSE Answer(t, 200, held[t])

Goto(t, label) ==
    /\ pc' = [pc EXCEPT ![t] = label]
    /\ UNCHANGED <<reply, held>>

Hold(t, label, payload) ==
    /\ pc' = [pc EXCEPT ![t] = label]
    /\ held' = [held EXCEPT ![t] = payload]
    /\ UNCHANGED reply

cacheVars == <<memory, valkey>>
envVars == <<scenario, up, version, day, asks, faults>>

Receive(t, r) ==
    /\ ~Busy(t) /\ t \in scenario.threads
    /\ r \in scenario.requests /\ asks < scenario.asks
    /\ asks' = asks + 1
    /\ pc' = [pc EXCEPT ![t] = "body"]
    /\ req' = [req EXCEPT ![t] = r]
    /\ reply' = [reply EXCEPT ![t] = Unset]
    /\ left' = [left EXCEPT ![t] = 2]
    /\ UNCHANGED <<held, now, cacheVars, scenario, up, version, day, faults>>

\* Time passes for a request that is served.
Elapse(t) ==
    /\ Busy(t) /\ left[t] > 0
    /\ left' = [left EXCEPT ![t] = @ - 1]
    /\ UNCHANGED <<pc, req, reply, held, now, cacheVars, envVars>>

\* LayoutRequestBudgetMiddleware, and compute_layout up to the cache.
Admit(t) ==
    /\ pc[t] = "body"
    /\ LET r == req[t]
       IN  CASE r.wire = "length" -> Answer(t, 413, Unset)
             [] r.wire = "unread" -> Answer(t, 400, Unset)
             [] r.wire = "long" -> Refuse(t, 413)
             [] r.wire = "mismatch" -> Refuse(t, 400)
             [] r.wire = "ok" /\ left[t] = 0 -> Refuse(t, 504)
             [] r.wire = "ok" /\ left[t] > 0 /\ ~WellFormed(r) -> Refuse(t, 422)
             [] r.wire = "ok" /\ left[t] > 0 /\ WellFormed(r) ->
                    IF PolicyAccepts(r) THEN Goto(t, "get") ELSE Refuse(t, 422)
    /\ UNCHANGED <<req, left, now, cacheVars, envVars>>

(***************************************************************************)
(* get_cached_response                                                     *)
(***************************************************************************)
ValkeyGet(key) ==
    IF \E x \in valkey : x.key = key
    THEN (CHOOSE x \in valkey : x.key = key).value ELSE Unset

\* Without time left no client is made and the memory lock is not waited for.
Get(t) ==
    /\ pc[t] = "get"
    /\ IF left[t] = 0 THEN Hold(t, "got", Unset) /\ UNCHANGED now
       ELSE IF up THEN Hold(t, "got", ValkeyGet(KeyOf(t))) /\ UNCHANGED now
       ELSE Goto(t, "getmemory") /\ now' = [now EXCEPT ![t] = day]
    /\ UNCHANGED <<req, left, cacheVars, envVars>>

Position(entries, key) == SelectInSeq(entries, LAMBDA x : x.key = key)
Drop(entries, i) == IF i = 0 THEN entries ELSE RemoveAt(entries, i)

\* Under the lock of the process: an expired entry is dropped, a hit becomes
\* the entry that was used last.
GetMemory(t) ==
    /\ pc[t] = "getmemory"
    /\ LET p == ProcOf[t]
           i == Position(memory[p], KeyOf(t))
           rest == Drop(memory[p], i)
       IN  IF left[t] = 0 \/ i = 0
           THEN Hold(t, "got", Unset) /\ UNCHANGED memory
           ELSE IF memory[p][i].expires <= now[t]
           THEN Hold(t, "got", Unset) /\ memory' = [memory EXCEPT ![p] = rest]
           ELSE /\ Hold(t, "got", memory[p][i].value)
                /\ memory' = [memory EXCEPT ![p] = Append(rest, memory[p][i])]
    /\ UNCHANGED <<req, left, now, valkey, envVars>>

\* A cached answer is returned; without one Graphviz is started.
Got(t) ==
    /\ pc[t] = "got"
    /\ IF left[t] = 0 THEN Refuse(t, 504)
       ELSE IF held[t] = Unset THEN Goto(t, "graphviz")
       ELSE IF req[t].big THEN Refuse(t, 503) ELSE Serve(t)
    /\ UNCHANGED <<req, left, now, cacheVars, envVars>>

(***************************************************************************)
(* _execute_worker                                                         *)
(***************************************************************************)
\* Eight seconds, or those of the request: the group of the child is killed.
Timeout(t) ==
    /\ pc[t] = "graphviz"
    /\ Refuse(t, 504)
    /\ UNCHANGED <<req, left, now, cacheVars, envVars>>

\* Too much output, a nonzero exit, JSON that does not parse, or positions
\* that are not those of the nodes.
Fail(t) ==
    /\ pc[t] = "graphviz"
    /\ Refuse(t, 503)
    /\ UNCHANGED <<req, left, now, cacheVars, envVars>>

Lay(t) ==
    /\ pc[t] = "graphviz"
    /\ IF left[t] = 0 THEN Refuse(t, 504)
       ELSE IF req[t].big THEN Refuse(t, 503)
       ELSE Hold(t, "set", PayloadOf(t))
    /\ UNCHANGED <<req, left, now, cacheVars, envVars>>

(***************************************************************************)
(* set_cached_response                                                     *)
(***************************************************************************)
Entry(t) == [key |-> KeyOf(t), value |-> held[t], expires |-> day + 1]

\* Not with less than 50 ms left.
Set(t) ==
    /\ pc[t] = "set"
    /\ IF left[t] < 2 THEN Goto(t, "answer") /\ UNCHANGED valkey
       ELSE IF up
       THEN /\ Goto(t, "answer")
            /\ valkey' = {x \in valkey : x.key # KeyOf(t)} \cup {Entry(t)}
       ELSE Goto(t, "setmemory") /\ UNCHANGED valkey
    /\ UNCHANGED <<req, left, now, memory, envVars>>

\* The entry that was used longest ago makes room.
Store(entries, entry) ==
    LET all == Append(Drop(entries, Position(entries, entry.key)), entry)
    IN  IF Len(all) > MaxEntries THEN Tail(all) ELSE all

SetMemory(t) ==
    /\ pc[t] = "setmemory"
    /\ Goto(t, "answer")
    /\ memory' = IF left[t] = 0 THEN memory
                 ELSE [memory EXCEPT ![ProcOf[t]] = Store(@, Entry(t))]
    /\ UNCHANGED <<req, left, now, valkey, envVars>>

Finish(t) ==
    /\ pc[t] = "answer"
    /\ Serve(t)
    /\ UNCHANGED <<req, left, now, cacheVars, envVars>>

(***************************************************************************)
(* Valkey, the calendar and releases                                       *)
(***************************************************************************)
Toggle ==
    /\ faults < scenario.faults /\ faults' = faults + 1
    /\ up' = ~up
    /\ UNCHANGED <<scenario, pc, req, reply, left, held, now, cacheVars, version, day, asks>>

NextDay ==
    /\ day < scenario.days /\ day' = day + 1
    /\ valkey' = {x \in valkey : x.expires > day'}
    /\ UNCHANGED <<scenario, pc, req, reply, left, held, now, memory, up, version, asks, faults>>

\* A process is replaced: its memory and its requests are gone.
Release(p, v) ==
    /\ faults < scenario.faults /\ faults' = faults + 1
    /\ LET Kept(f, none) == [t \in Threads |-> IF ProcOf[t] = p THEN none ELSE f[t]]
       IN  /\ pc' = Kept(pc, "idle") /\ req' = Kept(req, Unset)
           /\ reply' = Kept(reply, Unset) /\ left' = Kept(left, 2)
           /\ held' = Kept(held, Unset) /\ now' = Kept(now, 0)
    /\ version' = [version EXCEPT ![p] = v]
    /\ memory' = [memory EXCEPT ![p] = <<>>]
    /\ UNCHANGED <<scenario, valkey, up, day, asks>>

Next ==
    \/ \E t \in Threads :
        \/ \E r \in scenario.requests : Receive(t, r)
        \/ Elapse(t) \/ Admit(t) \/ Get(t) \/ GetMemory(t) \/ Got(t)
        \/ Timeout(t) \/ Fail(t) \/ Lay(t) \/ Set(t) \/ SetMemory(t) \/ Finish(t)
    \/ Toggle \/ NextDay
    \/ \E p \in Procs, v \in Versions : Release(p, v)

Spec == Init /\ [][Next]_vars

(***************************************************************************)
(* Properties                                                              *)
(***************************************************************************)
Wire(r) ==
    CASE r.wire \in {"length", "long"} -> {413}
      [] r.wire \in {"unread", "mismatch"} -> {400}
      [] OTHER -> {}

\* What a caller is told its own request is wrong with.
RefusalsOf(r) ==
    IF Wire(r) # {} THEN Wire(r)
    ELSE IF ~WellFormed(r) \/ ~PolicyAccepts(r) THEN {422}
    ELSE IF r.big THEN {503} ELSE {}
LayoutOf(r, v) == Computed[<<r, v>>].payload

Contract == INSTANCE LayoutContract WITH
    Clients <- Threads, Requests <- AllRequests,
    Releases <- Versions, None <- Unset,
    Layout <- LayoutOf, Refusals <- RefusalsOf,
    asked <- req, reply <- reply,
    late <- [t \in Threads |-> left[t] = 0],
    release <- [t \in Threads |-> version[ProcOf[t]]]

\* The caches are invisible: whichever process, release, tenant and cache an
\* answer comes from, it is the layout of the very graph that was sent by the
\* policy that was asked for, and none comes after the deadline
\* (service.py compute_layout, cache.py, middleware.py).
ServesContract == Contract!Spec

\* No cache holds more than its bound, two entries of a key, or under a key
\* the response of another one (cache.py set_cached_response).
CachesSound ==
    /\ \A p \in Procs :
        /\ Len(memory[p]) <= MaxEntries
        /\ \A i, j \in DOMAIN memory[p] : memory[p][i].key = memory[p][j].key => i = j
    /\ \A x \in valkey \cup (UNION {ToSet(memory[p]) : p \in Procs}) :
        x.key[2] = x.value.input_digest
=============================================================================
