--------------------------- MODULE ProgramsProofs ---------------------------
(***************************************************************************)
(* Proofs about the programs: a pod answers with what it has made of the   *)
(* input it was told of, and has made what the operation promises; the     *)
(* result of a bounded command is what happened; the oracle scripts claim  *)
(* what they have proved and tell what they leave behind.  For any pods,   *)
(* requests, inputs, receipts, hosts and files, any caps and any number of *)
(* events.                                                                 *)
(***************************************************************************)
EXTENDS Programs, TLAPS, WellFoundedInduction, SequenceTheorems, FiniteSetTheorems

(***************************************************************************)
(* The invariants                                                          *)
(***************************************************************************)
\* PodWorker: what a pod holds is the input its request describes, from its
\* verification on, and then the output of it; a descriptor that was answered is
\* that of the object, unless another pod has written since.
WorkerTyped ==
    /\ pc \in [Pods -> {"idle", "download", "verify", "run", "upload"}]
    /\ DOMAIN request = Pods /\ DOMAIN held = Pods /\ DOMAIN answer = Pods
    /\ DOMAIN used = Pods
Verifies(p) == pc[p] = "run" => held[p] = request[p].digest
Computes(p) ==
    pc[p] = "upload" =>
        /\ used[p] = request[p].digest
        /\ held[p].size <= request[p].max
        /\ \E reply \in scenario.replies : held[p] = Worker!Output(request[p], used[p], reply)
Describes(p) ==
    answer[p] # None /\ answer[p].kind = "output" =>
        /\ writer # None
        /\ writer = p => output = answer[p].descriptor.digest
WorkerInv == WorkerTyped /\ \A p \in Pods : Verifies(p) /\ Computes(p) /\ Describes(p)

\* PodWorker: a pod that works on a request has admitted it, and holds an object
\* that may have been under the input key, then one that its descriptor fits.
Admits(p) ==
    pc[p] # "idle" =>
        /\ request[p] \in scenario.requests /\ request[p].proper
        /\ request[p].image = "contract" => request[p].op = "community"
Fetches(p) == pc[p] \in {"verify", "run"} => held[p] \in scenario.inputs
Checks(p) == pc[p] = "run" => Worker!Verified(request[p], held[p])
OutputRight(r, bytes, made) ==
    IF r.op = "community" THEN Worker!CommunitiesRight(bytes.table, made.table)
    ELSE Worker!RowsRight(bytes.table, made.table)
Promises(p) == pc[p] = "upload" => OutputRight(request[p], used[p], held[p])
OutputInv ==
    /\ scenario \in PodScenarios /\ input \in scenario.inputs \cup {None}
    /\ \A p \in Pods : Admits(p) /\ Fetches(p) /\ Checks(p) /\ Promises(p)

\* BoundedProcess: nothing is lost between the child and the capture, a stream
\* that is read no more is at its end for good, and a call that ends leaves its child
\* only where no handler looks after it.
BoundedTyped ==
    /\ pc \in {"start", "opened", "loop", "handling", "done"} /\ check \in BOOLEAN
    /\ leader \in {"none", "alive", "dead"} /\ helper \in {"none", "alive", "dead"}
    /\ code \in {None, 0, 1}
    /\ holds \in [Bounded!Processes -> SUBSET Bounded!Streams]
    /\ pipe \in [Bounded!Streams -> Nat] /\ listening \subseteq Bounded!Streams
    /\ got \in Nat /\ written \in Nat
Conserved == got + pipe["stdout"] + pipe["stderr"] = written
Ended(s) == pipe[s] = 0 /\ ~Bounded!Held(s)
BoundedStart == pc = "start" => leader = "none" /\ helper = "none" /\ result = None /\ got = 0
BoundedOpened ==
    /\ pc \in {"opened", "handling"} => leader # "none" /\ result = None
    /\ pc = "opened" => got = 0
BoundedLoop ==
    pc = "loop" =>
        /\ leader # "none" /\ result = None /\ got <= OutputCap
        /\ \A s \in Bounded!Streams \ listening : Ended(s)
BoundedDone ==
    pc = "done" =>
        /\ leader = "alive" => result = "unwatched"
        /\ result \in {"ok", "nonzero"} =>
            /\ leader = "dead"
            /\ \A s \in Bounded!Streams : Ended(s)
            /\ got <= OutputCap /\ (check => (result = "ok" <=> code = 0))
        /\ helper = "alive" => survivor \/ result \in {"ok", "nonzero", "unwatched"}
BoundedInv ==
    BoundedTyped /\ Conserved /\ BoundedStart /\ BoundedOpened /\ BoundedLoop /\ BoundedDone

\* LocalOracle: what each step of the script has established, or has reported.
Before == Layout!Before \cup Layout!Trying
LocalTyped ==
    /\ pc \in Before \cup Layout!Cleaning \cup {"done"}
    /\ server \in {"none", "alive", "dead"} /\ drainer \in {"none", "alive", "over", "done"}
    /\ child \in [alive : BOOLEAN, pipe : BOOLEAN, port : BOOLEAN]
    /\ directory \in BOOLEAN /\ passed \in BOOLEAN
    /\ log \in Nat /\ drained \in Nat
    /\ owned \subseteq {"server", "log"}
Running == (pc = "done") = (status # None) /\ (passed => pc = "done")
LogKept ==
    /\ drained > LogCap => drainer = "over" \/ failure # None
    /\ drainer = "done" => ~Layout!Writable /\ log = 0
Proved == against = [binary |-> "genuine", port |-> "ours"]
Tested ==
    /\ receipt # None => Layout!Accepted(receipt) /\ Proved /\ owned = {"server", "log"}
    /\ "log" \in owned => drainer # "none"
    /\ drainer # "none" => server # "none"
    /\ pc \in Before => receipt = None
    /\ pc \in Before \ {"ready", "prove", "test"} => drainer = "none"
Reached ==
    /\ pc \in {"attach", "ready", "prove", "test"} => server # "none" /\ "server" \in owned
    /\ pc \in {"ready", "prove", "test"} => drainer # "none" /\ "log" \in owned
    /\ pc \in {"version", "reserve", "launch", "attach", "ready", "prove"} => binary = "genuine"
    /\ pc = "test" => Proved
Cleaned ==
    /\ pc \in {"closelog", "closeport", "remove", "report"} /\ "server" \in owned =>
          server # "alive" \/ "server" \in leftovers
    /\ pc \in {"closeport", "remove", "report"} /\ "log" \in owned =>
          drainer = "done" \/ "drainer" \in leftovers
    /\ pc \in {"remove", "report"} /\ "server" \in owned =>
          port # "ours" \/ leftovers \cap {"server", "port"} # {}
    /\ pc = "report" => ~directory \/ "directory" \in leftovers
Bound == port = "ours" => reserved
Finished == Layout!VerifiedTrue /\ Layout!LeftoversReported
LocalInv ==
    LocalTyped /\ Running /\ LogKept /\ Tested /\ Reached /\ Cleaned /\ Bound /\ Finished

\* ContainerOracle: the tag is followed from the inspection that found the built
\* image under it, and the removal from the command that succeeded.
ContainerTyped ==
    /\ pc \in {"inspect", "declared", "reserve", "build", "readid", "checktag", "probe",
               "before", "remove", "after", "outcome", "done"}
    /\ created \in {None, Built}
    /\ primary \in {None, "error", "interrupt"} /\ cleanup \in BOOLEAN /\ removal \in BOOLEAN
Known ==
    /\ pc \in {"checktag", "probe", "before", "remove", "after"} => created = Built
    /\ pc \in {"inspect", "declared", "reserve", "build", "readid"} => created = None
Gone ==
    /\ pc = "after" /\ removal => Built \notin images
    /\ pc = "outcome" => created = None \/ cleanup \/ Built \notin images
Probed ==
    /\ pc = "probe" => tag = Built \/ moved
    /\ pc \in {"before", "remove", "after"} /\ primary = None =>
          probed # None /\ (probed = Built \/ moved)
    /\ pc = "outcome" /\ primary = None /\ ~cleanup =>
          probed # None /\ (probed = Built \/ moved) /\ Built \notin images
Ends == (pc = "done") = (status # None)
ContainerInv == ContainerTyped /\ Known /\ Gone /\ Probed /\ Ends /\ Container!ContainerSound

(***************************************************************************)
(* PodWorker                                                               *)
(***************************************************************************)
\* A step of a pod leaves the requests of the other pods, and what they have
\* used, alone.
OnlyOf(p) ==
    /\ DOMAIN request' = Pods /\ DOMAIN used' = Pods
    /\ \A q \in Pods \ {p} : request'[q] = request[q] /\ used'[q] = used[q]

LEMMA WorkerInit == Worker!Init => WorkerInv
  BY DEF Worker!Init, WorkerInv, WorkerTyped, Verifies, Computes, Describes

\* What an answer changes: a pod that goes idle keeps to everything.
LEMMA ReplyKeeps ==
    ASSUME WorkerInv, NEW p \in Pods, NEW kind, NEW descriptor,
           Worker!Reply(p, kind, descriptor), UNCHANGED scenario,
           OnlyOf(p)
    PROVE  /\ WorkerTyped'
           /\ \A q \in Pods : Verifies(q)' /\ Computes(q)'
  BY DEF WorkerInv, WorkerTyped, OnlyOf, Verifies, Computes, Worker!Reply

\* A refusal leaves the descriptors that were answered as they are.
LEMMA RefusalKeeps ==
    ASSUME WorkerInv, NEW p \in Pods, NEW kind \in {"error", "raised"}, NEW descriptor,
           Worker!Reply(p, kind, descriptor), UNCHANGED <<scenario, output, writer>>,
           OnlyOf(p)
    PROVE  WorkerInv'
<1>1. \A q \in Pods : Describes(q)'
  BY DEF WorkerInv, WorkerTyped, Describes, Worker!Reply
<1> QED  BY <1>1, ReplyKeeps DEF WorkerInv

\* A step within a request.
LEMMA GotoKeeps ==
    ASSUME WorkerInv, NEW p \in Pods, NEW label \in {"verify", "run", "upload"}, NEW bytes,
           Worker!Goto(p, label, bytes), UNCHANGED <<scenario, output, writer, request>>,
           OnlyOf(p), Verifies(p)', Computes(p)'
    PROVE  WorkerInv'
<1>1. WorkerTyped'
  BY DEF WorkerInv, WorkerTyped, OnlyOf, Worker!Goto
<1>2. \A q \in Pods : Verifies(q)' /\ Computes(q)' /\ Describes(q)'
  BY DEF WorkerInv, WorkerTyped, OnlyOf, Verifies, Computes, Describes, Worker!Goto
<1> QED  BY <1>1, <1>2 DEF WorkerInv

LEMMA WorkerReceive ==
    ASSUME WorkerInv, NEW p \in Pods, NEW r, Worker!Receive(p, r)
    PROVE  WorkerInv'
<1>1. OnlyOf(p) /\ UNCHANGED <<scenario, output, writer>>
  BY DEF Worker!Receive, WorkerInv, WorkerTyped, OnlyOf
<1>2. \/ \E kind \in {"error", "raised"} : Worker!Reply(p, kind, None)
      \/ /\ pc' = [pc EXCEPT ![p] = "download"] /\ answer' = [answer EXCEPT ![p] = None]
         /\ UNCHANGED held
  BY DEF Worker!Receive
<1>3. CASE \E kind \in {"error", "raised"} : Worker!Reply(p, kind, None)
  BY <1>1, <1>3, RefusalKeeps
<1>4. CASE /\ pc' = [pc EXCEPT ![p] = "download"] /\ answer' = [answer EXCEPT ![p] = None]
           /\ UNCHANGED held
  BY <1>1, <1>4 DEF WorkerInv, WorkerTyped, OnlyOf, Verifies, Computes, Describes
<1> QED  BY <1>2, <1>3, <1>4

LEMMA WorkerDownload ==
    ASSUME WorkerInv, NEW p \in Pods, Worker!Download(p)
    PROVE  WorkerInv'
<1>1. UNCHANGED <<scenario, output, writer, request, used>>
  BY DEF Worker!Download
<1>2. OnlyOf(p)
  BY <1>1 DEF WorkerInv, WorkerTyped, OnlyOf
<1>3. Worker!Reply(p, "error", None) \/ Worker!Goto(p, "verify", input)
  BY DEF Worker!Download
<1>4. ASSUME Worker!Goto(p, "verify", input) PROVE WorkerInv'
  <2>1. Verifies(p)' /\ Computes(p)'
    BY <1>4 DEF WorkerInv, WorkerTyped, Verifies, Computes, Worker!Goto
  <2> QED  BY <1>1, <1>2, <1>4, <2>1, GotoKeeps
<1> QED  BY <1>1, <1>2, <1>3, <1>4, RefusalKeeps

\* What is run has been held against its descriptor.
LEMMA WorkerVerify ==
    ASSUME WorkerInv, NEW p \in Pods, Worker!Verify(p)
    PROVE  WorkerInv'
<1>1. UNCHANGED <<scenario, output, writer, request, used>>
  BY DEF Worker!Verify
<1>2. OnlyOf(p)
  BY <1>1 DEF WorkerInv, WorkerTyped, OnlyOf
<1>3. \/ Worker!Reply(p, "error", None)
      \/ Worker!Goto(p, "run", held[p]) /\ held[p] = request[p].digest
  BY DEF Worker!Verify, Worker!Verified
<1>4. ASSUME Worker!Goto(p, "run", held[p]), held[p] = request[p].digest PROVE WorkerInv'
  <2>1. Verifies(p)' /\ Computes(p)'
    BY <1>1, <1>4 DEF WorkerInv, WorkerTyped, Verifies, Computes, Worker!Goto
  <2> QED  BY <1>1, <1>2, <1>4, <2>1, GotoKeeps
<1> QED  BY <1>1, <1>2, <1>3, <1>4, RefusalKeeps

LEMMA WorkerRun ==
    ASSUME WorkerInv, NEW p \in Pods, Worker!Run(p)
    PROVE  WorkerInv'
<1>1. UNCHANGED <<scenario, output, writer, request>> /\ pc[p] = "run"
  BY DEF Worker!Run
<1>2. \/ /\ \E kind \in {"error", "raised"} : Worker!Reply(p, kind, None)
         /\ UNCHANGED used
      \/ \E reply \in scenario.replies :
            /\ Worker!Output(request[p], held[p], reply).size <= request[p].max
            /\ Worker!Goto(p, "upload", Worker!Output(request[p], held[p], reply))
            /\ used' = [used EXCEPT ![p] = held[p]]
  BY DEF Worker!Run
<1>3. CASE (\E kind \in {"error", "raised"} : Worker!Reply(p, kind, None)) /\ UNCHANGED used
  <2>1. OnlyOf(p)
    BY <1>1, <1>3 DEF WorkerInv, WorkerTyped, OnlyOf
  <2> QED  BY <1>1, <1>3, <2>1, RefusalKeeps
<1>4. ASSUME NEW reply \in scenario.replies,
             Worker!Output(request[p], held[p], reply).size <= request[p].max,
             Worker!Goto(p, "upload", Worker!Output(request[p], held[p], reply)),
             used' = [used EXCEPT ![p] = held[p]]
      PROVE  WorkerInv'
  <2>1. OnlyOf(p) /\ used'[p] = held[p]
    BY <1>1, <1>4 DEF WorkerInv, WorkerTyped, OnlyOf
  <2>2. held[p] = request[p].digest
    BY <1>1 DEF WorkerInv, Verifies
  <2>3. /\ pc'[p] = "upload" /\ held'[p] = Worker!Output(request[p], held[p], reply)
    BY <1>4 DEF WorkerInv, WorkerTyped, Worker!Goto
  <2>4. Verifies(p)' /\ Computes(p)'
    BY <1>1, <1>4, <2>1, <2>2, <2>3 DEF Verifies, Computes
  <2> QED  BY <1>1, <1>4, <2>1, <2>4, GotoKeeps
<1> QED  BY <1>2, <1>3, <1>4

\* The descriptor of an answer is that of the bytes that were written, and other
\* pods are no longer the last to write.
LEMMA WorkerUpload ==
    ASSUME WorkerInv, NEW p \in Pods, Worker!Upload(p)
    PROVE  WorkerInv'
<1>1. UNCHANGED <<scenario, request, used>>
  BY DEF Worker!Upload
<1>2. OnlyOf(p)
  BY <1>1 DEF WorkerInv, WorkerTyped, OnlyOf
<1>3. PICK kind, descriptor :
        /\ Worker!Reply(p, kind, descriptor)
        /\ \/ output' = held[p] /\ writer' = p
           \/ kind = "error" /\ UNCHANGED <<output, writer>>
        /\ kind \in {"output", "error"}
        /\ kind = "output" => descriptor.digest = held[p]
  BY DEF Worker!Upload
<1>4. \A q \in Pods : Describes(q)'
  BY <1>3, NoneAssumption DEF WorkerInv, WorkerTyped, Describes, Worker!Reply
<1> QED  BY <1>1, <1>2, <1>3, <1>4, ReplyKeeps DEF WorkerInv

LEMMA WorkerNext ==
    ASSUME WorkerInv, Worker!Next \/ UNCHANGED <<pc, workerVars>>
    PROVE  WorkerInv'
<1>1. CASE UNCHANGED <<pc, workerVars>>
  BY <1>1 DEF WorkerInv, WorkerTyped, Verifies, Computes, Describes, workerVars
<1>2. CASE Worker!Rewrite
  BY <1>2 DEF WorkerInv, WorkerTyped, Verifies, Computes, Describes, Worker!Rewrite
<1>3. CASE Worker!Next
  BY <1>2, <1>3, WorkerReceive, WorkerDownload, WorkerVerify, WorkerRun, WorkerUpload
     DEF Worker!Next
<1> QED  BY <1>1, <1>3

(***************************************************************************)
(* Induction over numbers                                                  *)
(***************************************************************************)
\* A set of naturals that is not empty has a least element.
LEMMA LeastOf ==
    ASSUME NEW S, S # {}, S \subseteq Nat
    PROVE  \E x \in S : \A y \in S : x <= y
<1>1. \E x \in S : \A y \in S : ~ (<<y, x>> \in OpToRel(<, Nat))
  BY NatLessThanWellFounded, WFMin
<1>2. PICK x \in S : \A y \in S : ~ (y < x)
  BY <1>1 DEF OpToRel
<1> QED  BY <1>2

\* Induction over the numbers up to a bound, for a set.
LEMMA UpTo ==
    ASSUME NEW L \in Nat, NEW T, 0 \in T, \A k \in 1..L : k - 1 \in T => k \in T
    PROVE  \A k \in 0..L : k \in T
<1> DEFINE Bad == (0..L) \ T
<1>1. SUFFICES ASSUME Bad # {} PROVE FALSE
  OBVIOUS
<1>2. PICK k \in Bad : \A j \in Bad : k <= j
  <2>1. Bad \subseteq Nat
    OBVIOUS
  <2> HIDE DEF Bad
  <2> QED  BY <1>1, <2>1, LeastOf
<1>3. k \in 1..L /\ k \notin T
  BY <1>2
<1>4. k - 1 \notin Bad
  <2> HIDE DEF Bad
  <2> QED  BY <1>2, <1>3
<1> QED  BY <1>3, <1>4

\* A function that is told its next value from the last one.
Stepping(S, base, L, G) ==
    \E f \in [0..L -> S] : f[0] = base /\ \A k \in 1..L : f[k] = G[<<k, f[k - 1]>>]

LEMMA StepByStep ==
    ASSUME NEW S, NEW base \in S, NEW L \in Nat, NEW G \in [(1..L) \X S -> S]
    PROVE  Stepping(S, base, L, G)
<1> DEFINE Upto(f, k) == f[0] = base /\ \A j \in 1..k : f[j] = G[<<j, f[j - 1]>>]
           T == {k \in 0..L : \E f \in [0..k -> S] : Upto(f, k)}
<1>1. 0 \in T
  <2> DEFINE f == [j \in 0..0 |-> base]
  <2>1. f \in [0..0 -> S] /\ f[0] = base /\ \A j \in 1..0 : FALSE
    OBVIOUS
  <2> HIDE DEF f
  <2> QED  BY <2>1
<1>2. ASSUME NEW k \in 1..L, k - 1 \in T
      PROVE  k \in T
  <2>1. PICK f \in [0..(k - 1) -> S] : Upto(f, k - 1)
    BY <1>2
  <2> DEFINE g == [j \in 0..k |-> IF j < k THEN f[j] ELSE G[<<k, f[k - 1]>>]]
  <2>2. f[k - 1] \in S
    OBVIOUS
  <2>3. G[<<k, f[k - 1]>>] \in S
    BY <2>2
  <2>4. g \in [0..k -> S]
    BY <2>3
  <2>5. g[k] = G[<<k, f[k - 1]>>] /\ \A j \in 0..(k - 1) : g[j] = f[j]
    OBVIOUS
  <2> HIDE DEF g
  <2>6. g[0] = base
    BY <2>1, <2>5
  <2>7. \A j \in 1..k : g[j] = G[<<j, g[j - 1]>>]
    <3> TAKE j \in 1..k
    <3>1. CASE j = k  BY <2>5, <3>1
    <3>2. CASE j # k
      <4>1. j \in 1..(k - 1) /\ j - 1 \in 0..(k - 1) /\ j \in 0..(k - 1)
        BY <3>2
      <4> QED  BY <2>1, <2>5, <4>1
    <3> QED  BY <3>1, <3>2
  <2> QED  BY <2>4, <2>6, <2>7
<1> HIDE DEF T
<1>3. L \in T
  BY <1>1, <1>2, UpTo
<1> QED  BY <1>3 DEF T, Stepping

(***************************************************************************)
(* Communities                                                             *)
(***************************************************************************)
\* The sets of nodes that the links of a forest do not leave.
ClosedSets(nodes, parent) ==
    {S \in SUBSET nodes : \A n \in nodes : n \in S <=> parent[n] \in S}

Halved(parent, n) == [parent EXCEPT ![n] = parent[parent[n]]]

\* A forest stays one when a path is halved, and what is connected and what is
\* a root stay so.
LEMMA HalvedForest ==
    ASSUME NEW N \in SUBSET Nat, NEW p \in Worker!Forests(N), NEW n \in N
    PROVE  /\ Halved(p, n) \in Worker!Forests(N)
           /\ p[p[n]] \in N /\ p[p[n]] <= n
           /\ p[n] # n => p[p[n]] < n
           /\ \A m \in N : p[m] = m => Halved(p, n)[m] = m
<1>1. p \in [N -> N] /\ \A m \in N : p[m] \in N /\ p[m] <= m
  BY DEF Worker!Forests
<1>2. /\ p[n] \in N /\ p[p[n]] \in N /\ p[p[n]] <= p[n] /\ p[n] <= n
      /\ n \in Nat /\ p[n] \in Nat /\ p[p[n]] \in Nat
  BY <1>1
<1>3. p[p[n]] <= n /\ (p[n] # n => p[p[n]] < n)
  BY <1>2
<1>4. Halved(p, n) \in [N -> N]
  BY <1>1, <1>2 DEF Halved
<1>5. \A m \in N : Halved(p, n)[m] = IF m = n THEN p[p[n]] ELSE p[m]
  BY <1>1 DEF Halved
<1>6. Halved(p, n) \in Worker!Forests(N)
  BY <1>1, <1>3, <1>4, <1>5 DEF Worker!Forests
<1> QED  BY <1>2, <1>3, <1>5, <1>6

LEMMA HalvedClosed ==
    ASSUME NEW N \in SUBSET Nat, NEW p \in Worker!Forests(N), NEW n \in N
    PROVE  ClosedSets(N, Halved(p, n)) = ClosedSets(N, p)
<1>1. p \in [N -> N] /\ p[n] \in N /\ p[p[n]] \in N
  BY DEF Worker!Forests
<1>2. \A m \in N : Halved(p, n)[m] = IF m = n THEN p[p[n]] ELSE p[m]
  BY <1>1 DEF Halved
<1>3. ASSUME NEW S \in SUBSET N
      PROVE  S \in ClosedSets(N, Halved(p, n)) <=> S \in ClosedSets(N, p)
  <2>1. CASE p[n] = n  BY <1>1, <1>2, <2>1 DEF ClosedSets
  <2>2. CASE p[n] # n
    <3>1. (\A m \in N : m \in S <=> Halved(p, n)[m] \in S)
          => (\A m \in N : m \in S <=> p[m] \in S)
      BY <1>1, <1>2, <2>2
    <3>2. (\A m \in N : m \in S <=> p[m] \in S)
          => (\A m \in N : m \in S <=> Halved(p, n)[m] \in S)
      BY <1>1, <1>2, <2>2
    <3> QED  BY <3>1, <3>2 DEF ClosedSets
  <2> QED  BY <2>1, <2>2
<1> QED  BY <1>3 DEF ClosedSets

\* What the search does at a node, as a function of what it finds above.
Searched(f, p, n) ==
    IF p[n] = n THEN [parent |-> p, root |-> n] ELSE f[<<Halved(p, n), p[p[n]]>>]

\* The search is well defined below every bound on the nodes.
LEMMA SearchBelow ==
    ASSUME NEW N \in SUBSET Nat, NEW b \in Nat
    PROVE  \E f : \A p \in Worker!Forests(N) : \A n \in N :
               n < b => f[<<p, n>>] = Searched(f, p, n)
<1> DEFINE F == Worker!Forests(N)
           Good(f, k) == \A p \in F : \A n \in N : n < k => f[<<p, n>>] = Searched(f, p, n)
           Bad == {k \in Nat : ~ \E f : Good(f, k)}
<1>1. SUFFICES ASSUME Bad # {} PROVE FALSE
  OBVIOUS
<1>2. PICK k \in Bad : \A j \in Bad : k <= j
  BY <1>1, LeastOf
<1>3. k # 0
  <2>1. ASSUME NEW n \in N PROVE ~(n < 0)
    <3>1. n \in Nat
      OBVIOUS
    <3> QED  BY <3>1
  <2>2. \A f : Good(f, 0)
    BY <2>1
  <2> QED  BY <2>2
<1>4. k - 1 \in Nat /\ k - 1 \notin Bad
  <2>1. k \in Nat
    BY <1>2
  <2> HIDE DEF Bad
  <2> QED  BY <1>2, <1>3, <2>1
<1>5. PICK f : Good(f, k - 1)
  BY <1>4
<1> DEFINE g == [s \in F \X N |-> IF s[2] < k - 1 THEN f[s] ELSE Searched(f, s[1], s[2])]
<1>6. ASSUME NEW p \in F, NEW n \in N, n < k
      PROVE  g[<<p, n>>] = Searched(g, p, n)
  <2>1. g[<<p, n>>] = IF n < k - 1 THEN f[<<p, n>>] ELSE Searched(f, p, n)
    <3>1. <<p, n>> \in F \X N /\ <<p, n>>[1] = p /\ <<p, n>>[2] = n
      OBVIOUS
    <3> HIDE DEF F
    <3> QED  BY <3>1
  <2>2. g[<<p, n>>] = Searched(f, p, n)
    BY <1>5, <2>1
  <2>3. CASE p[n] = n  BY <2>2, <2>3 DEF Searched
  <2>4. CASE p[n] # n
    <3> DEFINE h == Halved(p, n)
               a == p[p[n]]
    <3>1. h \in F /\ a \in N /\ a < n
      BY <2>4, HalvedForest
    <3>2. a < k - 1
      <4>1. a \in Nat /\ n \in Nat /\ k \in Nat
        BY <1>2, <3>1
      <4> HIDE DEF a
      <4> QED  BY <1>6, <3>1, <4>1
    <3>3. g[<<h, a>>] = f[<<h, a>>]
      <4>1. <<h, a>> \in F \X N /\ <<h, a>>[2] = a
        BY <3>1
      <4> HIDE DEF F, h, a
      <4> QED  BY <3>2, <4>1
    <3> QED  BY <2>2, <2>4, <3>3 DEF Searched
  <2> QED  BY <2>3, <2>4
<1>7. Good(g, k)
  BY <1>6
<1> QED  BY <1>2, <1>7

LEMMA SearchStep ==
    ASSUME NEW N \in SUBSET Nat, NEW b \in Nat, \A m \in N : m < b,
           NEW p \in Worker!Forests(N), NEW n \in N
    PROVE  Worker!FindRoot(p, n) =
               IF p[n] = n THEN [parent |-> p, root |-> n]
               ELSE Worker!FindRoot(Halved(p, n), p[p[n]])
<1> DEFINE D == Worker!Forests(N) \X N
           Def(f) == [s \in D |->
                         IF s[1][s[2]] = s[2] THEN [parent |-> s[1], root |-> s[2]]
                         ELSE f[<<[s[1] EXCEPT ![s[2]] = s[1][s[1][s[2]]]], s[1][s[1][s[2]]]>>]]
           find == CHOOSE f : f = Def(f)
<1>1. \E f : f = Def(f)
  <2>1. PICK f : \A q \in Worker!Forests(N) : \A m \in N : f[<<q, m>>] = Searched(f, q, m)
    BY SearchBelow
  <2> DEFINE g == [s \in D |-> f[s]]
  <2>2. ASSUME NEW s \in D
        PROVE  g[s] = Def(g)[s]
    <3>0. s[1] \in Worker!Forests(N) /\ s[2] \in N /\ s = <<s[1], s[2]>>
      OBVIOUS
    <3>1. PICK q \in Worker!Forests(N), m \in N : s = <<q, m>>
      BY <3>0, Zenon
    <3>2. Halved(q, m) \in Worker!Forests(N) /\ q[q[m]] \in N
      BY HalvedForest
    <3>3. g[<<Halved(q, m), q[q[m]]>>] = f[<<Halved(q, m), q[q[m]]>>]
      BY <3>2
    <3>4. g[s] = Searched(f, q, m)
      BY <2>1, <3>1
    <3>5. Def(g)[s] = IF q[m] = m THEN [parent |-> q, root |-> m]
                      ELSE g[<<Halved(q, m), q[q[m]]>>]
      BY <3>1 DEF Halved
    <3> QED  BY <3>3, <3>4, <3>5 DEF Searched
  <2>3. g = Def(g)
    BY <2>2
  <2> QED  BY <2>3
<1>2. find = Def(find)
  BY <1>1
<1>3. \A q \in Worker!Forests(N), m \in N : Worker!FindRoot(q, m) = find[<<q, m>>]
  <2> TAKE q \in Worker!Forests(N), m \in N
  <2>1. DOMAIN q = N
    BY DEF Worker!Forests
  <2> QED  BY <2>1 DEF Worker!FindRoot
<1>4. Halved(p, n) \in Worker!Forests(N) /\ p[p[n]] \in N
  BY HalvedForest
<1>5. find[<<p, n>>] = IF p[n] = n THEN [parent |-> p, root |-> n]
                       ELSE find[<<Halved(p, n), p[p[n]]>>]
  <2>1. <<p, n>> \in D /\ <<p, n>>[1] = p /\ <<p, n>>[2] = n
    OBVIOUS
  <2> HIDE DEF D, find
  <2> QED  BY <1>2, <2>1 DEF Halved
<1> HIDE DEF find
<1> QED  BY <1>3, <1>4, <1>5

\* What a search returns: a forest with the same connections and roots, in which
\* the root that is returned is one, and connected to the node.
Found(N, p, n, f) ==
    /\ f.parent \in Worker!Forests(N) /\ f.root \in N
    /\ f.parent[f.root] = f.root
    /\ ClosedSets(N, f.parent) = ClosedSets(N, p)
    /\ \A m \in N : p[m] = m => f.parent[m] = m
    /\ \A S \in ClosedSets(N, p) : n \in S <=> f.root \in S

LEMMA SearchFinds ==
    ASSUME NEW N \in SUBSET Nat, NEW b \in Nat, \A m \in N : m < b
    PROVE  \A p \in Worker!Forests(N) : \A n \in N : Found(N, p, n, Worker!FindRoot(p, n))
<1> DEFINE Right(n) == \A p \in Worker!Forests(N) : Found(N, p, n, Worker!FindRoot(p, n))
           Bad == {n \in N : ~Right(n)}
<1>1. SUFFICES ASSUME Bad # {} PROVE FALSE
  OBVIOUS
<1>2. PICK n \in Bad : \A m \in Bad : n <= m
  <2>1. Bad \subseteq Nat
    OBVIOUS
  <2> HIDE DEF Bad
  <2> QED  BY <1>1, <2>1, LeastOf
<1>3. n \in N /\ ~Right(n)
  BY <1>2
<1>4. PICK p \in Worker!Forests(N) : ~Found(N, p, n, Worker!FindRoot(p, n))
  BY <1>3
<1>5. CASE p[n] = n
  <2>1. Worker!FindRoot(p, n) = [parent |-> p, root |-> n]
    BY <1>3, <1>5, SearchStep
  <2> QED  BY <1>3, <1>4, <1>5, <2>1 DEF Found
<1>6. CASE p[n] # n
  <2> DEFINE h == Halved(p, n)
             a == p[p[n]]
             f == Worker!FindRoot(h, a)
  <2>1. h \in Worker!Forests(N) /\ a \in N /\ a < n /\ \A m \in N : p[m] = m => h[m] = m
    BY <1>3, <1>6, HalvedForest
  <2>2. Worker!FindRoot(p, n) = f
    BY <1>3, <1>6, SearchStep
  <2>3. a \notin Bad
    <3>1. a \in Nat /\ n \in Nat
      BY <1>3, <2>1
    <3> HIDE DEF a, Bad
    <3> QED  BY <1>2, <2>1, <3>1
  <2>4. Found(N, h, a, f)
    BY <2>1, <2>3
  <2>5. ClosedSets(N, h) = ClosedSets(N, p)
    BY <1>3, HalvedClosed
  <2>6. \A S \in ClosedSets(N, p) : n \in S <=> a \in S
    <3>1. p[n] \in N
      BY <1>3 DEF Worker!Forests
    <3> QED  BY <1>3, <3>1 DEF ClosedSets
  <2> HIDE DEF h, a, f
  <2>7. Found(N, p, n, f)
    BY <2>1, <2>4, <2>5, <2>6 DEF Found
  <2> QED  BY <1>4, <2>2, <2>7
<1> QED  BY <1>5, <1>6

\* A root that is hung under another one connects the two, and nothing else.
Hung(parent, high, low) == [parent EXCEPT ![high] = low]

LEMMA HungClosed ==
    ASSUME NEW N \in SUBSET Nat, NEW p \in Worker!Forests(N), NEW low \in N, NEW high \in N,
           low < high, p[high] = high
    PROVE  /\ Hung(p, high, low) \in Worker!Forests(N)
           /\ \A S : S \in ClosedSets(N, Hung(p, high, low))
                     <=> S \in ClosedSets(N, p) /\ (low \in S <=> high \in S)
<1> DEFINE q == Hung(p, high, low)
<1>1. p \in [N -> N] /\ \A n \in N : p[n] <= n
  BY DEF Worker!Forests
<1>2. q \in [N -> N] /\ \A n \in N : q[n] = IF n = high THEN low ELSE p[n]
  BY <1>1 DEF Hung
<1>3. \A n \in N : q[n] <= n
  BY <1>1, <1>2
<1>4. q \in Worker!Forests(N)
  BY <1>2, <1>3 DEF Worker!Forests
<1> HIDE DEF q
<1>5. ASSUME NEW S \in SUBSET N
      PROVE  (\A n \in N : n \in S <=> q[n] \in S)
             <=> (\A n \in N : n \in S <=> p[n] \in S) /\ (low \in S <=> high \in S)
  BY <1>2
<1>6. \A S : S \in ClosedSets(N, q) <=> S \in ClosedSets(N, p) /\ (low \in S <=> high \in S)
  BY <1>5 DEF ClosedSets
<1> QED  BY <1>4, <1>6 DEF q

\* The forest q connects what p connects, and two nodes.
Joins(N, p, q, left, right) ==
    /\ q \in Worker!Forests(N)
    /\ \A S : S \in ClosedSets(N, q)
              <=> S \in ClosedSets(N, p) /\ (left \in S <=> right \in S)

LEMMA UnionJoins ==
    ASSUME NEW N \in SUBSET Nat, NEW b \in Nat, \A m \in N : m < b,
           NEW p \in Worker!Forests(N), NEW left \in N, NEW right \in N
    PROVE  Joins(N, p, Worker!Union(p, left, right), left, right)
<1> DEFINE l == Worker!FindRoot(p, left)
           r == Worker!FindRoot(l.parent, right)
           q == r.parent
           low == l.root
           high == r.root
<1>1. Found(N, p, left, l)
  BY SearchFinds
<1>2. Found(N, l.parent, right, r)
  <2>1. l.parent \in Worker!Forests(N)
    BY <1>1 DEF Found
  <2> HIDE DEF l
  <2> QED  BY <2>1, SearchFinds
<1>3. Worker!Union(p, left, right) =
          IF low = high THEN q
          ELSE IF low < high THEN Hung(q, high, low) ELSE Hung(q, low, high)
  BY DEF Worker!Union, Hung
<1> HIDE DEF l, r
<1>4. /\ q \in Worker!Forests(N) /\ low \in N /\ high \in N
      /\ q[low] = low /\ q[high] = high
      /\ ClosedSets(N, q) = ClosedSets(N, p)
  BY <1>1, <1>2 DEF Found
<1>5. \A S : S \in ClosedSets(N, p) /\ (left \in S <=> right \in S)
             <=> S \in ClosedSets(N, q) /\ (low \in S <=> high \in S)
  BY <1>1, <1>2, <1>4 DEF Found
<1> HIDE DEF q, low, high
<1>0. low \in Nat /\ high \in Nat
  BY <1>4
<1>6. CASE low = high
  BY <1>3, <1>4, <1>5, <1>6 DEF Joins
<1>7. CASE low < high
  <2>1. Worker!Union(p, left, right) = Hung(q, high, low)
    BY <1>0, <1>3, <1>7
  <2> QED  BY <1>4, <1>5, <1>7, <2>1, HungClosed DEF Joins
<1>8. CASE high < low
  <2>1. Worker!Union(p, left, right) = Hung(q, low, high)
    BY <1>0, <1>3, <1>8
  <2> QED  BY <1>4, <1>5, <1>8, <2>1, HungClosed DEF Joins
<1>9. low = high \/ low < high \/ high < low
  BY <1>0
<1> QED  BY <1>6, <1>7, <1>8, <1>9

\* The nodes of a table are numbers below a bound.
LEMMA NodesBounded ==
    ASSUME NEW edges \in Seq(Nat \X Nat)
    PROVE  /\ Worker!Nodes(edges) \in SUBSET Nat
           /\ \E b \in Nat : \A n \in Worker!Nodes(edges) : n < b
           /\ \A i \in 1..Len(edges) :
                  edges[i][1] \in Worker!Nodes(edges) /\ edges[i][2] \in Worker!Nodes(edges)
<1> DEFINE Above(b, k) == \A i \in 1..k : edges[i][1] < b /\ edges[i][2] < b
           T == {k \in 0..Len(edges) : \E b \in Nat : Above(b, k)}
<1>0. Len(edges) \in Nat /\ DOMAIN edges = 1..Len(edges)
      /\ \A i \in 1..Len(edges) : edges[i] \in Nat \X Nat
  OBVIOUS
<1>1. \A i \in 1..Len(edges) : edges[i][1] \in Nat /\ edges[i][2] \in Nat
  BY <1>0
<1>2. 0 \in T
  <2>1. Above(0, 0)
    OBVIOUS
  <2> QED  BY <1>0, <2>1
<1>3. ASSUME NEW k \in 1..Len(edges), k - 1 \in T
      PROVE  k \in T
  <2>1. PICK b \in Nat : Above(b, k - 1)
    BY <1>3
  <2> DEFINE c == b + edges[k][1] + edges[k][2] + 1
  <2>2. c \in Nat /\ b <= c /\ edges[k][1] < c /\ edges[k][2] < c
    BY <1>1
  <2> HIDE DEF c
  <2>3. Above(c, k)
    <3> SUFFICES ASSUME NEW i \in 1..k PROVE edges[i][1] < c /\ edges[i][2] < c
      OBVIOUS
    <3>1. CASE i = k  BY <2>2, <3>1
    <3>2. CASE i # k
      <4>1. i \in 1..(k - 1) /\ edges[i][1] \in Nat /\ edges[i][2] \in Nat
        BY <1>0, <1>1, <3>2
      <4> QED  BY <2>1, <2>2, <4>1
    <3> QED  BY <3>1, <3>2
  <2> QED  BY <1>0, <2>2, <2>3
<1> HIDE DEF T
<1>4. Len(edges) \in T
  <2>1. \A k \in 1..Len(edges) : k - 1 \in T => k \in T
    BY <1>3
  <2>2. \A k \in 0..Len(edges) : k \in T
    BY <1>0, <1>2, <2>1, UpTo, Zenon
  <2> QED  BY <1>0, <2>2
<1>5. PICK b \in Nat : Above(b, Len(edges))
  BY <1>4 DEF T
<1>6. \A n \in Worker!Nodes(edges) : \E i \in 1..Len(edges) : n = edges[i][1] \/ n = edges[i][2]
  BY <1>0 DEF Worker!Nodes
<1>7. Worker!Nodes(edges) \subseteq Nat
  BY <1>1, <1>6
<1>8. \A n \in Worker!Nodes(edges) : n < b
  BY <1>5, <1>6
<1>9. \A i \in 1..Len(edges) :
          edges[i][1] \in Worker!Nodes(edges) /\ edges[i][2] \in Worker!Nodes(edges)
  <2> SUFFICES ASSUME NEW i \in 1..Len(edges)
               PROVE  {edges[i][1], edges[i][2]} \subseteq Worker!Nodes(edges)
    OBVIOUS
  <2> QED  BY <1>0 DEF Worker!Nodes
<1> QED  BY <1>7, <1>8, <1>9

\* The sets that the first k edges do not leave.
Uncut(edges, S, k) == \A i \in 1..k : edges[i][1] \in S <=> edges[i][2] \in S

\* The forest of a table connects what its edges connect.
LEMMA JoinedClosed ==
    ASSUME NEW edges \in Seq(Nat \X Nat)
    PROVE  LET N == Worker!Nodes(edges)
           IN  /\ Worker!Joined(edges) \in Worker!Forests(N)
               /\ \A S \in SUBSET N : S \in ClosedSets(N, Worker!Joined(edges))
                                          <=> Uncut(edges, S, Len(edges))
<1> DEFINE N == Worker!Nodes(edges)
           F == Worker!Forests(N)
           L == Len(edges)
           id == [n \in N |-> n]
           G == [s \in (1..L) \X F |-> Worker!Union(s[2], edges[s[1]][1], edges[s[1]][2])]
<1>1. L \in Nat /\ N \in SUBSET Nat /\ \A i \in 1..L : edges[i][1] \in N /\ edges[i][2] \in N
  BY NodesBounded
<1>2. PICK b \in Nat : \A n \in N : n < b
  BY NodesBounded
<1>3. id \in F /\ \A n \in N : id[n] = n
  BY <1>1 DEF Worker!Forests
<1> HIDE DEF N, L, id
<1>4. \A i \in 1..L, p \in F :
          Joins(N, p, Worker!Union(p, edges[i][1], edges[i][2]), edges[i][1], edges[i][2])
  BY <1>1, <1>2, UnionJoins
<1>5. G \in [(1..L) \X F -> F]
  BY <1>4 DEF Joins
<1>6. \A i \in 1..L, p \in F : G[<<i, p>>] = Worker!Union(p, edges[i][1], edges[i][2])
  OBVIOUS
<1> HIDE DEF F, G
<1>7. \E f \in [0..L -> F] : f[0] = id /\ \A k \in 1..L : f[k] = G[<<k, f[k - 1]>>]
  <2>1. Stepping(F, id, L, G)
    BY <1>1, <1>3, <1>5, StepByStep
  <2> QED  BY <2>1 DEF Stepping
<1> DEFINE Def(f) == [k \in 0..L |-> IF k = 0 THEN id
                                     ELSE Worker!Union(f[k - 1], edges[k][1], edges[k][2])]
           joined == CHOOSE f : f = Def(f)
<1>8. PICK f \in [0..L -> F] : f = Def(f)
  <2>1. PICK f \in [0..L -> F] : f[0] = id /\ \A k \in 1..L : f[k] = G[<<k, f[k - 1]>>]
    BY <1>7
  <2>2. \A k \in 1..L : f[k - 1] \in F
    BY <1>1
  <2>3. \A k \in 1..L :
            f[k] = Worker!Union(f[k - 1], edges[k][1], edges[k][2])
    BY <1>6, <2>1, <2>2
  <2>5. \A k \in 0..L : k # 0 => k \in 1..L
    BY <1>1
  <2>6. \A k \in 0..L : f[k] = Def(f)[k]
    BY <2>1, <2>3, <2>5
  <2>4. f = Def(f)
    BY <2>6
  <2> QED  BY <2>4
<1>9. joined = Def(joined)
  BY <1>8
<1>10. Worker!Joined(edges) = joined[L]
  BY DEF Worker!Joined, N, L, id
<1> DEFINE Right(k) == /\ joined[k] \in F
                       /\ \A S \in SUBSET N : S \in ClosedSets(N, joined[k]) <=> Uncut(edges, S, k)
           T == {k \in 0..L : Right(k)}
<1> HIDE DEF joined
<1>11. joined[0] = id
  BY <1>1, <1>9
<1>12. \A k \in 1..L : joined[k] = Worker!Union(joined[k - 1], edges[k][1], edges[k][2])
  BY <1>1, <1>9
<1>13. 0 \in T
  <2>1. \A S \in SUBSET N : S \in ClosedSets(N, id) /\ Uncut(edges, S, 0)
    BY <1>3 DEF ClosedSets, Uncut
  <2> QED  BY <1>1, <1>3, <1>11, <2>1
<1>14. ASSUME NEW k \in 1..L, k - 1 \in T
       PROVE  k \in T
  <2>1. Right(k - 1)
    BY <1>14
  <2>2. \A S : Uncut(edges, S, k)
               <=> Uncut(edges, S, k - 1) /\ (edges[k][1] \in S <=> edges[k][2] \in S)
    <3>1. 1..k = (1..(k - 1)) \cup {k}
      BY <1>1
    <3> QED  BY <3>1 DEF Uncut
  <2> DEFINE p == joined[k - 1]
  <2>3. /\ joined[k] \in F
        /\ \A S : S \in ClosedSets(N, joined[k])
                  <=> S \in ClosedSets(N, p) /\ (edges[k][1] \in S <=> edges[k][2] \in S)
    <3>1. p \in F
      BY <2>1
    <3>2. joined[k] = Worker!Union(p, edges[k][1], edges[k][2])
      BY <1>12
    <3> HIDE DEF p
    <3> QED  BY <1>4, <3>1, <3>2 DEF Joins, F
  <2>4. Right(k)
    BY <2>1, <2>2, <2>3
  <2>5. k \in 0..L
    BY <1>1
  <2> HIDE DEF Right
  <2> QED  BY <2>4, <2>5
<1> HIDE DEF T
<1>15. L \in T
  <2>1. \A k \in 1..L : k - 1 \in T => k \in T
    BY <1>14
  <2>2. \A k \in 0..L : k \in T
    BY <1>1, <1>13, <2>1, UpTo, Zenon
  <2> QED  BY <1>1, <2>2
<1> QED  BY <1>10, <1>15 DEF T, F, N, L

\* Two roots are not connected: what hangs under one of them is a closed set.
LEMMA RootsApart ==
    ASSUME NEW N \in SUBSET Nat, NEW p \in Worker!Forests(N), NEW r \in N, NEW m \in N,
           p[r] = r, p[m] = m, r # m
    PROVE  \E S \in ClosedSets(N, p) : r \in S /\ m \notin S
<1> DEFINE Hangs(V) == r \in V /\ \A n \in N : p[n] \in V => n \in V
           D == {n \in N : \A V \in SUBSET N : Hangs(V) => n \in V}
<1>0. \A n \in N : p[n] \in N
  BY DEF Worker!Forests
<1>1. Hangs(D) /\ D \in SUBSET N
  OBVIOUS
<1>2. \A V \in SUBSET N : Hangs(V) => D \subseteq V
  OBVIOUS
<1> HIDE DEF D
<1>3. ASSUME NEW n \in D PROVE p[n] \in D
  <2>1. CASE n = r  BY <1>1, <2>1
  <2>2. CASE n # r
    <3> SUFFICES ASSUME p[n] \notin D PROVE FALSE
      OBVIOUS
    <3>1. Hangs(D \ {n}) /\ D \ {n} \in SUBSET N
      BY <1>1, <2>2
    <3> HIDE DEF Hangs
    <3> QED  BY <1>2, <3>1
  <2> QED  BY <2>1, <2>2
<1>4. m \notin D
  <2>1. Hangs(D \ {m}) /\ D \ {m} \in SUBSET N
    BY <1>1
  <2> HIDE DEF Hangs
  <2> QED  BY <1>2, <2>1
<1>5. D \in ClosedSets(N, p)
  BY <1>1, <1>3 DEF ClosedSets
<1> QED  BY <1>1, <1>4, <1>5

\* The nodes that a forest connects to a node.
Company(N, p, n) == {m \in N : \A S \in ClosedSets(N, p) : m \in S <=> n \in S}

LEMMA RootLeast ==
    ASSUME NEW N \in SUBSET Nat, NEW p \in Worker!Forests(N), NEW n \in N, NEW r \in N,
           p[r] = r, \A S \in ClosedSets(N, p) : n \in S <=> r \in S
    PROVE  r \in Company(N, p, n) /\ \A m \in Company(N, p, n) : r <= m
<1> DEFINE C == Company(N, p, n)
<1>1. r \in C /\ C \subseteq N
  BY DEF Company
<1>2. PICK m \in C : \A k \in C : m <= k
  <2>1. C # {} /\ C \subseteq Nat
    BY <1>1
  <2> HIDE DEF C
  <2> QED  BY <2>1, LeastOf
<1>3. m \in N /\ p[m] \in N /\ p[m] <= m
  BY <1>1 DEF Worker!Forests
<1>4. p[m] \in C
  BY <1>3 DEF Company, ClosedSets
<1>5. p[m] = m
  <2>1. m <= p[m] /\ m \in Nat /\ p[m] \in Nat
    BY <1>2, <1>3, <1>4
  <2> QED  BY <1>3, <2>1
<1>6. m = r
  <2> SUFFICES ASSUME m # r PROVE FALSE
    OBVIOUS
  <2>1. PICK S \in ClosedSets(N, p) : r \in S /\ m \notin S
    BY <1>3, <1>5, RootsApart
  <2>2. m \in S <=> r \in S
    BY DEF Company
  <2> QED  BY <2>1, <2>2
<1> QED  BY <1>1, <1>2, <1>6

\* The communities that are assigned are the connected parts of the graph,
\* numbered by their least members, whatever the edges and their order.
THEOREM CommunitiesAreRight ==
    ASSUME NEW edges \in Seq(Nat \X Nat)
    PROVE  Worker!CommunitiesRight(edges, Worker!CommunityAssign(edges))
<1> DEFINE N == Worker!Nodes(edges)
           p == Worker!Joined(edges)
           Root(n) == Worker!FindRoot(p, n).root
           Of(n) == {m \in N : Worker!Connected(edges, m, n)}
<1>1. N \in SUBSET Nat /\ \E b \in Nat : \A n \in N : n < b
  BY NodesBounded
<1>2. /\ p \in Worker!Forests(N)
      /\ \A S \in SUBSET N : S \in ClosedSets(N, p) <=> Uncut(edges, S, Len(edges))
  BY JoinedClosed
<1>3. \A n \in N : Of(n) = Company(N, p, n)
  <2>1. DOMAIN edges = 1..Len(edges)
    OBVIOUS
  <2>2. ClosedSets(N, p) \subseteq SUBSET N
    BY DEF ClosedSets
  <2> HIDE DEF p
  <2> QED  BY <1>2, <2>1, <2>2 DEF Worker!Connected, Uncut, Company
<1>4. ASSUME NEW n \in N PROVE Root(n) = Worker!Min(Of(n))
  <2> DEFINE f == Worker!FindRoot(p, n)
  <2>1. Found(N, p, n, f)
    BY <1>1, <1>2, SearchFinds
  <2> HIDE DEF N, p, f
  <2>2. f.parent \in Worker!Forests(N) /\ f.root \in N /\ f.parent[f.root] = f.root
        /\ ClosedSets(N, f.parent) = ClosedSets(N, p)
        /\ \A S \in ClosedSets(N, p) : n \in S <=> f.root \in S
    BY <2>1 DEF Found
  <2>3. /\ f.root \in Company(N, f.parent, n)
        /\ \A m \in Company(N, f.parent, n) : f.root <= m
    BY <1>1, <2>2, RootLeast
  <2>4. Company(N, f.parent, n) = Of(n)
    BY <1>3, <2>2 DEF Company
  <2>5. Of(n) \subseteq Nat
    BY <1>1
  <2> HIDE DEF Of
  <2>6. Worker!Min(Of(n)) = f.root
    <3>1. \A x \in Of(n) : (\A y \in Of(n) : x <= y) => x = f.root
      BY <2>3, <2>4, <2>5
    <3> QED  BY <2>3, <2>4, <3>1 DEF Worker!Min
  <2> QED  BY <2>6 DEF f
<1>5. {Root(n) : n \in N} = {Worker!Min(Of(n)) : n \in N}
  BY <1>4
<1> DEFINE roots == {Root(n) : n \in N}
           leasts == {Worker!Min(Of(n)) : n \in N}
<1>6. Worker!CommunityAssign(edges) =
          {<<n, Worker!Cardinality({r \in roots : r < Root(n)})>> : n \in N}
  BY DEF Worker!CommunityAssign
<1>7. Worker!CommunitiesRight(edges, Worker!CommunityAssign(edges)) <=>
          Worker!CommunityAssign(edges) =
              {<<n, Worker!Cardinality({m \in leasts : m < Worker!Min(Of(n))})>> : n \in N}
  BY DEF Worker!CommunitiesRight
<1>8. \A n \in N : Worker!Cardinality({r \in roots : r < Root(n)}) =
                   Worker!Cardinality({m \in leasts : m < Worker!Min(Of(n))})
  <2>1. roots = leasts
    BY <1>5
  <2> HIDE DEF roots, leasts, Root, Of, N
  <2>2. \A n \in N : {r \in roots : r < Root(n)} = {m \in leasts : m < Worker!Min(Of(n))}
    BY <1>4, <2>1
  <2> QED  BY <2>2
<1> HIDE DEF roots, leasts, Root, Of, N
<1> QED  BY <1>6, <1>7, <1>8

(***************************************************************************)
(* Spans                                                                   *)
(***************************************************************************)
\* Where a text has a part.
Part(text, at, n) == SubSeq(text, at + 1, at + n)
Occurs(text, part, at) ==
    /\ at \in Nat /\ at + Len(part) <= Len(text)
    /\ Part(text, at, Len(part)) = part

LEMMA FindFinds ==
    ASSUME NEW C, NEW text \in Seq(C), NEW part \in Seq(C), NEW from \in Nat
    PROVE  \/ Worker!Find(text, part, from) = -1
           \/ Occurs(text, part, Worker!Find(text, part, from))
<1> DEFINE A == {i \in from..(Len(text) - Len(part)) :
                    SubSeq(text, i + 1, i + Len(part)) = part}
<1>1. Worker!Find(text, part, from) = IF A = {} THEN -1 ELSE Worker!Min(A)
  BY DEF Worker!Find
<1>2. Len(text) \in Nat /\ Len(part) \in Nat
  OBVIOUS
<1>3. \A i \in A : Occurs(text, part, i)
  BY <1>2 DEF Occurs, Part
<1>4. A \subseteq Nat
  BY <1>2
<1> HIDE DEF A
<1>5. A # {} => Worker!Min(A) \in A
  <2> SUFFICES ASSUME A # {} PROVE Worker!Min(A) \in A
    OBVIOUS
  <2>1. \E x \in A : \A y \in A : x <= y
    BY <1>4, LeastOf
  <2> QED  BY <2>1 DEF Worker!Min
<1> QED  BY <1>1, <1>3, <1>5

\* Sequences of sequences are put together from the left.
LEMMA FlattenSteps ==
    ASSUME NEW T, NEW seqs \in Seq(Seq(T))
    PROVE  \E f \in [0..Len(seqs) -> Seq(T)] :
               /\ f[0] = <<>>
               /\ \A k \in 1..Len(seqs) : f[k] = f[k - 1] \o seqs[k]
               /\ Worker!FlattenSeq(seqs) = f[Len(seqs)]
<1> DEFINE L == Len(seqs)
           S == Seq(T)
           base == <<>>
           G == [s \in (1..L) \X S |-> s[2] \o seqs[s[1]]]
           Def(f) == [i \in 1..L |-> IF i = 1 THEN seqs[i] ELSE f[i - 1] \o seqs[i]]
           flatten == CHOOSE f : f = Def(f)
<1>1. L \in Nat /\ base \in S /\ \A k \in 1..L : seqs[k] \in S
  OBVIOUS
<1>2. \A s, t \in S : s \o t \in S /\ <<>> \o t = t
  OBVIOUS
<1>3. G \in [(1..L) \X S -> S] /\ \A k \in 1..L, s \in S : G[<<k, s>>] = s \o seqs[k]
  BY <1>1, <1>2
<1> HIDE DEF S, G, L
<1>4. Stepping(S, base, L, G)
  BY <1>1, <1>3, StepByStep
<1>5. PICK f \in [0..L -> S] : f[0] = base /\ \A k \in 1..L : f[k] = f[k - 1] \o seqs[k]
  <2>1. PICK f \in [0..L -> S] : f[0] = base /\ \A k \in 1..L : f[k] = G[<<k, f[k - 1]>>]
    BY <1>4 DEF Stepping
  <2>2. \A k \in 1..L : f[k - 1] \in S
    <3>1. \A k \in 1..L : k - 1 \in 0..L
      BY <1>1
    <3> QED  BY <3>1
  <2> QED  BY <1>3, <2>1, <2>2
<1>6. \E g : g = Def(g)
  <2> DEFINE g == [i \in 1..L |-> f[i]]
  <2>1. \A i \in 1..L : g[i] = Def(g)[i]
    <3> TAKE i \in 1..L
    <3>1. CASE i = 1
      <4>1. seqs[1] \in S /\ f[0] = <<>> /\ f[1] = f[0] \o seqs[1] /\ f[1] = <<>> \o seqs[1]
        <5>1. 1 \in 1..L /\ 1 - 1 = 0
          BY <3>1
        <5> QED  BY <1>1, <1>5, <5>1
      <4>2. f[1] = seqs[1]
        BY <1>2, <4>1
      <4> QED  BY <3>1, <4>2
    <3>2. CASE i # 1
      <4>1. i - 1 \in 1..L
        BY <1>1, <3>2
      <4> QED  BY <1>5, <3>2, <4>1
    <3> QED  BY <3>1, <3>2
  <2>2. g = Def(g)
    BY <2>1
  <2> QED  BY <2>2
<1>7. flatten = Def(flatten)
  BY <1>6
<1>8. Worker!FlattenSeq(seqs) = IF L = 0 THEN seqs ELSE flatten[L]
  BY DEF Worker!FlattenSeq, L
<1> HIDE DEF flatten
<1>9. \A i \in 1..L : flatten[i] = IF i = 1 THEN seqs[i] ELSE flatten[i - 1] \o seqs[i]
  BY <1>7
<1> DEFINE U == {k \in 0..L : k = 0 \/ flatten[k] = f[k]}
<1>10. 0 \in U /\ \A k \in 1..L : k - 1 \in U => k \in U
  <2> SUFFICES ASSUME NEW k \in 1..L, k - 1 \in U
               PROVE  flatten[k] = f[k]
    BY <1>1
  <2>0. k - 1 = 0 \/ flatten[k - 1] = f[k - 1]
    OBVIOUS
  <2>1. CASE k = 1
    <3>1. seqs[1] \in S /\ f[0] = <<>> /\ f[1] = f[0] \o seqs[1] /\ f[1] = <<>> \o seqs[1]
      <4>1. 1 \in 1..L /\ 1 - 1 = 0
        BY <2>1
      <4> QED  BY <1>1, <1>5, <4>1
    <3>2. f[1] = seqs[1]
      BY <1>2, <3>1
    <3> QED  BY <1>9, <2>1, <3>2
  <2>2. CASE k # 1
    <3>1. flatten[k - 1] = f[k - 1]
      BY <2>0, <2>2
    <3> QED  BY <1>5, <1>9, <2>2, <3>1
  <2> QED  BY <2>1, <2>2
<1> HIDE DEF U
<1>11. \A k \in 0..L : k \in U
  BY <1>1, <1>10, UpTo
<1>12. Worker!FlattenSeq(seqs) = f[L]
  <2>1. CASE L = 0
    <3>1. seqs = <<>>
      BY <2>1 DEF L
    <3> QED  BY <1>5, <1>8, <2>1, <3>1
  <2>2. CASE L # 0
    BY <1>1, <1>8, <1>11, <2>2 DEF U
  <2> QED  BY <2>1, <2>2
<1> QED  BY <1>5, <1>12 DEF S, L

LEMMA FlattenType ==
    ASSUME NEW T, NEW seqs \in Seq(Seq(T))
    PROVE  Worker!FlattenSeq(seqs) \in Seq(T)
<1>1. PICK f \in [0..Len(seqs) -> Seq(T)] : Worker!FlattenSeq(seqs) = f[Len(seqs)]
  BY FlattenSteps
<1>2. Len(seqs) \in 0..Len(seqs)
  OBVIOUS
<1> QED  BY <1>1, <1>2

\* Sequences of one element each make the sequence of these.
LEMMA FlattenSingles ==
    ASSUME NEW T, NEW seqs \in Seq(Seq(T)), \A i \in 1..Len(seqs) : Len(seqs[i]) = 1
    PROVE  /\ Worker!FlattenSeq(seqs) \in Seq(T)
           /\ Len(Worker!FlattenSeq(seqs)) = Len(seqs)
           /\ \A i \in 1..Len(seqs) : Worker!FlattenSeq(seqs)[i] = seqs[i][1]
<1> DEFINE L == Len(seqs)
           Ones(s, k) == Len(s) = k /\ \A i \in 1..k : s[i] = seqs[i][1]
<1>1. PICK f \in [0..L -> Seq(T)] :
          /\ f[0] = <<>>
          /\ \A k \in 1..L : f[k] = f[k - 1] \o seqs[k]
          /\ Worker!FlattenSeq(seqs) = f[L]
  BY FlattenSteps
<1>2. L \in Nat /\ \A i \in 1..L : seqs[i] \in Seq(T) /\ Len(seqs[i]) = 1
  OBVIOUS
<1> DEFINE U == {k \in 0..L : Ones(f[k], k)}
<1> HIDE DEF L
<1>3. 0 \in U
  BY <1>1, <1>2
<1>4. ASSUME NEW k \in 1..L, k - 1 \in U PROVE k \in U
  <2>1. f[k - 1] \in Seq(T) /\ Ones(f[k - 1], k - 1)
    BY <1>2, <1>4
  <2>2. f[k] = f[k - 1] \o seqs[k] /\ seqs[k] \in Seq(T) /\ Len(seqs[k]) = 1
    BY <1>1, <1>2
  <2> DEFINE a == f[k - 1]
             t == seqs[k]
  <2>3. a \in Seq(T) /\ t \in Seq(T) /\ Len(a) = k - 1 /\ Len(t) = 1
        /\ f[k] = a \o t /\ \A i \in 1..(k - 1) : a[i] = seqs[i][1]
    BY <2>1, <2>2
  <2> HIDE DEF a
  <2>4. Len(f[k]) = k
    <3>1. Len(a \o t) = Len(a) + Len(t)
      BY <2>3, ConcatProperties
    <3>2. Len(f[k]) = (k - 1) + 1
      BY <2>3, <3>1
    <3> QED  BY <1>2, <3>2
  <2>5. \A i \in 1..k : f[k][i] = seqs[i][1]
    <3> TAKE i \in 1..k
    <3>1. CASE i = k
      BY <1>2, <2>3, <3>1
    <3>2. CASE i # k
      <4>1. i \in 1..(k - 1)
        BY <1>2, <3>2
      <4> QED  BY <1>2, <2>3, <4>1
    <3> QED  BY <3>1, <3>2
  <2> QED  BY <1>2, <2>4, <2>5
<1>5. \A k \in 0..L : k \in U
  <2> HIDE DEF U
  <2>1. \A k \in 1..L : k - 1 \in U => k \in U
    BY <1>4
  <2> QED  BY <1>2, <1>3, <2>1, UpTo
<1>6. L \in U
  <2> HIDE DEF U
  <2> QED  BY <1>2, <1>5
<1> QED  BY <1>1, <1>2, <1>6 DEF L

\* A folded text is a text; when no character folds to more than one, it is as
\* long as the text and has the fold of each character at its place.
LEMMA FoldedText ==
    ASSUME NEW text \in Worker!Text
    PROVE  /\ Worker!Folded(text) \in Worker!Text
           /\ ~Worker!Shifts(text) =>
                 /\ Len(Worker!Folded(text)) = Len(text)
                 /\ \A i \in 1..Len(text) : Worker!Folded(text)[i] = CaseFold[text[i]][1]
<1> DEFINE C == DOMAIN CaseFold
           seqs == [i \in DOMAIN text |-> CaseFold[text[i]]]
<1>1. /\ text \in Seq(C) /\ DOMAIN text = 1..Len(text) /\ Len(text) \in Nat
      /\ \A i \in 1..Len(text) : text[i] \in C
  BY DEF Worker!Text
<1>2. \A c \in C : CaseFold[c] \in Seq(C) /\ CaseFold[c] # <<>>
  BY DataOk DEF Worker!DataAssumption, Worker!Text
<1> HIDE DEF C
<1>3. /\ seqs \in Seq(Seq(C)) /\ Len(seqs) = Len(text)
      /\ \A i \in 1..Len(text) : seqs[i] = CaseFold[text[i]]
  BY <1>1, <1>2
<1>4. Worker!Folded(text) = Worker!FlattenSeq(seqs)
  BY DEF Worker!Folded
<1> HIDE DEF seqs
<1>5. Worker!Folded(text) \in Seq(C)
  BY <1>3, <1>4, FlattenType
<1>6. ASSUME ~Worker!Shifts(text)
      PROVE  /\ Len(Worker!Folded(text)) = Len(text)
             /\ \A i \in 1..Len(text) : Worker!Folded(text)[i] = CaseFold[text[i]][1]
  <2>1. \A i \in 1..Len(seqs) : Len(seqs[i]) = 1
    <3> SUFFICES ASSUME NEW i \in 1..Len(text) PROVE Len(CaseFold[text[i]]) = 1
      BY <1>3
    <3>1. ~(Len(CaseFold[text[i]]) > 1)
      BY <1>1, <1>6 DEF Worker!Shifts
    <3>2. CaseFold[text[i]] \in Seq(C) /\ CaseFold[text[i]] # <<>>
      BY <1>1, <1>2
    <3> DEFINE n == Len(CaseFold[text[i]])
    <3>3. n \in Nat /\ n # 0
      BY <3>2
    <3>4. ~(n > 1)
      BY <3>1
    <3> HIDE DEF n
    <3>5. n = 1
      BY <3>3, <3>4
    <3> QED  BY <3>5 DEF n
  <2> QED  BY <1>3, <1>4, <2>1, FlattenSingles
<1> QED  BY <1>5, <1>6 DEF C, Worker!Text

\* Where a part of a text is, its characters are those of the text.
PartCopies(C, text, at, n) ==
    /\ Part(text, at, n) \in Seq(C) /\ Len(Part(text, at, n)) = n
    /\ \A i \in 1..n : Part(text, at, n)[i] = text[at + i]

LEMMA OccursAt ==
    ASSUME NEW C, NEW text \in Seq(C), NEW at \in Nat, NEW n \in Nat, at + n <= Len(text)
    PROVE  PartCopies(C, text, at, n)
<1>1. \A i \in (at + 1)..(at + n) : text[i] \in C
  OBVIOUS
<1>2. SubSeq(text, at + 1, at + n) = [i \in 1..n |-> text[i + at]]
  OBVIOUS
<1> QED  BY <1>1, <1>2 DEF Part, PartCopies

\* Folded texts that agree at every character are equal.
LEMMA FoldedEqual ==
    ASSUME NEW s \in Worker!Text, NEW t \in Worker!Text, Len(s) = Len(t),
           ~Worker!Shifts(s), ~Worker!Shifts(t),
           \A i \in 1..Len(s) : CaseFold[s[i]][1] = CaseFold[t[i]][1]
    PROVE  Worker!Folded(s) = Worker!Folded(t)
<1>1. Worker!Folded(s) \in Seq(DOMAIN CaseFold) /\ Worker!Folded(t) \in Seq(DOMAIN CaseFold)
  BY FoldedText DEF Worker!Text
<1>2. /\ Len(Worker!Folded(s)) = Len(Worker!Folded(t))
      /\ \A i \in 1..Len(Worker!Folded(s)) : Worker!Folded(s)[i] = Worker!Folded(t)[i]
  BY FoldedText
<1> QED  BY <1>1, <1>2, SeqEqual

\* What a span of a subject in a text says, for a text that starts at an offset.
Marks(text, subject, offset, span) ==
    \/ span = None
    \/ \E at \in Nat :
        /\ span = <<offset + at, offset + at + Len(subject)>>
        /\ ~Worker!Shifts(text) /\ ~Worker!Shifts(subject) =>
              /\ at + Len(subject) <= Len(text)
              /\ \A i \in 1..Len(subject) :
                     CaseFold[text[at + i]][1] = CaseFold[subject[i]][1]

LEMMA FindSpanMarks ==
    ASSUME NEW text \in Worker!Text, NEW subject \in Worker!Text, NEW offset \in Nat
    PROVE  Marks(text, subject, offset, Worker!FindSpan(text, subject, offset))
<1> DEFINE C == DOMAIN CaseFold
           exact == Worker!Find(text, subject, 0)
           folded == Worker!Find(Worker!Folded(text), Worker!Folded(subject), 0)
           at == IF exact >= 0 THEN exact ELSE folded
           span == Worker!FindSpan(text, subject, offset)
<1>1. span = IF at < 0 THEN None ELSE <<offset + at, offset + at + Len(subject)>>
  BY DEF Worker!FindSpan
<1>2. text \in Seq(C) /\ subject \in Seq(C) /\ Len(text) \in Nat /\ Len(subject) \in Nat
  BY DEF Worker!Text
<1>3. Worker!Folded(text) \in Seq(C) /\ Worker!Folded(subject) \in Seq(C)
  BY FoldedText DEF Worker!Text
<1> HIDE DEF C, span
<1>4. exact = -1 \/ Occurs(text, subject, exact)
  BY <1>2, FindFinds
<1>5. folded = -1 \/ Occurs(Worker!Folded(text), Worker!Folded(subject), folded)
  BY <1>3, FindFinds
<1> HIDE DEF exact, folded
<1>6. CASE exact # -1
  <2>1. exact \in Nat /\ exact + Len(subject) <= Len(text)
        /\ Part(text, exact, Len(subject)) = subject
    BY <1>4, <1>6 DEF Occurs
  <2>2. at = exact /\ span = <<offset + exact, offset + exact + Len(subject)>>
    BY <1>1, <2>1
  <2>3. \A i \in 1..Len(subject) : subject[i] = text[exact + i]
    <3>1. PartCopies(C, text, exact, Len(subject))
      BY <1>2, <2>1, OccursAt
    <3> QED  BY <2>1, <3>1 DEF PartCopies
  <2> QED  BY <2>1, <2>2, <2>3 DEF Marks, span
<1>7. CASE exact = -1 /\ folded # -1
  <2> DEFINE T == Worker!Folded(text)
             S == Worker!Folded(subject)
  <2>1. folded \in Nat /\ folded + Len(S) <= Len(T)
        /\ Part(T, folded, Len(S)) = S
    BY <1>5, <1>7 DEF Occurs
  <2>2. at = folded /\ span = <<offset + folded, offset + folded + Len(subject)>>
    BY <1>1, <1>7, <2>1
  <2> HIDE DEF S, T, at
  <2>3. ASSUME ~Worker!Shifts(text), ~Worker!Shifts(subject)
        PROVE  /\ folded + Len(subject) <= Len(text)
               /\ \A i \in 1..Len(subject) :
                      CaseFold[text[folded + i]][1] = CaseFold[subject[i]][1]
    <3>1. /\ Len(T) = Len(text) /\ \A i \in 1..Len(text) : T[i] = CaseFold[text[i]][1]
          /\ Len(S) = Len(subject)
          /\ \A i \in 1..Len(subject) : S[i] = CaseFold[subject[i]][1]
      BY <2>3, FoldedText DEF S, T
    <3>2. T \in Seq(C) /\ Len(S) \in Nat
      BY <1>2, <1>3, <3>1 DEF T
    <3>3. \A i \in 1..Len(S) : S[i] = T[folded + i]
      <4>1. PartCopies(C, T, folded, Len(S))
        BY <2>1, <3>2, OccursAt
      <4> QED  BY <2>1, <4>1 DEF PartCopies
    <3>4. \A i \in 1..Len(subject) : folded + i \in 1..Len(text)
      BY <1>2, <2>1, <3>1
    <3> QED  BY <2>1, <3>1, <3>3, <3>4
  <2> QED  BY <2>1, <2>2, <2>3 DEF Marks, span
<1>8. CASE exact = -1 /\ folded = -1
  BY <1>1, <1>8 DEF Marks, span
<1> QED  BY <1>6, <1>7, <1>8

\* A span that marks a subject in a part of a text selects it in the text.
LEMMA MarksSelect ==
    ASSUME NEW text \in Worker!Text, NEW part \in Worker!Text, NEW subject \in Worker!Text,
           NEW offset, Occurs(text, part, offset), NEW span,
           Marks(part, subject, offset, span)
    PROVE  Worker!Selects(span, text, subject)
<1> DEFINE C == DOMAIN CaseFold
           n == Len(subject)
<1>1. text \in Seq(C) /\ part \in Seq(C) /\ subject \in Seq(C)
  BY DEF Worker!Text
<1>2. Len(text) \in Nat /\ Len(part) \in Nat /\ n \in Nat /\ DOMAIN text = 1..Len(text)
      /\ DOMAIN part = 1..Len(part)
  BY <1>1
<1> HIDE DEF C
<1>3. offset \in Nat /\ offset + Len(part) <= Len(text)
      /\ Part(text, offset, Len(part)) = part
  BY DEF Occurs
<1>4. \A i \in 1..Len(part) : part[i] = text[offset + i] /\ offset + i \in 1..Len(text)
  <2>1. \A i \in 1..Len(part) : part[i] = text[offset + i]
    <3>1. PartCopies(C, text, offset, Len(part))
      BY <1>1, <1>2, <1>3, OccursAt
    <3> QED  BY <1>3, <3>1 DEF PartCopies
  <2> QED  BY <1>2, <1>3, <2>1
<1>5. SUFFICES ASSUME span # None, ~Worker!Shifts(text), ~Worker!Shifts(subject)
               PROVE  Worker!Folded(SubSeq(text, span[1] + 1, span[2])) = Worker!Folded(subject)
  BY DEF Worker!Selects
<1>6. ~Worker!Shifts(part)
  BY <1>2, <1>4, <1>5 DEF Worker!Shifts
<1> HIDE DEF n
<1>7. PICK at \in Nat :
          /\ span = <<offset + at, offset + at + n>>
          /\ at + n <= Len(part)
          /\ \A i \in 1..n : CaseFold[part[at + i]][1] = CaseFold[subject[i]][1]
  BY <1>5, <1>6 DEF Marks, n
<1> DEFINE s == Part(text, offset + at, n)
<1>8. SubSeq(text, span[1] + 1, span[2]) = s
  BY <1>7 DEF Part
<1>9. offset + at \in Nat /\ offset + at + n <= Len(text)
  BY <1>2, <1>3, <1>7
<1>10. s \in Seq(C) /\ Len(s) = n /\ \A i \in 1..n : s[i] = text[offset + at + i]
  <2>1. PartCopies(C, text, offset + at, n)
    BY <1>1, <1>2, <1>9, OccursAt
  <2> QED  BY <2>1 DEF PartCopies
<1> HIDE DEF s
<1>11. \A i \in 1..n : offset + at + i \in 1..Len(text) /\ s[i] = part[at + i]
  <2> TAKE i \in 1..n
  <2>1. at + i \in 1..Len(part) /\ offset + (at + i) = offset + at + i
    BY <1>2, <1>3, <1>7
  <2> QED  BY <1>4, <1>10, <2>1
<1>12. ~Worker!Shifts(s)
  <2>1. DOMAIN s = 1..n
    BY <1>10
  <2> QED  BY <1>2, <1>5, <1>10, <1>11, <2>1 DEF Worker!Shifts
<1>13. s \in Worker!Text
  BY <1>10 DEF C, Worker!Text
<1>14. \A i \in 1..Len(s) : CaseFold[s[i]][1] = CaseFold[subject[i]][1]
  BY <1>7, <1>10, <1>11
<1>15. Worker!Folded(s) = Worker!Folded(subject)
  BY <1>5, <1>10, <1>12, <1>13, <1>14, FoldedEqual DEF n
<1> QED  BY <1>8, <1>15

\* The greatest of numbers up to a bound is one of them.
LEMMA GreatestIn ==
    ASSUME NEW b \in Nat, NEW S \in SUBSET (0..b), S # {}
    PROVE  Worker!Max(S) \in S
<1> DEFINE D == {b - x : x \in S}
<1>1. D \subseteq Nat /\ D # {}
  <2>1. \A x \in S : b - x \in Nat
    OBVIOUS
  <2> QED  BY <2>1
<1>2. PICK d \in D : \A e \in D : d <= e
  <2> HIDE DEF D
  <2> QED  BY <1>1, LeastOf
<1>3. PICK x \in S : d = b - x
  OBVIOUS
<1>4. \A y \in S : x >= y
  <2> TAKE y \in S
  <2>1. b - x <= b - y
    BY <1>2, <1>3
  <2> QED  BY <2>1
<1> QED  BY <1>4 DEF Worker!Max

\* A chunk is found where it stands, or not at all.
LEMMA ChunkFound ==
    ASSUME NEW C, NEW text \in Seq(C), NEW chunk \in Seq(C), NEW prior \in Nat \cup {-1}
    PROVE  \/ Worker!ChunkOffset(text, chunk, prior) = -1
           \/ Occurs(text, chunk, Worker!ChunkOffset(text, chunk, prior))
<1>1. prior + 1 \in Nat
  OBVIOUS
<1>2. \/ Worker!Find(text, chunk, prior + 1) = -1
      \/ Occurs(text, chunk, Worker!Find(text, chunk, prior + 1))
  BY <1>1, FindFinds
<1>3. \/ Worker!Find(text, chunk, 0) = -1
      \/ Occurs(text, chunk, Worker!Find(text, chunk, 0))
  BY FindFinds
<1> QED  BY <1>2, <1>3 DEF Worker!ChunkOffset

\* The places of the chunks of an answer.
Placed(chunks, textOf, offset) ==
    \A i \in DOMAIN chunks :
        \/ offset[i] = -1
        \/ Occurs(textOf[chunks[i].id], chunks[i].text, offset[i])

LEMMA OffsetsPlace ==
    ASSUME NEW chunks \in Worker!Chunks, NEW textOf,
           \A i \in DOMAIN chunks : textOf[chunks[i].id] \in Worker!Text
    PROVE  Placed(chunks, textOf, Worker!Offsets(chunks, textOf))
<1> DEFINE L == Len(chunks)
           C == DOMAIN CaseFold
           Earlier(o, i) == {j \in 1..(i - 1) : chunks[j].id = chunks[i].id /\ o[j] >= 0}
           Prior(o, i) == IF Earlier(o, i) = {} THEN -1 ELSE o[Worker!Max(Earlier(o, i))]
           At(o, i) == Worker!ChunkOffset(textOf[chunks[i].id], chunks[i].text, Prior(o, i))
           Def(o) == [i \in DOMAIN chunks |-> At(o, i)]
           offset == CHOOSE o : o = Def(o)
           Ints == Nat \cup {-1}
<1>1. /\ L \in Nat /\ DOMAIN chunks = 1..L
      /\ \A i \in 1..L : chunks[i].text \in Seq(C) /\ textOf[chunks[i].id] \in Seq(C)
  <2>1. DOMAIN chunks = 1..L /\ L \in Nat
    BY DEF Worker!Chunks
  <2> DEFINE R == [id : STRING, text : Worker!Text, facts : Worker!Facts]
  <2>2. \A i \in 1..L : chunks[i] \in R
    <3>1. chunks \in Seq(R)
      BY DEF Worker!Chunks
    <3> HIDE DEF R
    <3> QED  BY <2>1, <3>1
  <2> QED  BY <2>1, <2>2 DEF Worker!Text
<1>2. Worker!Offsets(chunks, textOf) = offset
  BY DEF Worker!Offsets
<1> HIDE DEF C, L
<1>3. ASSUME NEW i \in 1..L, NEW o, \A j \in 1..(i - 1) : o[j] \in Ints
      PROVE  Prior(o, i) \in Ints
  <2>1. CASE Earlier(o, i) = {}
    BY <2>1
  <2>2. CASE Earlier(o, i) # {}
    <3> DEFINE E == Earlier(o, i)
    <3>1. E \in SUBSET (0..(i - 1)) /\ i - 1 \in Nat /\ E # {}
      BY <1>1, <2>2
    <3>2. E \subseteq 1..(i - 1)
      OBVIOUS
    <3>3. Prior(o, i) = o[Worker!Max(E)]
      BY <2>2
    <3> HIDE DEF E, Prior
    <3>4. Worker!Max(E) \in E
      BY <3>1, GreatestIn
    <3> QED  BY <1>3, <3>2, <3>3, <3>4
  <2> QED  BY <2>1, <2>2
<1>4. ASSUME NEW i \in 1..L, NEW o, \A j \in 1..(i - 1) : o[j] \in Ints
      PROVE  \/ At(o, i) = -1
             \/ Occurs(textOf[chunks[i].id], chunks[i].text, At(o, i))
  <2>1. Prior(o, i) \in Ints
    BY <1>3, <1>4
  <2> HIDE DEF Prior
  <2> QED  BY <1>1, <2>1, ChunkFound
<1>5. ASSUME NEW i \in 1..L, NEW o, \A j \in 1..(i - 1) : o[j] \in Ints
      PROVE  At(o, i) \in Ints
  BY <1>4, <1>5 DEF Occurs
<1>6. ASSUME NEW i \in 1..L, NEW o, NEW q, \A j \in 1..(i - 1) : o[j] = q[j]
      PROVE  At(o, i) = At(q, i)
  <2>1. Earlier(o, i) = Earlier(q, i)
    BY <1>6
  <2>2. Prior(o, i) = Prior(q, i)
    <3>1. CASE Earlier(o, i) = {}
      BY <2>1, <3>1
    <3>2. CASE Earlier(o, i) # {}
      <4> DEFINE E == Earlier(o, i)
      <4>1. E \in SUBSET (0..(i - 1)) /\ i - 1 \in Nat /\ E # {}
        BY <1>1, <3>2
      <4>2. E \subseteq 1..(i - 1) /\ Earlier(q, i) = E
        BY <2>1
      <4>3. Prior(o, i) = o[Worker!Max(E)] /\ Prior(q, i) = q[Worker!Max(E)]
        BY <3>2, <4>2
      <4> HIDE DEF E, Prior, Earlier
      <4>4. Worker!Max(E) \in E
        BY <4>1, GreatestIn
      <4> QED  BY <1>6, <4>2, <4>3, <4>4
    <3> QED  BY <3>1, <3>2
  <2> HIDE DEF Prior
  <2> QED  BY <2>2
<1> HIDE DEF At
<1> DEFINE Upto(o, k) == \A i \in 1..k : o[i] = At(o, i)
           U == {k \in 0..L : \E o \in [1..k -> Ints] : Upto(o, k)}
<1>7. 0 \in U
  <2> DEFINE o == [i \in 1..0 |-> 0]
  <2>1. o \in [1..0 -> Ints] /\ \A i \in 1..0 : FALSE
    OBVIOUS
  <2> HIDE DEF o
  <2>2. o \in [1..0 -> Ints] /\ Upto(o, 0)
    BY <2>1
  <2>3. \E q \in [1..0 -> Ints] : Upto(q, 0)
    BY <2>2
  <2>4. 0 \in 0..L
    BY <1>1
  <2> HIDE DEF Upto, Ints
  <2> QED  BY <2>3, <2>4, Zenon
<1>8. ASSUME NEW k \in 1..L, k - 1 \in U PROVE k \in U
  <2>1. PICK o \in [1..(k - 1) -> Ints] : Upto(o, k - 1)
    BY <1>8
  <2> DEFINE q == [i \in 1..k |-> IF i < k THEN o[i] ELSE At(o, k)]
  <2>2. At(o, k) \in Ints
    BY <1>5, <2>1
  <2>3. q \in [1..k -> Ints]
    BY <2>2
  <2>4. q[k] = At(o, k) /\ \A i \in 1..(k - 1) : q[i] = o[i]
    BY <1>1
  <2> HIDE DEF q
  <2>5. ASSUME NEW i \in 1..k PROVE q[i] = At(q, i)
    <3>1. i \in 1..L /\ \A j \in 1..(i - 1) : j \in 1..(k - 1)
      BY <1>1
    <3>2. At(o, i) = At(q, i)
      BY <1>6, <2>4, <3>1
    <3>3. q[i] = At(o, i)
      <4>1. CASE i = k
        BY <2>4, <4>1
      <4>2. CASE i # k
        <5>1. i \in 1..(k - 1)
          BY <1>1, <4>2
        <5> QED  BY <2>1, <2>4, <5>1
      <4> QED  BY <4>1, <4>2
    <3> QED  BY <3>2, <3>3
  <2>6. k \in 0..L
    BY <1>1
  <2>7. \E o1 \in [1..k -> Ints] : Upto(o1, k)
    BY <2>3, <2>5
  <2> HIDE DEF Upto, Ints
  <2> QED  BY <2>6, <2>7, Zenon
<1> HIDE DEF U
<1>9. L \in U
  <2>1. \A k \in 1..L : k - 1 \in U => k \in U
    BY <1>8
  <2>2. \A k \in 0..L : k \in U
    BY <1>1, <1>7, <2>1, UpTo
  <2> QED  BY <1>1, <2>2
<1>10. \E o : o = Def(o)
  <2>1. PICK o \in [1..L -> Ints] : Upto(o, L)
    BY <1>9 DEF U
  <2>2. o = Def(o)
    BY <1>1, <2>1
  <2> QED  BY <2>2
<1>11. offset = Def(offset)
  BY <1>10
<1> HIDE DEF offset
<1>12. \A i \in 1..L : offset[i] = At(offset, i)
  BY <1>1, <1>11
<1> DEFINE V == {k \in 0..L : \A j \in 1..k : offset[j] \in Ints}
<1>13. \A k \in 0..L : k \in V
  <2>1. 0 \in V
    BY <1>1
  <2>2. ASSUME NEW k \in 1..L, k - 1 \in V PROVE k \in V
    <3>1. offset[k] \in Ints
      BY <1>5, <1>12, <2>2
    <3> QED  BY <1>1, <2>2, <3>1
  <2> HIDE DEF V
  <2>3. \A k \in 1..L : k - 1 \in V => k \in V
    BY <2>2
  <2> QED  BY <1>1, <2>1, <2>3, UpTo
<1>14. \A i \in 1..L : \A j \in 1..(i - 1) : offset[j] \in Ints
  <2> SUFFICES ASSUME NEW i \in 1..L PROVE \A j \in 1..(i - 1) : offset[j] \in Ints
    OBVIOUS
  <2>1. i - 1 \in 0..L
    BY <1>1
  <2>2. i - 1 \in V
    BY <1>13, <2>1
  <2> QED  BY <2>2
<1>15. \A i \in 1..L : \/ offset[i] = -1
                       \/ Occurs(textOf[chunks[i].id], chunks[i].text, offset[i])
  BY <1>4, <1>12, <1>14
<1> QED  BY <1>1, <1>2, <1>15 DEF Placed

(***************************************************************************)
(* Rows                                                                    *)
(***************************************************************************)
\* The rows an extraction may make of a table.
Stages == STRING \cup {"concept", "typed"}
RowsOf(table) ==
    {r \in [stage : Stages, passage : STRING, subject : Worker!Text, object : STRING,
            span : (Nat \X Nat) \cup {None}] : Worker!RowRight(table, r)}

PassageType == [id : STRING, text : Worker!Text]

LEMMA PassageTypes ==
    ASSUME NEW table \in Worker!Passages
    PROVE  /\ Len(table) \in Nat /\ DOMAIN table = 1..Len(table)
           /\ \A i \in DOMAIN table : table[i].id \in STRING /\ table[i].text \in Worker!Text
<1>1. table \in Seq(PassageType)
  BY DEF Worker!Passages, PassageType
<1>2. Len(table) \in Nat /\ DOMAIN table = 1..Len(table)
  BY <1>1
<1>3. \A i \in DOMAIN table : table[i] \in PassageType
  BY <1>1
<1> QED  BY <1>2, <1>3 DEF PassageType

\* The text an id stands for is that of a passage with the id.
LEMMA TextOfPassage ==
    ASSUME NEW table \in Worker!Passages, NEW id \in Worker!IdsOf(table)
    PROVE  \E i \in DOMAIN table :
               table[i].id = id /\ Worker!TextOf(table)[id] = table[i].text
<1> DEFINE L == Len(table)
           E == {i \in DOMAIN table : table[i].id = id}
<1>1. L \in Nat /\ DOMAIN table = 1..L
  BY PassageTypes
<1>2. E \in SUBSET (0..L) /\ E # {}
  BY <1>1 DEF Worker!IdsOf
<1>3. Worker!TextOf(table)[id] = table[Worker!Max(E)].text
  BY DEF Worker!TextOf
<1> HIDE DEF L
<1>4. Worker!Max(E) \in E
  <2> HIDE DEF E
  <2> QED  BY <1>1, <1>2, GreatestIn
<1> QED  BY <1>3, <1>4

\* A span that marks its subject makes a right row, and so does no span.
LEMMA SpanRows ==
    ASSUME NEW table \in Worker!Passages, NEW i \in DOMAIN table,
           NEW part \in Worker!Text, NEW offset, Occurs(table[i].text, part, offset),
           NEW stage \in Stages, NEW subject \in Worker!Text, NEW object \in STRING
    PROVE  Worker!Row(stage, table[i].id, subject, object,
                      Worker!FindSpan(part, subject, offset)) \in RowsOf(table)
<1> DEFINE span == Worker!FindSpan(part, subject, offset)
           row == Worker!Row(stage, table[i].id, subject, object, span)
<1>1. offset \in Nat
  BY DEF Occurs
<1>2. Marks(part, subject, offset, span)
  BY <1>1, FindSpanMarks
<1>3. table[i].id \in STRING /\ table[i].text \in Worker!Text
  BY PassageTypes
<1> HIDE DEF span
<1>4. Worker!Selects(span, table[i].text, subject)
  BY <1>2, <1>3, MarksSelect
<1>5. Len(subject) \in Nat
  BY DEF Worker!Text
<1>6. span \in (Nat \X Nat) \cup {None}
  BY <1>1, <1>2, <1>5 DEF Marks
<1>7. /\ row \in [stage : Stages, passage : STRING, subject : Worker!Text, object : STRING,
                  span : (Nat \X Nat) \cup {None}]
      /\ row.passage = table[i].id /\ row.subject = subject /\ row.span = span
  BY <1>3, <1>6 DEF Worker!Row
<1> HIDE DEF row
<1>8. Worker!RowRight(table, row)
  BY <1>4, <1>7 DEF Worker!RowRight
<1> QED  BY <1>7, <1>8 DEF RowsOf, row, span

LEMMA SpanlessRows ==
    ASSUME NEW table \in Worker!Passages, NEW i \in DOMAIN table,
           NEW stage \in Stages, NEW subject \in Worker!Text, NEW object \in STRING
    PROVE  Worker!Row(stage, table[i].id, subject, object, None) \in RowsOf(table)
<1> DEFINE row == Worker!Row(stage, table[i].id, subject, object, None)
<1>1. table[i].id \in STRING
  BY PassageTypes
<1>2. /\ row \in [stage : Stages, passage : STRING, subject : Worker!Text, object : STRING,
                  span : (Nat \X Nat) \cup {None}]
      /\ row.passage = table[i].id /\ row.span = None
  BY <1>1 DEF Worker!Row
<1> HIDE DEF row
<1>3. Worker!RowRight(table, row)
  BY <1>2 DEF Worker!RowRight, Worker!Selects
<1> QED  BY <1>2, <1>3 DEF RowsOf, row

\* A text occurs in itself.
LEMMA OccursWhole ==
    ASSUME NEW text \in Worker!Text
    PROVE  Occurs(text, text, 0)
<1>1. text \in Seq(DOMAIN CaseFold)
  BY DEF Worker!Text
<1>2. SubSeq(text, 0 + 1, 0 + Len(text)) = text
  BY <1>1
<1> QED  BY <1>1, <1>2 DEF Occurs, Part

FactType == [stage : STRING, subject : Worker!Text, object : STRING]
ChunkType == [id : STRING, text : Worker!Text, facts : Worker!Facts]

\* The rows of a chunk that stands in a passage.
LEMMA ChunkRowsRight ==
    ASSUME NEW table \in Worker!Passages, NEW i \in DOMAIN table,
           NEW chunk \in ChunkType, chunk.id = table[i].id, NEW offset,
           offset = -1 \/ Occurs(table[i].text, chunk.text, offset)
    PROVE  Worker!ChunkRows(chunk, offset) \in Seq(RowsOf(table))
<1> DEFINE facts == chunk.facts
           T == RowsOf(table)
           RowAt(k) == Worker!Row(facts[k].stage, chunk.id, facts[k].subject, facts[k].object,
                                  IF offset < 0 THEN None
                                  ELSE Worker!FindSpan(chunk.text, facts[k].subject, offset))
<1>1. facts \in Seq(FactType) /\ chunk.text \in Worker!Text
  BY DEF ChunkType, FactType, Worker!Facts
<1>2. Worker!ChunkRows(chunk, offset) = [k \in DOMAIN facts |-> RowAt(k)]
  BY DEF Worker!ChunkRows
<1> HIDE DEF facts
<1>3. Len(facts) \in Nat /\ DOMAIN facts = 1..Len(facts)
      /\ \A k \in DOMAIN facts : facts[k] \in FactType
  BY <1>1
<1>4. ASSUME NEW k \in DOMAIN facts PROVE RowAt(k) \in T
  <2>1. facts[k].stage \in Stages /\ facts[k].subject \in Worker!Text /\ facts[k].object \in STRING
    BY <1>3 DEF FactType, Stages
  <2>2. CASE offset = -1
    <3>1. RowAt(k) = Worker!Row(facts[k].stage, table[i].id, facts[k].subject,
                                facts[k].object, None)
      BY <2>2
    <3> HIDE DEF RowAt
    <3> QED  BY <2>1, <3>1, SpanlessRows
  <2>3. CASE Occurs(table[i].text, chunk.text, offset)
    <3>1. ~(offset < 0)
      BY <2>3 DEF Occurs
    <3>2. RowAt(k) = Worker!Row(facts[k].stage, table[i].id, facts[k].subject, facts[k].object,
                                Worker!FindSpan(chunk.text, facts[k].subject, offset))
      BY <3>1
    <3> HIDE DEF RowAt
    <3> QED  BY <1>1, <2>1, <2>3, <3>2, SpanRows
  <2> QED  BY <2>2, <2>3
<1> HIDE DEF T, RowAt
<1> QED  BY <1>2, <1>3, <1>4 DEF T

\* A finite set is put in a sequence.
LEMMA SequenceOfSet ==
    ASSUME NEW S, IsFiniteSet(S), NEW T, S \subseteq T
    PROVE  Worker!SetToSeq(S) \in Seq(T)
<1> DEFINE n == Cardinality(S)
<1>1. n \in Nat /\ \E f : f \in Bijection(1..n, S)
  BY FS_CardinalityType DEF ExistsBijection
<1>2. Worker!Cardinality(S) = n
  BY DEF Worker!Cardinality, Cardinality
<1> HIDE DEF n
<1>3. PICK f \in [1..n -> S] : Worker!IsInjective(f)
  <2>1. PICK f : f \in Bijection(1..n, S)
    BY <1>1
  <2>2. f \in [1..n -> S] /\ \A a, b \in 1..n : f[a] = f[b] => a = b
    BY <2>1 DEF Bijection, Injection, IsInjective
  <2> QED  BY <2>2 DEF Worker!IsInjective
<1>4. Worker!SetToSeq(S) = CHOOSE g \in [1..n -> S] : Worker!IsInjective(g)
  BY <1>2 DEF Worker!SetToSeq
<1>5. Worker!SetToSeq(S) \in [1..n -> S]
  BY <1>3, <1>4
<1> QED  BY <1>1, <1>5

\* What is made of each element of a finite set is finite.
LEMMA FiniteMade ==
    ASSUME NEW S, IsFiniteSet(S), NEW f, DOMAIN f = S
    PROVE  IsFiniteSet({f[x] : x \in S})
<1> DEFINE T == {f[x] : x \in S}
           g == [x \in S |-> f[x]]
<1>1. g \in Surjection(S, T)
  BY DEF Surjection
<1> HIDE DEF T, g
<1>2. IsFiniteSet(T)
  BY <1>1, FS_Surjection
<1> QED  BY <1>2 DEF T

LEMMA IdsFinite ==
    ASSUME NEW table \in Worker!Passages
    PROVE  IsFiniteSet(Worker!IdsOf(table))
<1> DEFINE f == [i \in DOMAIN table |-> table[i].id]
<1>1. DOMAIN table = 1..Len(table) /\ Len(table) \in Nat
  BY PassageTypes
<1>2. IsFiniteSet(DOMAIN table)
  BY <1>1, FS_Interval
<1>3. DOMAIN f = DOMAIN table /\ Worker!IdsOf(table) = {f[i] : i \in DOMAIN table}
  BY DEF Worker!IdsOf
<1> HIDE DEF f
<1>4. IsFiniteSet({f[i] : i \in DOMAIN table})
  BY <1>2, <1>3, FiniteMade
<1> QED  BY <1>3, <1>4

ConceptType == [node : Worker!Text, concept : STRING]

LEMMA ConceptRowsRight ==
    ASSUME NEW table \in Worker!Passages, NEW concepts \in Worker!Concepts
    PROVE  Worker!ConceptRows(concepts, table) \in Seq(RowsOf(table))
<1> DEFINE T == RowsOf(table)
           Ids == Worker!IdsOf(table)
           textOf == Worker!TextOf(table)
           Mentioning(c) ==
               {p \in Ids : Worker!Find(Worker!Folded(textOf[p]), Worker!Folded(c.node), 0) >= 0}
           RowAt(c, id) ==
               Worker!Row("concept", id, c.node, c.concept,
                          Worker!FindSpan(textOf[id], c.node, 0))
           Of(c) == {RowAt(c, id) : id \in Mentioning(c)}
           seqs == [k \in DOMAIN concepts |-> Worker!SetToSeq(Of(concepts[k]))]
<1>1. Worker!ConceptRows(concepts, table) = Worker!FlattenSeq(seqs)
  BY DEF Worker!ConceptRows
<1>2. /\ Len(concepts) \in Nat /\ DOMAIN concepts = 1..Len(concepts)
      /\ \A k \in DOMAIN concepts : concepts[k] \in ConceptType
  <2>1. concepts \in Seq(ConceptType)
    BY DEF ConceptType, Worker!Concepts
  <2> QED  BY <2>1
<1>3. ASSUME NEW c \in ConceptType, NEW id \in Ids PROVE RowAt(c, id) \in T
  <2>1. PICK i \in DOMAIN table : table[i].id = id /\ textOf[id] = table[i].text
    BY TextOfPassage
  <2>2. table[i].text \in Worker!Text
    BY PassageTypes
  <2>3. Occurs(table[i].text, table[i].text, 0)
    BY <2>2, OccursWhole
  <2>4. c.node \in Worker!Text /\ c.concept \in STRING
    BY DEF ConceptType
  <2>5. RowAt(c, id) = Worker!Row("concept", table[i].id, c.node, c.concept,
                                  Worker!FindSpan(table[i].text, c.node, 0))
    BY <2>1
  <2>6. "concept" \in Stages
    BY DEF Stages
  <2> DEFINE part == table[i].text
             node == c.node
             concept == c.concept
  <2>7. Worker!Row("concept", table[i].id, node, concept, Worker!FindSpan(part, node, 0)) \in T
    <3>1. /\ part \in Worker!Text /\ Occurs(table[i].text, part, 0)
          /\ node \in Worker!Text /\ concept \in STRING
      BY <2>2, <2>3, <2>4
    <3> HIDE DEF part, node, concept
    <3> QED  BY <2>6, <3>1, SpanRows
  <2> QED  BY <2>5, <2>7
<1> HIDE DEF RowAt
<1>4. ASSUME NEW c \in ConceptType PROVE Worker!SetToSeq(Of(c)) \in Seq(T)
  <2> DEFINE M == Mentioning(c)
             f == [id \in M |-> RowAt(c, id)]
  <2>1. M \subseteq Ids
    OBVIOUS
  <2>2. IsFiniteSet(M)
    <3> HIDE DEF M
    <3> QED  BY <2>1, IdsFinite, FS_Subset
  <2> HIDE DEF M
  <2>3. DOMAIN f = M /\ {f[id] : id \in M} = {RowAt(c, id) : id \in M}
    OBVIOUS
  <2>4. IsFiniteSet({RowAt(c, id) : id \in M})
    <3>1. IsFiniteSet({f[id] : id \in M})
      <4> HIDE DEF f
      <4> QED  BY <2>2, <2>3, FiniteMade
    <3> QED  BY <2>3, <3>1
  <2>5. {RowAt(c, id) : id \in M} \subseteq T
    BY <1>3, <2>1
  <2> DEFINE R == {RowAt(c, id) : id \in M}
  <2> HIDE DEF T
  <2>6. Worker!SetToSeq(R) \in Seq(T)
    <3> HIDE DEF R
    <3> QED  BY <2>4, <2>5, SequenceOfSet DEF R
  <2> QED  BY <2>6 DEF M
<1> HIDE DEF Of, T
<1>5. seqs \in Seq(Seq(T))
  BY <1>2, <1>4
<1> HIDE DEF seqs
<1> QED  BY <1>1, <1>5, FlattenType DEF T

\* An answer to an atlas request makes right rows.
LEMMA AtlasRowsRight ==
    ASSUME NEW table \in Worker!Passages, NEW reply,
           reply.chunks \in Worker!Chunks, reply.concepts \in Worker!Concepts,
           Worker!AtlasFits(reply, table)
    PROVE  \E rows \in Seq(RowsOf(table)) :
               Worker!AtlasRows(reply, table) = Worker!CanonicalRows(rows)
<1> DEFINE T == RowsOf(table)
           chunks == reply.chunks
           textOf == Worker!TextOf(table)
           offset == Worker!Offsets(chunks, textOf)
           seqs == [k \in DOMAIN chunks |-> Worker!ChunkRows(chunks[k], offset[k])]
           rows == Worker!FlattenSeq(seqs) \o Worker!ConceptRows(reply.concepts, table)
<1>1. Worker!AtlasRows(reply, table) = Worker!CanonicalRows(rows)
  BY DEF Worker!AtlasRows
<1>2. /\ Len(chunks) \in Nat /\ DOMAIN chunks = 1..Len(chunks)
      /\ \A k \in DOMAIN chunks : chunks[k] \in ChunkType
  <2>1. chunks \in Seq(ChunkType)
    BY DEF ChunkType, Worker!Chunks
  <2> HIDE DEF chunks
  <2> QED  BY <2>1
<1>3. \A k \in DOMAIN chunks : chunks[k].id \in Worker!IdsOf(table)
  BY DEF Worker!AtlasFits
<1>4. \A k \in DOMAIN chunks :
          \E i \in DOMAIN table :
              table[i].id = chunks[k].id /\ textOf[chunks[k].id] = table[i].text
  BY <1>3, TextOfPassage
<1> HIDE DEF textOf
<1>5. \A k \in DOMAIN chunks : textOf[chunks[k].id] \in Worker!Text
  BY <1>4, PassageTypes
<1>6. Placed(chunks, textOf, offset)
  BY <1>5, OffsetsPlace
<1> HIDE DEF offset, chunks
<1>7. ASSUME NEW k \in DOMAIN chunks
      PROVE  Worker!ChunkRows(chunks[k], offset[k]) \in Seq(T)
  <2>1. PICK i \in DOMAIN table :
            table[i].id = chunks[k].id /\ textOf[chunks[k].id] = table[i].text
    BY <1>4
  <2>2. offset[k] = -1 \/ Occurs(table[i].text, chunks[k].text, offset[k])
    BY <1>6, <2>1 DEF Placed
  <2>3. chunks[k] \in ChunkType /\ chunks[k].id = table[i].id
    BY <1>2, <2>1
  <2> QED  BY <2>2, <2>3, ChunkRowsRight
<1> HIDE DEF T
<1>8. seqs \in Seq(Seq(T))
  BY <1>2, <1>7
<1> HIDE DEF seqs
<1>9. Worker!FlattenSeq(seqs) \in Seq(T)
  BY <1>8, FlattenType
<1>10. Worker!ConceptRows(reply.concepts, table) \in Seq(T)
  BY ConceptRowsRight DEF T
<1>11. rows \in Seq(T)
  BY <1>9, <1>10
<1> QED  BY <1>1, <1>11 DEF T

\* And so does one to a typed request.
LEMMA TypedRowsRight ==
    ASSUME NEW table \in Worker!Passages, NEW reply, reply.records \in Seq(Worker!Records),
           Worker!TypedFits(reply, table)
    PROVE  \E rows \in Seq(RowsOf(table)) :
               Worker!TypedRows(reply, table) = Worker!CanonicalRows(rows)
<1> DEFINE T == RowsOf(table)
           records == reply.records
           RecordType == [label : Worker!Text \cup {None}, body : STRING]
           RowAt(i, k) ==
               Worker!Row("typed", table[i].id, records[i][k].label, records[i][k].body,
                          Worker!FindSpan(table[i].text, records[i][k].label, 0))
           seqs == [i \in DOMAIN table |-> [k \in DOMAIN records[i] |-> RowAt(i, k)]]
<1>1. Worker!TypedRows(reply, table) = Worker!CanonicalRows(Worker!FlattenSeq(seqs))
  BY DEF Worker!TypedRows
<1>2. Len(table) \in Nat /\ DOMAIN table = 1..Len(table)
  BY PassageTypes
<1>3. /\ Len(records) = Len(table)
      /\ \A i \in DOMAIN table : \A k \in DOMAIN records[i] : records[i][k].label # None
  BY DEF Worker!TypedFits
<1>4. \A i \in DOMAIN table : records[i] \in Seq(RecordType)
  <2>1. records \in Seq(Worker!Records)
    OBVIOUS
  <2> HIDE DEF records, RecordType
  <2>2. \A i \in DOMAIN table : records[i] \in Worker!Records
    BY <1>2, <1>3, <2>1
  <2> QED  BY <2>2 DEF Worker!Records, RecordType
<1>5. ASSUME NEW i \in DOMAIN table, NEW k \in DOMAIN records[i]
      PROVE  RowAt(i, k) \in T
  <2>1. records[i][k] \in RecordType
    <3> DEFINE s == records[i]
    <3>1. s \in Seq(RecordType) /\ k \in DOMAIN s
      BY <1>4
    <3> HIDE DEF s, RecordType
    <3>2. s[k] \in RecordType
      BY <3>1
    <3> QED  BY <3>2 DEF s
  <2>2. records[i][k].label \in Worker!Text /\ records[i][k].body \in STRING
    BY <1>3, <2>1
  <2>3. table[i].text \in Worker!Text
    BY PassageTypes
  <2>4. Occurs(table[i].text, table[i].text, 0)
    BY <2>3, OccursWhole
  <2>5. "typed" \in Stages
    BY DEF Stages
  <2> DEFINE part == table[i].text
             label == records[i][k].label
             body == records[i][k].body
  <2>6. Worker!Row("typed", table[i].id, label, body, Worker!FindSpan(part, label, 0)) \in T
    <3>1. /\ part \in Worker!Text /\ Occurs(table[i].text, part, 0)
          /\ label \in Worker!Text /\ body \in STRING
      BY <2>2, <2>3, <2>4
    <3> HIDE DEF part, label, body
    <3> QED  BY <2>5, <3>1, SpanRows
  <2> QED  BY <2>6
<1> HIDE DEF T, RowAt
<1>6. seqs \in Seq(Seq(T))
  <2>1. ASSUME NEW i \in DOMAIN table
        PROVE  [k \in DOMAIN records[i] |-> RowAt(i, k)] \in Seq(T)
    <3> DEFINE s == records[i]
    <3>1. s \in Seq(RecordType)
      BY <1>4
    <3> HIDE DEF s, RecordType
    <3>2. DOMAIN s = 1..Len(s) /\ Len(s) \in Nat
      BY <3>1
    <3>3. \A k \in DOMAIN s : RowAt(i, k) \in T
      BY <1>5 DEF s
    <3>4. [k \in DOMAIN s |-> RowAt(i, k)] \in Seq(T)
      BY <3>2, <3>3
    <3> QED  BY <3>4 DEF s
  <2> DEFINE S == Seq(T)
             In(i) == [k \in DOMAIN records[i] |-> RowAt(i, k)]
  <2>2. \A i \in DOMAIN table : In(i) \in S
    BY <2>1
  <2> HIDE DEF S, In
  <2>3. [i \in DOMAIN table |-> In(i)] \in Seq(S)
    BY <1>2, <2>2
  <2> QED  BY <2>3 DEF S, In
<1> HIDE DEF seqs
<1>7. Worker!FlattenSeq(seqs) \in Seq(T)
  BY <1>6, FlattenType
<1> QED  BY <1>1, <1>7 DEF T

\* Of the rows of a sequence one is kept of each key, and it is one of them.
LEMMA CanonicalRowsRight ==
    ASSUME NEW table, NEW rows \in Seq(RowsOf(table))
    PROVE  Worker!RowsRight(table, Worker!CanonicalRows(rows))
<1> DEFINE T == RowsOf(table)
           K == {k \in DOMAIN rows :
                    \A j \in (k + 1)..Len(rows) :
                        Worker!RowKey(rows[j]) # Worker!RowKey(rows[k])}
<1>1. Len(rows) \in Nat /\ DOMAIN rows = 1..Len(rows)
  OBVIOUS
<1>2. \A k \in DOMAIN rows : rows[k] \in T
  <2> HIDE DEF T
  <2>1. rows \in Seq(T)
    BY DEF T
  <2> QED  BY <2>1
<1>3. Worker!CanonicalRows(rows) = {rows[i] : i \in K}
  BY DEF Worker!CanonicalRows
<1>4. ASSUME NEW i \in K, NEW j \in K, Worker!RowKey(rows[i]) = Worker!RowKey(rows[j])
      PROVE  i = j
  BY <1>1, <1>4
<1>5. \A i \in K : Worker!RowRight(table, rows[i])
  BY <1>2 DEF RowsOf
<1> HIDE DEF K
<1> QED  BY <1>3, <1>4, <1>5 DEF Worker!RowsRight

(***************************************************************************)
(* Outputs                                                                 *)
(***************************************************************************)
\* What an operation makes of an input that its request describes.
LEMMA OutputsAreRight ==
    ASSUME NEW s \in PodScenarios, NEW r \in s.requests, NEW bytes \in s.inputs,
           NEW reply \in s.replies,
           r.proper, r.image = "contract" => r.op = "community",
           Worker!Verified(r, bytes), Worker!Output(r, bytes, reply) # None
    PROVE  OutputRight(r, bytes, Worker!Output(r, bytes, reply))
<1> DEFINE made == Worker!Output(r, bytes, reply)
<1>1. /\ bytes.schema = "edges" => bytes.table \in Seq(Nat \X Nat)
      /\ bytes.schema = "passages" => bytes.table \in Worker!Passages
      /\ r.image \in {"contract", "extraction"}
      /\ r.image = "extraction" => r.op \in {"atlas", "typed"} /\ bytes.schema = "passages"
      /\ reply.chunks \in Worker!Chunks /\ reply.concepts \in Worker!Concepts
      /\ reply.records \in Seq(Worker!Records)
  BY DataOk DEF Worker!DataAssumption, Worker!Verified
<1>2. CASE r.op = "community"
  <2>1. bytes.schema = "edges" /\ made.table = Worker!CommunityAssign(bytes.table)
    BY <1>2 DEF Worker!Output, Worker!Community, Worker!Atlas, Worker!Typed
  <2>2. Worker!CommunitiesRight(bytes.table, Worker!CommunityAssign(bytes.table))
    BY <1>1, <2>1, CommunitiesAreRight
  <2> QED  BY <1>2, <2>1, <2>2 DEF OutputRight
<1>3. CASE r.op # "community"
  <2>1. r.op \in {"atlas", "typed"} /\ bytes.table \in Worker!Passages
    BY <1>1, <1>3
  <2> DEFINE table == bytes.table
  <2>2. \E rows \in Seq(RowsOf(table)) : made.table = Worker!CanonicalRows(rows)
    <3>1. CASE r.op = "atlas"
      <4>1. Worker!AtlasFits(reply, table) /\ made.table = Worker!AtlasRows(reply, table)
        BY <3>1 DEF Worker!Output, Worker!Community, Worker!Atlas, Worker!Typed
      <4> QED  BY <1>1, <2>1, <4>1, AtlasRowsRight
    <3>2. CASE r.op = "typed"
      <4>1. Worker!TypedFits(reply, table) /\ made.table = Worker!TypedRows(reply, table)
        BY <3>2 DEF Worker!Output, Worker!Community, Worker!Atlas, Worker!Typed
      <4> QED  BY <1>1, <2>1, <4>1, TypedRowsRight
    <3> QED  BY <2>1, <3>1, <3>2
  <2>3. Worker!RowsRight(table, made.table)
    BY <2>2, CanonicalRowsRight
  <2> QED  BY <1>3, <2>3 DEF OutputRight
<1> QED  BY <1>2, <1>3

LEMMA OutputInit == Worker!Init => OutputInv
  BY DEF Worker!Init, OutputInv, Admits, Fetches, Checks, Promises

\* What one pod does leaves what the others have admitted and hold alone.
Alone(p) ==
    /\ OnlyOf(p) /\ WorkerTyped /\ UNCHANGED <<scenario, input>>
    /\ \A q \in Pods \ {p} : pc'[q] = pc[q] /\ held'[q] = held[q]

LEMMA AloneKeeps ==
    ASSUME OutputInv, NEW p \in Pods, Alone(p),
           Admits(p)', Fetches(p)', Checks(p)', Promises(p)'
    PROVE  OutputInv'
<1>1. \A q \in Pods \ {p} : Admits(q)' /\ Fetches(q)' /\ Checks(q)' /\ Promises(q)'
  <2> SUFFICES ASSUME NEW q \in Pods \ {p}
               PROVE  Admits(q)' /\ Fetches(q)' /\ Checks(q)' /\ Promises(q)'
    OBVIOUS
  <2>1. /\ pc'[q] = pc[q] /\ held'[q] = held[q] /\ request'[q] = request[q]
        /\ used'[q] = used[q] /\ scenario' = scenario
    BY DEF Alone, OnlyOf
  <2>2. Admits(q) /\ Fetches(q) /\ Checks(q) /\ Promises(q)
    BY DEF OutputInv
  <2> QED  BY <2>1, <2>2 DEF Admits, Fetches, Checks, Promises
<1>2. scenario' \in PodScenarios /\ input' \in scenario'.inputs \cup {None}
  BY DEF OutputInv, Alone
<1> QED  BY <1>1, <1>2 DEF OutputInv

LEMMA OutputReply ==
    ASSUME OutputInv, WorkerTyped, NEW p \in Pods, NEW kind, NEW descriptor,
           Worker!Reply(p, kind, descriptor), UNCHANGED <<scenario, input>>, OnlyOf(p)
    PROVE  OutputInv'
<1>1. Alone(p) /\ pc'[p] = "idle"
  BY DEF Alone, WorkerTyped, Worker!Reply
<1> QED  BY <1>1, AloneKeeps DEF Admits, Fetches, Checks, Promises

LEMMA OutputGoto ==
    ASSUME OutputInv, WorkerTyped, NEW p \in Pods, NEW label \in {"verify", "run", "upload"},
           NEW bytes, pc[p] # "idle", Worker!Goto(p, label, bytes),
           UNCHANGED <<scenario, input, request>>, OnlyOf(p),
           label \in {"verify", "run"} => bytes \in scenario.inputs,
           label = "run" => Worker!Verified(request[p], bytes),
           label = "upload" => OutputRight(request[p], used'[p], bytes)
    PROVE  OutputInv'
<1>1. Alone(p) /\ pc'[p] = label /\ held'[p] = bytes
  BY DEF Alone, WorkerTyped, Worker!Goto
<1>2. Admits(p)
  BY DEF OutputInv
<1> QED  BY <1>1, <1>2, AloneKeeps DEF Admits, Fetches, Checks, Promises

LEMMA OutputReceive ==
    ASSUME OutputInv, WorkerTyped, NEW p \in Pods, NEW r \in scenario.requests,
           Worker!Receive(p, r)
    PROVE  OutputInv'
<1>1. OnlyOf(p) /\ UNCHANGED <<scenario, input>>
  BY DEF Worker!Receive, WorkerTyped, OnlyOf
<1>2. \/ \E kind \in {"error", "raised"} : Worker!Reply(p, kind, None)
      \/ /\ pc' = [pc EXCEPT ![p] = "download"] /\ request' = [request EXCEPT ![p] = r]
         /\ UNCHANGED held
         /\ r.proper /\ (r.image = "contract" => r.op = "community")
  BY DEF Worker!Receive, Worker!Community
<1>3. ASSUME /\ pc' = [pc EXCEPT ![p] = "download"] /\ request' = [request EXCEPT ![p] = r]
             /\ UNCHANGED held
             /\ r.proper /\ (r.image = "contract" => r.op = "community")
      PROVE  OutputInv'
  <2>1. Alone(p) /\ pc'[p] = "download" /\ request'[p] = r
    BY <1>1, <1>3 DEF Alone, WorkerTyped
  <2> QED  BY <1>1, <1>3, <2>1, AloneKeeps DEF Admits, Fetches, Checks, Promises
<1> QED  BY <1>1, <1>2, <1>3, OutputReply

LEMMA OutputRun ==
    ASSUME OutputInv, WorkerTyped, NEW p \in Pods, Worker!Run(p)
    PROVE  OutputInv'
<1>1. UNCHANGED <<scenario, input, request>> /\ pc[p] = "run"
  BY DEF Worker!Run
<1>2. \/ /\ \E kind \in {"error", "raised"} : Worker!Reply(p, kind, None)
         /\ UNCHANGED used
      \/ \E reply \in scenario.replies :
            /\ Worker!Output(request[p], held[p], reply) # None
            /\ Worker!Goto(p, "upload", Worker!Output(request[p], held[p], reply))
            /\ used' = [used EXCEPT ![p] = held[p]]
  BY DEF Worker!Run
<1>3. OnlyOf(p)
  BY <1>1, <1>2 DEF WorkerTyped, OnlyOf
<1>4. ASSUME NEW reply \in scenario.replies,
             Worker!Output(request[p], held[p], reply) # None,
             Worker!Goto(p, "upload", Worker!Output(request[p], held[p], reply)),
             used' = [used EXCEPT ![p] = held[p]]
      PROVE  OutputInv'
  <2>1. used'[p] = held[p]
    BY <1>4 DEF WorkerTyped
  <2>2. /\ scenario \in PodScenarios /\ request[p] \in scenario.requests /\ request[p].proper
        /\ request[p].image = "contract" => request[p].op = "community"
        /\ held[p] \in scenario.inputs /\ Worker!Verified(request[p], held[p])
    BY <1>1 DEF OutputInv, Admits, Fetches, Checks
  <2> DEFINE made == Worker!Output(request[p], held[p], reply)
  <2>3. OutputRight(request[p], held[p], made)
    BY <1>4, <2>2, OutputsAreRight
  <2>4. Worker!Goto(p, "upload", made)
    BY <1>4
  <2> HIDE DEF made
  <2> QED  BY <1>1, <1>3, <2>1, <2>3, <2>4, OutputGoto
<1> QED  BY <1>1, <1>2, <1>3, <1>4, OutputReply

LEMMA OutputNext ==
    ASSUME OutputInv, WorkerTyped, Worker!Next \/ UNCHANGED <<pc, workerVars>>
    PROVE  OutputInv'
<1>1. CASE UNCHANGED <<pc, workerVars>>
  BY <1>1 DEF OutputInv, Admits, Fetches, Checks, Promises, workerVars
<1>2. CASE Worker!Rewrite
  <2>1. /\ UNCHANGED <<scenario, pc, request, held, used>>
        /\ input' \in scenario.inputs \cup {None}
    BY <1>2 DEF Worker!Rewrite
  <2> QED  BY <2>1 DEF OutputInv, Admits, Fetches, Checks, Promises
<1>3. ASSUME NEW p \in Pods, Worker!Download(p) PROVE OutputInv'
  <2>1. UNCHANGED <<scenario, input, request, used>> /\ pc[p] = "download" /\ OnlyOf(p)
    BY <1>3 DEF Worker!Download, WorkerTyped, OnlyOf
  <2>2. Worker!Reply(p, "error", None) \/ (Worker!Goto(p, "verify", input) /\ input # None)
    BY <1>3 DEF Worker!Download
  <2>3. input # None => input \in scenario.inputs
    BY DEF OutputInv
  <2> QED  BY <2>1, <2>2, <2>3, OutputReply, OutputGoto
<1>4. ASSUME NEW p \in Pods, Worker!Verify(p) PROVE OutputInv'
  <2>1. UNCHANGED <<scenario, input, request, used>> /\ pc[p] = "verify" /\ OnlyOf(p)
    BY <1>4 DEF Worker!Verify, WorkerTyped, OnlyOf
  <2>2. \/ Worker!Reply(p, "error", None)
        \/ Worker!Goto(p, "run", held[p]) /\ Worker!Verified(request[p], held[p])
    BY <1>4 DEF Worker!Verify
  <2>3. held[p] \in scenario.inputs
    BY <2>1 DEF OutputInv, Fetches
  <2> QED  BY <2>1, <2>2, <2>3, OutputReply, OutputGoto
<1>5. ASSUME NEW p \in Pods, Worker!Upload(p) PROVE OutputInv'
  <2>1. UNCHANGED <<scenario, input, request, used>> /\ OnlyOf(p)
    BY <1>5 DEF Worker!Upload, WorkerTyped, OnlyOf
  <2>2. \E kind, descriptor : Worker!Reply(p, kind, descriptor)
    BY <1>5 DEF Worker!Upload
  <2> QED  BY <2>1, <2>2, OutputReply
<1>6. CASE Worker!Next
  BY <1>2, <1>3, <1>4, <1>5, <1>6, OutputReceive, OutputRun DEF Worker!Next
<1> QED  BY <1>1, <1>6

(***************************************************************************)
(* BoundedProcess                                                          *)
(***************************************************************************)
LEMMA BoundedInit == Bounded!Init => BoundedInv
  BY DEF Bounded!Init, Bounded!Streams, Bounded!Processes, BoundedInv, BoundedTyped, Conserved,
         BoundedStart, BoundedOpened, BoundedLoop, BoundedDone

\* _terminate_process_group
LEMMA KillEnds ==
    ASSUME BoundedTyped, leader # "none", Bounded!Kill
    PROVE  /\ leader' = "dead" /\ (helper' = "alive" => survivor')
           /\ helper' \in {"none", "alive", "dead"}
  BY DEF BoundedTyped, Bounded!Kill

\* The call ends before the command does.
LEMMA EndKeeps ==
    ASSUME BoundedInv, pc \in {"loop", "handling"}, Bounded!Kill,
           NEW r \in {"timeout", "limit", "interrupted"}, Bounded!End(r),
           UNCHANGED <<check, code, holds, listening, written>>,
           pipe' \in [Bounded!Streams -> Nat], got' \in Nat, Conserved'
    PROVE  BoundedInv'
<1>1. /\ leader' = "dead" /\ (helper' = "alive" => survivor')
      /\ helper' \in {"none", "alive", "dead"}
  BY KillEnds DEF BoundedInv, BoundedOpened, BoundedLoop
<1>2. BoundedTyped'
  BY <1>1 DEF BoundedInv, BoundedTyped, Bounded!End
<1> QED  BY <1>1, <1>2 DEF BoundedInv, BoundedStart, BoundedOpened, BoundedLoop, BoundedDone, Bounded!End

LEMMA BoundedCapture ==
    ASSUME BoundedInv, NEW s \in Bounded!Streams, Bounded!Capture(s)
    PROVE  BoundedInv'
<1>1. /\ pc = "loop" /\ pipe[s] > 0 /\ pipe' = [pipe EXCEPT ![s] = @ - 1] /\ got' = got + 1
      /\ UNCHANGED <<check, code, holds, listening, late, written>> /\ s \in listening
  BY DEF Bounded!Capture
<1>2. pipe' \in [Bounded!Streams -> Nat] /\ got' \in Nat
  BY <1>1 DEF BoundedInv, BoundedTyped
<1>3. Conserved'
  BY <1>1 DEF BoundedInv, BoundedTyped, Conserved, Bounded!Streams
<1>4. CASE got' > OutputCap
  BY <1>1, <1>2, <1>3, <1>4, EndKeeps DEF Bounded!Capture
<1>5. CASE ~(got' > OutputCap)
  <2>1. UNCHANGED <<leader, helper, survivor, pc, result>> /\ got' <= OutputCap
    BY <1>2, <1>5, CapsAssumption DEF Bounded!Capture
  <2>2. \A z : Bounded!Held(z)' = Bounded!Held(z)
    BY <1>1, <2>1 DEF Bounded!Held, Bounded!Alive, Bounded!Processes
  <2>3. \A z \in Bounded!Streams \ listening : Ended(z)'
    BY <1>1, <2>2 DEF BoundedInv, BoundedTyped, BoundedLoop, Ended
  <2> QED  BY <1>1, <1>2, <1>3, <2>1, <2>3
              DEF BoundedInv, BoundedTyped, BoundedStart, BoundedOpened, BoundedLoop, BoundedDone
<1> QED  BY <1>4, <1>5

LEMMA BoundedEndOfFile ==
    ASSUME BoundedInv, NEW s \in Bounded!Streams, Bounded!EndOfFile(s)
    PROVE  BoundedInv'
<1>1. /\ pc = "loop" /\ Ended(s) /\ listening' = listening \ {s}
      /\ UNCHANGED <<pc, check, result, leader, code, helper, holds, pipe, got, written, survivor>>
  BY DEF Bounded!EndOfFile, BoundedInv, BoundedTyped, Ended
<1>2. \A z : Ended(z)' = Ended(z)
  BY <1>1 DEF Ended, Bounded!Held, Bounded!Alive, Bounded!Processes
<1> QED  BY <1>1, <1>2 DEF BoundedInv, BoundedTyped, Conserved, BoundedStart, BoundedOpened, BoundedLoop,
                           BoundedDone

\* Both streams are at their end, so that all that was written was captured.
LEMMA BoundedWait ==
    ASSUME BoundedInv, Bounded!Wait
    PROVE  BoundedInv'
<1>1. /\ pc = "loop" /\ listening = {} /\ leader = "dead" /\ pc' = "done"
      /\ result' = IF check /\ code # 0 THEN "nonzero" ELSE "ok"
      /\ UNCHANGED <<check, leader, code, helper, holds, pipe, listening, got, written, survivor>>
  BY DEF Bounded!Wait, Bounded!End
<1>2. \A z \in Bounded!Streams : Ended(z)'
  <2>1. \A z : Ended(z)' = Ended(z)
    BY <1>1 DEF Ended, Bounded!Held, Bounded!Alive, Bounded!Processes
  <2> QED  BY <1>1, <2>1 DEF BoundedInv, BoundedLoop
<1> QED  BY <1>1, <1>2 DEF BoundedInv, BoundedTyped, Conserved, BoundedStart, BoundedOpened, BoundedLoop,
                           BoundedDone

LEMMA BoundedWrite ==
    ASSUME BoundedInv, NEW s \in Bounded!Streams, NEW p \in Bounded!Processes, Bounded!Write(p, s)
    PROVE  BoundedInv'
<1>1. /\ Bounded!Held(s)
      /\ pipe' = [pipe EXCEPT ![s] = @ + 1] /\ written' = written + 1
      /\ UNCHANGED <<pc, check, result, leader, code, helper, holds, listening, got, survivor>>
  BY DEF Bounded!Write, Bounded!Held
<1>2. pipe' \in [Bounded!Streams -> Nat] /\ written' \in Nat /\ Conserved'
  BY <1>1 DEF BoundedInv, BoundedTyped, Conserved, Bounded!Streams
<1>3. \A z \in Bounded!Streams : Ended(z) => Ended(z)'
  BY <1>1 DEF BoundedInv, BoundedTyped, Ended, Bounded!Held, Bounded!Alive, Bounded!Processes
<1> QED  BY <1>1, <1>2, <1>3 DEF BoundedInv, BoundedTyped, BoundedStart, BoundedOpened, BoundedLoop, BoundedDone

LEMMA BoundedClose ==
    ASSUME BoundedInv, NEW s \in Bounded!Streams, NEW p \in Bounded!Processes, Bounded!Close(p, s)
    PROVE  BoundedInv'
<1>1. /\ holds' = [holds EXCEPT ![p] = @ \ {s}]
      /\ UNCHANGED <<pc, check, result, leader, code, helper, pipe, listening, got,
                     written, survivor>>
  BY DEF Bounded!Close
<1>2. holds' \in [Bounded!Processes -> SUBSET Bounded!Streams]
  BY <1>1 DEF BoundedInv, BoundedTyped
<1>3. \A z : Ended(z) => Ended(z)'
  BY <1>1 DEF BoundedInv, BoundedTyped, Ended, Bounded!Held, Bounded!Alive, Bounded!Processes
<1> QED  BY <1>1, <1>2, <1>3 DEF BoundedInv, BoundedTyped, Conserved, BoundedStart, BoundedOpened, BoundedLoop,
                                 BoundedDone

\* A descendant has what its parent has.
LEMMA BoundedSpawn ==
    ASSUME BoundedInv, Bounded!Spawn
    PROVE  BoundedInv'
<1>1. /\ leader = "alive" /\ helper = "none" /\ helper' = "alive"
      /\ holds' = [holds EXCEPT !["helper"] = holds["leader"]]
      /\ UNCHANGED <<pc, check, result, leader, code, pipe, listening, got, written, survivor>>
  BY DEF Bounded!Spawn
<1>2. holds' \in [Bounded!Processes -> SUBSET Bounded!Streams]
  BY <1>1 DEF BoundedInv, BoundedTyped, Bounded!Processes
<1>3. \A z : Ended(z) => Ended(z)'
  BY <1>1 DEF BoundedInv, BoundedTyped, Ended, Bounded!Held, Bounded!Alive, Bounded!Processes
<1>4. pc # "start" /\ (pc = "done" => result = "unwatched")
  BY <1>1 DEF BoundedInv, BoundedStart, BoundedDone
<1> QED  BY <1>1, <1>2, <1>3, <1>4 DEF BoundedInv, BoundedTyped, Conserved, BoundedStart, BoundedOpened,
                                       BoundedLoop, BoundedDone

LEMMA BoundedExit ==
    ASSUME BoundedInv, Bounded!Exit
    PROVE  BoundedInv'
<1>1. /\ leader' \in {leader, "dead"} /\ helper' \in {helper, "dead"}
      /\ leader # "alive" => UNCHANGED <<leader, code>>
      /\ code' \in {code, 0, 1}
      /\ leader' # leader => leader = "alive"
      /\ helper' # helper => helper = "alive"
      /\ UNCHANGED <<pc, check, result, holds, pipe, listening, got, written, survivor>>
  BY DEF Bounded!Exit
<1>2. \A z : Ended(z) => Ended(z)'
  BY <1>1 DEF Ended, Bounded!Held, Bounded!Alive, Bounded!Processes
<1> QED  BY <1>1, <1>2 DEF BoundedInv, BoundedTyped, Conserved, BoundedStart, BoundedOpened, BoundedLoop,
                           BoundedDone

\* The steps of the call that touch neither the pipes nor a process, but the one
\* that starts the child.
LEMMA BoundedCalls ==
    ASSUME BoundedInv,
           \/ Bounded!Open \/ Bounded!Unwatched \/ Bounded!Watch
           \/ Bounded!Interrupt \/ Bounded!Abandon
    PROVE  BoundedInv'
<1>1. CASE Bounded!Open
  BY <1>1 DEF Bounded!Open, Bounded!End, BoundedInv, BoundedTyped, Conserved, BoundedStart,
              BoundedOpened, BoundedLoop, BoundedDone, Bounded!Streams, Bounded!Processes
<1>2. CASE Bounded!Watch
  BY <1>2, CapsAssumption
     DEF Bounded!Watch, BoundedInv, BoundedTyped, Conserved, BoundedStart, BoundedOpened,
         BoundedLoop, BoundedDone
<1>3. CASE Bounded!Unwatched \/ Bounded!Interrupt \/ Bounded!Abandon
  BY <1>3 DEF Bounded!Unwatched, Bounded!Interrupt, Bounded!Abandon, Bounded!End, BoundedInv,
              BoundedTyped, Conserved, BoundedStart, BoundedOpened, BoundedLoop, BoundedDone
<1> QED  BY <1>1, <1>2, <1>3

LEMMA BoundedNext ==
    ASSUME BoundedInv, Bounded!Next \/ UNCHANGED <<pc, boundedVars>>
    PROVE  BoundedInv'
<1>1. CASE UNCHANGED <<pc, boundedVars>> \/ Bounded!Elapse
  <2>1. UNCHANGED <<pc, check, result, leader, code, helper, holds, pipe, listening, got, written,
                    survivor>>
    BY <1>1 DEF boundedVars, Bounded!Elapse
  <2>2. \A z : Ended(z)' = Ended(z)
    BY <2>1 DEF Ended, Bounded!Held, Bounded!Alive, Bounded!Processes
  <2> QED  BY <2>1, <2>2 DEF BoundedInv, BoundedTyped, Conserved, BoundedStart, BoundedOpened, BoundedLoop,
                             BoundedDone
<1>2. CASE Bounded!Open \/ Bounded!Unwatched \/ Bounded!Watch \/ Bounded!Interrupt \/ Bounded!Abandon
  BY <1>2, BoundedCalls
<1>3. CASE Bounded!Deadline
  BY <1>3, EndKeeps DEF Bounded!Deadline, BoundedInv, BoundedTyped, Conserved
<1>4. CASE Bounded!Handle
  BY <1>4, EndKeeps DEF Bounded!Handle, BoundedInv, BoundedTyped, Conserved
<1>5. CASE Bounded!Next
  BY <1>1, <1>2, <1>3, <1>4, <1>5, BoundedCapture, BoundedEndOfFile, BoundedWait, BoundedWrite,
     BoundedClose, BoundedSpawn, BoundedExit DEF Bounded!Next
<1> QED  BY <1>1, <1>5

(***************************************************************************)
(* LocalOracle                                                             *)
(***************************************************************************)
\* Where the script may be, one label at a time.
LEMMA Labels ==
    /\ Layout!Before = {"identify", "makedir"}
    /\ Before = {"identify", "makedir", "download", "version", "reserve", "launch", "attach",
                 "ready", "prove", "test"}
    /\ Layout!Trying = {"download", "version", "reserve", "launch", "attach", "ready", "prove",
                        "test"}
    /\ Layout!Cleaning = {"terminate", "closelog", "closeport", "remove", "report"}
  BY DEF Layout!Before, Layout!Trying, Layout!Cleaning, Before

LEMMA LocalInit == Layout!Init => LocalInv
<1> SUFFICES ASSUME Layout!Init PROVE LocalInv
  OBVIOUS
<1>1. LocalTyped /\ Running /\ Bound
  BY Labels DEF Layout!Init, Layout!NoChild, LocalTyped, Running, Bound
<1>2. LogKept /\ Tested /\ Reached /\ Cleaned
  BY CapsAssumption, Labels DEF Layout!Init, LogKept, Tested, Reached, Cleaned
<1>3. Finished
  BY NoneAssumption DEF Layout!Init, Finished, Layout!VerifiedTrue, Layout!LeftoversReported
<1> QED  BY <1>1, <1>2, <1>3 DEF LocalInv

\* A script that is not at its end claims nothing yet.
LEMMA Unfinished ==
    ASSUME status' = None
    PROVE  Finished'
  BY NoneAssumption DEF Finished, Layout!VerifiedTrue, Layout!LeftoversReported

\* One that ends before its last step claims no proof, and that it has seen the
\* cleanup through neither.
LEMMA EndedEarly ==
    ASSUME LocalInv, pc # "done", UNCHANGED passed, status' \in {1, 130}
    PROVE  Finished'
  BY DEF LocalInv, Running, LocalTyped, Finished, Layout!VerifiedTrue, Layout!LeftoversReported

\* The steps up to the try block, and the steps of it that touch neither the
\* server nor its log: they go on, or leave for the cleanup or the exit.
LEMMA LocalTries ==
    ASSUME LocalInv,
           \/ Layout!Identify \/ Layout!MakeDir \/ Layout!Download \/ Layout!Version
           \/ Layout!Reserve \/ Layout!Ready
    PROVE  LocalInv'
<1>1. /\ UNCHANGED <<server, child, port, log, drained, drainer, passed, receipt, owned, against>>
      /\ pc \in Before
      /\ directory' \in BOOLEAN
      /\ failure' = failure \/ failure' = "error"
      /\ reserved => reserved'
      /\ \/ /\ status' = None /\ pc \in {"identify", "makedir"}
            /\ pc' \in {"makedir", "download"}
         \/ /\ status' = None /\ pc = "download" /\ pc' = "version" /\ binary' = "genuine"
         \/ /\ status' = None /\ UNCHANGED binary
            /\ \/ pc = "version" /\ pc' = "reserve"
               \/ pc = "reserve" /\ pc' = "launch"
               \/ pc = "ready" /\ pc' = "prove"
         \/ status' = None /\ pc' = "terminate"
         \/ status' = 1 /\ pc' = "done"
  <2> USE Labels DEF LocalInv, LocalTyped, Running, Layout!Go, Layout!Goto, Layout!Fail,
                      Layout!outcomeVars,
              Layout!serverVars, Layout!logVars, Layout!handVars
  <2>1. CASE Layout!Identify
    BY <2>1 DEF Layout!Identify, Layout!FailBefore, Layout!Exit
  <2>2. CASE Layout!MakeDir
    BY <2>2 DEF Layout!MakeDir
  <2>3. CASE Layout!Download
    BY <2>3 DEF Layout!Download, Layout!Genuine
  <2>4. CASE Layout!Version
    BY <2>4 DEF Layout!Version
  <2>5. CASE Layout!Reserve
    BY <2>5 DEF Layout!Reserve
  <2>6. CASE Layout!Ready
    BY <2>6 DEF Layout!Ready
  <2> QED  BY <2>1, <2>2, <2>3, <2>4, <2>5, <2>6
<1>2. Finished'
  BY <1>1, Unfinished, EndedEarly, Labels
<1>3. LocalTyped' /\ Running' /\ Bound'
  BY <1>1, NoneAssumption, Labels DEF LocalInv, LocalTyped, Running, Bound
<1>4. LogKept'
  BY <1>1, NoneAssumption DEF LocalInv, LogKept, Layout!Writable
<1>5. Tested' /\ Cleaned'
  BY <1>1, Labels DEF LocalInv, Tested, Proved, Cleaned, Layout!Accepted
<1>6. Reached'
  BY <1>1, Labels DEF LocalInv, Reached
<1> QED  BY <1>2, <1>3, <1>4, <1>5, <1>6 DEF LocalInv

\* A step at a label that does not end the script.
LEMMA StillRunning ==
    ASSUME LocalInv, pc # "done", UNCHANGED status
    PROVE  status = None /\ Finished'
  BY Unfinished DEF LocalInv, Running

\* Whoever answered had the port the server was given, and nobody but the server
\* that was started of the verified binary has it and knows the keys.
LEMMA LocalProve ==
    ASSUME LocalInv, Layout!Prove
    PROVE  LocalInv'
<1>1. /\ pc = "prove"
      /\ UNCHANGED <<directory, binary, server, child, port, log, drained, drainer, passed,
                     receipt, owned, reserved, status>>
      /\ \/ /\ pc' = "test" /\ UNCHANGED failure
            /\ against' = [binary |-> binary, port |-> port] /\ port = "ours"
         \/ pc' = "terminate" /\ failure' = "error" /\ UNCHANGED against
  BY DEF Layout!Prove, Layout!Go, Layout!Goto, Layout!Fail, Layout!outcomeVars, Layout!logVars,
         Layout!serverVars
<1>2. status = None /\ Finished'
  BY <1>1, StillRunning
<1>3. LocalTyped' /\ Running' /\ Bound'
  BY <1>1, <1>2, Labels DEF LocalInv, LocalTyped, Running, Bound
<1>4. LogKept'
  BY <1>1, NoneAssumption DEF LocalInv, LogKept, Layout!Writable
<1>5. Tested' /\ Cleaned'
  BY <1>1, Labels DEF LocalInv, Tested, Cleaned
<1>6. Reached'
  BY <1>1, Labels DEF LocalInv, Reached, Proved
<1> QED  BY <1>2, <1>3, <1>4, <1>5, <1>6 DEF LocalInv

\* The server may be there without the script knowing it.
LEMMA LocalLaunch ==
    ASSUME LocalInv, Layout!Launch
    PROVE  LocalInv'
<1>1. /\ pc = "launch"
      /\ UNCHANGED <<directory, binary, child, port, log, drained, drainer, passed, receipt,
                     reserved, against, status>>
      /\ \/ /\ pc' = "attach" /\ server' = "alive" /\ UNCHANGED failure
            /\ owned' = owned \cup {"server"}
         \/ pc' = "terminate" /\ server' = "alive" /\ failure' = "interrupt" /\ UNCHANGED owned
         \/ pc' = "terminate" /\ UNCHANGED <<server, owned>> /\ failure' = "error"
  BY DEF Layout!Launch, Layout!Between, Layout!Go, Layout!Goto, Layout!Fail, Layout!outcomeVars,
         Layout!logVars
<1>2. status = None /\ Finished'
  BY <1>1, StillRunning
<1>3. LocalTyped' /\ Running' /\ Bound'
  BY <1>1, <1>2, Labels DEF LocalInv, LocalTyped, Running, Bound
<1>4. receipt = None /\ drainer = "none"
  BY <1>1, Labels DEF LocalInv, Tested
<1>5. LogKept'
  BY <1>1, <1>4, NoneAssumption DEF LocalInv, LogKept, Layout!Writable
<1>6. Tested' /\ Cleaned'
  BY <1>1, <1>4, Labels DEF LocalInv, Tested, Cleaned
<1>7. Reached'
  BY <1>1, Labels DEF LocalInv, Reached
<1> QED  BY <1>2, <1>3, <1>5, <1>6, <1>7 DEF LocalInv

LEMMA LocalAttach ==
    ASSUME LocalInv, Layout!Attach
    PROVE  LocalInv'
<1>1. /\ pc = "attach" /\ drainer' = "alive"
      /\ UNCHANGED <<directory, binary, server, child, port, log, drained, passed, receipt,
                     reserved, against, status>>
      /\ \/ pc' = "ready" /\ UNCHANGED failure /\ owned' = owned \cup {"log"}
         \/ pc' = "terminate" /\ failure' = "interrupt" /\ UNCHANGED owned
  BY DEF Layout!Attach, Layout!Between, Layout!Go, Layout!Goto, Layout!Fail, Layout!outcomeVars,
         Layout!serverVars
<1>2. status = None /\ Finished'
  BY <1>1, StillRunning
<1>3. LocalTyped' /\ Running' /\ Bound'
  BY <1>1, <1>2, Labels DEF LocalInv, LocalTyped, Running, Bound
<1>4. receipt = None /\ drainer = "none" /\ server # "none"
  BY <1>1, Labels DEF LocalInv, Tested, Reached
<1>5. LogKept'
  BY <1>1, <1>4, NoneAssumption, Labels DEF LocalInv, LogKept, Tested
<1>6. Tested' /\ Cleaned'
  BY <1>1, <1>4, Labels DEF LocalInv, Tested, Cleaned
<1>7. Reached'
  BY <1>1, Labels DEF LocalInv, Reached
<1> QED  BY <1>2, <1>3, <1>5, <1>6, <1>7 DEF LocalInv

LEMMA LocalTest ==
    ASSUME LocalInv, Layout!Test
    PROVE  LocalInv'
<1>1. /\ pc = "test" /\ pc' = "terminate"
      /\ UNCHANGED <<directory, server, child, port, log, drained, drainer, passed, reserved,
                     owned, against, status>>
      /\ \/ Layout!Accepted(receipt') /\ UNCHANGED failure
         \/ UNCHANGED receipt /\ failure' = "error"
  BY DEF Layout!Test, Layout!Goto, Layout!Fail, Layout!serverVars, Layout!logVars,
         Layout!handVars
<1>2. status = None /\ Finished'
  BY <1>1, StillRunning
<1>3. LocalTyped' /\ Running' /\ Bound'
  BY <1>1, <1>2, Labels DEF LocalInv, LocalTyped, Running, Bound
<1>4. LogKept'
  BY <1>1, NoneAssumption DEF LocalInv, LogKept, Layout!Writable
<1>5. /\ Layout!Accepted(receipt') => Layout!Accepted(receipt)'
      /\ Proved /\ Proved' /\ "server" \in owned /\ "log" \in owned
  BY <1>1 DEF Layout!Accepted, LocalInv, Reached, Proved
<1>6. Tested' /\ Cleaned' /\ Reached'
  <2>1. owned = {"server", "log"}
    BY <1>5 DEF LocalInv, LocalTyped
  <2> QED  BY <1>1, <1>5, <2>1, Labels DEF LocalInv, Tested, Cleaned, Reached, Layout!Accepted
<1> QED  BY <1>2, <1>3, <1>4, <1>6 DEF LocalInv

(***************************************************************************)
(* The cleanup: every step has done its work, or reports that it has not.  *)
(***************************************************************************)
LEMMA LocalTerminate ==
    ASSUME LocalInv, Layout!Terminate
    PROVE  LocalInv'
<1>1. /\ pc = "terminate" /\ pc' = "closelog"
      /\ UNCHANGED <<directory, log, drained, drainer, passed, failure, receipt, reserved, owned,
                     against, status>>
      /\ leftovers \subseteq leftovers'
      /\ port' = "ours" => port = "ours"
      /\ \/ /\ server # "alive" \/ "server" \notin owned
            /\ UNCHANGED <<server, child>>
         \/ server' = "dead" /\ child' \in {child, Layout!NoChild} /\ server = "alive"
         \/ "server" \in leftovers' /\ UNCHANGED server /\ child' = Layout!NoChild
  BY DEF Layout!Terminate, Layout!Report, Layout!Goto, Layout!logVars, Layout!handVars
<1>2. status = None /\ Finished'
  BY <1>1, StillRunning
<1>3. LocalTyped' /\ Running' /\ Bound'
  <2>1. Layout!NoChild \in [alive : BOOLEAN, pipe : BOOLEAN, port : BOOLEAN]
    BY DEF Layout!NoChild
  <2>2. child' \in [alive : BOOLEAN, pipe : BOOLEAN, port : BOOLEAN]
    BY <1>1, <2>1 DEF LocalInv, LocalTyped
  <2> QED  BY <1>1, <1>2, <2>2, Labels DEF LocalInv, LocalTyped, Running, Bound
<1>4. Layout!Writable' => Layout!Writable
  BY <1>1 DEF Layout!Writable, Layout!NoChild
<1>5. LogKept'
  BY <1>1, <1>4 DEF LocalInv, LogKept
<1>6. Tested' /\ Cleaned' /\ Reached'
  BY <1>1, Labels DEF LocalInv, Tested, Proved, Cleaned, Reached, Layout!Accepted
<1> QED  BY <1>2, <1>3, <1>5, <1>6 DEF LocalInv

\* A thread that does not end is told of, and a log past its cap is a failure.
LEMMA LocalCloseLog ==
    ASSUME LocalInv, Layout!CloseLog
    PROVE  LocalInv'
<1>1. /\ pc = "closelog" /\ pc' = "closeport"
      /\ UNCHANGED <<directory, server, child, port, log, drained, passed, receipt, reserved,
                     owned, against, status>>
      /\ leftovers \subseteq leftovers'
      /\ failure # None => failure' # None
      /\ \/ "log" \notin owned /\ UNCHANGED <<drainer, failure>>
         \/ /\ "log" \in owned /\ (drainer = "over" => failure' # None)
            /\ \/ UNCHANGED drainer /\ "drainer" \in leftovers'
               \/ drainer' = "done" /\ ~Layout!Writable /\ log = 0
  BY NoneAssumption DEF Layout!CloseLog, Layout!Goto, Layout!serverVars, Layout!handVars
<1>2. status = None /\ Finished'
  BY <1>1, StillRunning
<1>3. LocalTyped' /\ Running' /\ Bound'
  BY <1>1, <1>2, Labels DEF LocalInv, LocalTyped, Running, Bound
<1>4. LogKept'
  BY <1>1 DEF LocalInv, LogKept, Layout!Writable
<1>5. drainer = "none" => drainer' = "none" \/ server # "none"
  BY <1>1 DEF LocalInv, Tested
<1>6. Tested' /\ Cleaned' /\ Reached'
  BY <1>1, <1>5, Labels DEF LocalInv, Tested, Proved, Cleaned, Reached, Layout!Accepted
<1> QED  BY <1>2, <1>3, <1>4, <1>6 DEF LocalInv

\* A port the server or its descendant has is one the script had chosen.
LEMMA LocalClosePort ==
    ASSUME LocalInv, Layout!ClosePort \/ Layout!Remove
    PROVE  LocalInv'
<1>1. /\ \/ /\ pc = "closeport" /\ pc' = "remove" /\ UNCHANGED directory
            /\ reserved /\ port # "free" => "port" \in leftovers'
         \/ pc = "remove" /\ pc' = "report" /\ directory' = FALSE
         \/ pc = "remove" /\ pc' = "report" /\ UNCHANGED directory /\ "directory" \in leftovers'
      /\ UNCHANGED <<server, child, port, log, drained, drainer, passed, failure, receipt,
                     reserved, owned, against, status>>
      /\ leftovers \subseteq leftovers'
  BY DEF Layout!ClosePort, Layout!Remove, Layout!Report, Layout!Goto, Layout!serverVars,
         Layout!logVars, Layout!handVars
<1>2. status = None /\ Finished'
  BY <1>1, StillRunning
<1>3. LocalTyped' /\ Running' /\ Bound'
  BY <1>1, <1>2, Labels DEF LocalInv, LocalTyped, Running, Bound
<1>4. LogKept'
  BY <1>1 DEF LocalInv, LogKept, Layout!Writable
<1>5. Tested' /\ Reached'
  BY <1>1, Labels DEF LocalInv, Tested, Proved, Reached, Layout!Accepted
<1>6. Cleaned'
  BY <1>1 DEF LocalInv, Cleaned, Bound
<1> QED  BY <1>2, <1>3, <1>4, <1>5, <1>6 DEF LocalInv

\* The verdict, from what the cleanup has established.
LEMMA LocalOutcome ==
    ASSUME LocalInv, Layout!Outcome
    PROVE  LocalInv'
<1>1. /\ pc = "report" /\ pc' = "done" /\ passed' = TRUE
      /\ status' = IF leftovers # {} \/ failure # None \/ receipt = None THEN 1 ELSE 0
      /\ UNCHANGED <<directory, server, child, port, log, drained, drainer, failure, leftovers,
                     receipt, reserved, owned, against>>
  BY DEF Layout!Outcome, Layout!Exit, Layout!Goto, Layout!serverVars, Layout!logVars,
         Layout!handVars
<1>2. LocalTyped' /\ Running' /\ Bound'
  BY <1>1, NoneAssumption, Labels DEF LocalInv, LocalTyped, Running, Bound
<1>3. LogKept'
  BY <1>1 DEF LocalInv, LogKept, Layout!Writable
<1>4. Tested' /\ Cleaned' /\ Reached'
  BY <1>1, Labels DEF LocalInv, Tested, Proved, Cleaned, Reached, Layout!Accepted
<1>5. Layout!LeftoversReported'
  BY <1>1 DEF LocalInv, LogKept, Cleaned, Layout!LeftoversReported, Layout!Writable
<1>6. ASSUME status' = 0 PROVE Layout!VerifiedTrue'
  <2>1. leftovers = {} /\ failure = None /\ receipt # None
    BY <1>1, <1>6
  <2>2. Layout!Accepted(receipt) /\ Proved /\ owned = {"server", "log"}
    BY <2>1 DEF LocalInv, Tested
  <2>3. /\ drainer = "done" /\ server = "dead" /\ port # "ours" /\ ~directory
        /\ ~Layout!Writable /\ log = 0 /\ ~(drained > LogCap)
    BY <1>1, <2>1, <2>2 DEF LocalInv, LocalTyped, LogKept, Tested, Cleaned
  <2>4. drained <= LogCap
    BY <2>3, CapsAssumption DEF LocalInv, LocalTyped
  <2>5. /\ \A i \in DOMAIN receipt.cases : receipt.cases[i].passed
        /\ {receipt.cases[i].test : i \in DOMAIN receipt.cases} = Required
    BY <2>2 DEF Layout!Accepted
  <2>6. ASSUME NEW t \in Required
        PROVE  \E i \in DOMAIN receipt.cases :
                   receipt.cases[i].test = t /\ receipt.cases[i].passed
    <3>1. t \in {receipt.cases[i].test : i \in DOMAIN receipt.cases}
      BY <2>5
    <3>2. PICK i \in DOMAIN receipt.cases : receipt.cases[i].test = t
      BY <3>1
    <3> QED  BY <2>5, <3>2
  <2>7. \A t \in Required : \E i \in DOMAIN receipt.cases :
            receipt.cases[i].test = t /\ receipt.cases[i].passed
    BY <2>6
  <2> QED  BY <1>1, <2>2, <2>3, <2>4, <2>7
              DEF Layout!VerifiedTrue, Layout!Accepted, Layout!Writable, Proved
<1>7. Finished'
  BY <1>5, <1>6 DEF Finished, Layout!VerifiedTrue
<1> QED  BY <1>2, <1>3, <1>4, <1>7 DEF LocalInv

(***************************************************************************)
(* The drainer, the server and the operator                                *)
(***************************************************************************)
\* Whatever the server and its descendants do on their own, nobody gets the pipe
\* who could not have had it, a server that is gone does not come back, and only
\* one that runs gets the port.
LEMMA OutsideKeeps ==
    ASSUME LocalInv, pc # "done",
           UNCHANGED <<pc, directory, binary, failure, leftovers, receipt, status, passed,
                       reserved, owned, against>>,
           server' \in {server, "dead"}, server = "none" => server' = "none",
           child' \in [alive : BOOLEAN, pipe : BOOLEAN, port : BOOLEAN],
           port' = "ours" => port = "ours" \/ (server = "alive" /\ reserved),
           Layout!Writable' => Layout!Writable,
           log' \in Nat, drained' \in Nat,
           drainer = "done" => drainer' = "done" /\ log' = log,
           drainer' = "done" => drainer = "done",
           (drainer = "none") = (drainer' = "none"),
           drainer' \in {"none", "alive", "over", "done"},
           drained' > LogCap => drainer' = "over" \/ (drained > LogCap /\ drainer' = drainer)
    PROVE  LocalInv'
<1>1. status = None /\ Finished'
  BY StillRunning
<1>2. LocalTyped' /\ Running' /\ Bound'
  BY <1>1 DEF LocalInv, LocalTyped, Running, Bound
<1>3. LogKept'
  BY DEF LocalInv, LogKept
<1>4. Tested' /\ Reached'
  BY DEF LocalInv, LocalTyped, Tested, Proved, Reached, Layout!Accepted
<1>5. Cleaned'
  BY DEF LocalInv, Cleaned, LocalTyped
<1> QED  BY <1>1, <1>2, <1>3, <1>4, <1>5 DEF LocalInv

LEMMA LocalDrain ==
    ASSUME LocalInv, Layout!Drain
    PROVE  LocalInv'
<1>1. /\ drainer \in {"alive", "over"} /\ log > 0 /\ pc # "done"
      /\ log' = log - 1 /\ drained' = drained + 1
      /\ UNCHANGED <<pc, directory, binary, failure, leftovers, receipt, status, passed,
                     reserved, owned, against>>
      /\ port' = "ours" => port = "ours"
      /\ \/ /\ drained' > LogCap /\ drainer' = "over" /\ server' = "dead"
            /\ child' = Layout!NoChild
         \/ /\ ~(drained' > LogCap) \/ drainer = "over"
            /\ UNCHANGED <<drainer, server, child>>
  BY DEF Layout!Drain, Layout!outcomeVars, Layout!handVars
<1>2. log' \in Nat /\ drained' \in Nat
  BY <1>1 DEF LocalInv, LocalTyped
<1>3. server # "none"
  BY <1>1 DEF LocalInv, Tested
<1>4. /\ child' \in [alive : BOOLEAN, pipe : BOOLEAN, port : BOOLEAN]
      /\ Layout!Writable' => Layout!Writable
  <2>1. /\ Layout!NoChild \in [alive : BOOLEAN, pipe : BOOLEAN, port : BOOLEAN]
        /\ ~Layout!NoChild.alive
    BY DEF Layout!NoChild
  <2> QED  BY <1>1, <2>1 DEF LocalInv, LocalTyped, Layout!Writable
<1> QED  BY <1>1, <1>2, <1>3, <1>4, OutsideKeeps

LEMMA LocalInterrupt ==
    ASSUME LocalInv, Layout!Interrupt
    PROVE  LocalInv'
<1>1. /\ UNCHANGED <<directory, server, child, port, log, drained, drainer, passed, receipt,
                     reserved, owned, against>>
      /\ pc # "done"
      /\ \/ pc' = "terminate" /\ failure' = "interrupt" /\ UNCHANGED status
         \/ pc' = "done" /\ status' = 130 /\ UNCHANGED failure
  BY Labels DEF Layout!Interrupt, Layout!Fail, Layout!Exit, Layout!Goto, Layout!serverVars,
                Layout!logVars, Layout!handVars
<1>2. Finished'
  BY <1>1, StillRunning, EndedEarly
<1>3. LocalTyped' /\ Running' /\ Bound'
  BY <1>1, StillRunning, NoneAssumption, Labels DEF LocalInv, LocalTyped, Running, Bound
<1>4. LogKept'
  BY <1>1, NoneAssumption DEF LocalInv, LogKept, Layout!Writable
<1>5. Tested' /\ Cleaned' /\ Reached'
  BY <1>1, Labels DEF LocalInv, Tested, Proved, Cleaned, Reached, Layout!Accepted
<1> QED  BY <1>2, <1>3, <1>4, <1>5 DEF LocalInv

LEMMA LocalEvent ==
    ASSUME LocalInv, Layout!Event
    PROVE  LocalInv'
<1>1. CASE Layout!Interrupt
  BY <1>1, LocalInterrupt
<1>2. ASSUME ~Layout!Interrupt
      PROVE  /\ UNCHANGED <<pc, directory, binary, drained, drainer, failure, leftovers, receipt,
                            status, passed, reserved, owned, against>>
             /\ pc # "done"
             /\ \/ Layout!ServerLogs \/ Layout!ServerListens \/ Layout!ServerForks
                \/ Layout!ServerDies \/ Layout!ChildDies \/ Layout!OtherBinds \/ Layout!OtherLeaves
  BY <1>2 DEF Layout!Event, Layout!logVars, Layout!outcomeVars, Layout!handVars
<1>3. ASSUME ~Layout!Interrupt
      PROVE  /\ server' \in {server, "dead"} /\ (server = "none" => server' = "none")
             /\ child' \in [alive : BOOLEAN, pipe : BOOLEAN, port : BOOLEAN]
             /\ port' = "ours" => port = "ours" \/ (server = "alive" /\ reserved)
             /\ Layout!Writable' => Layout!Writable
             /\ log' \in Nat
             /\ drainer = "done" => log' = log
  <2> USE DEF LocalInv, LocalTyped, LogKept, Layout!Writable
  <2>1. CASE Layout!ServerLogs
    BY <2>1 DEF Layout!ServerLogs
  <2>2. CASE Layout!ServerListens \/ Layout!OtherBinds \/ Layout!OtherLeaves
    BY <2>2 DEF Layout!ServerListens, Layout!OtherBinds, Layout!OtherLeaves
  <2>3. CASE Layout!ServerForks
    BY <2>3 DEF Layout!ServerForks
  <2>4. CASE Layout!ServerDies
    BY <2>4 DEF Layout!ServerDies
  <2>5. CASE Layout!ChildDies
    <3>1. /\ Layout!NoChild \in [alive : BOOLEAN, pipe : BOOLEAN, port : BOOLEAN]
          /\ ~Layout!NoChild.alive
      BY DEF Layout!NoChild
    <3> QED  BY <2>5, <3>1 DEF Layout!ChildDies
  <2> QED  BY <1>2, <1>3, <2>1, <2>2, <2>3, <2>4, <2>5
<1>4. CASE ~Layout!Interrupt
  <2>1. drained' \in Nat /\ drainer' \in {"none", "alive", "over", "done"}
    BY <1>2, <1>4 DEF LocalInv, LocalTyped
  <2> QED  BY <1>2, <1>3, <1>4, <2>1, OutsideKeeps
<1> QED  BY <1>1, <1>4

LEMMA LocalNext ==
    ASSUME LocalInv, Layout!Next \/ UNCHANGED <<pc, status, events, layoutVars>>
    PROVE  LocalInv'
<1>1. CASE UNCHANGED <<pc, status, events, layoutVars>>
  BY <1>1 DEF layoutVars, LocalInv, LocalTyped, Running, LogKept, Tested, Proved, Reached, Cleaned,
              Bound, Finished, Layout!Writable, Layout!Accepted, Layout!VerifiedTrue,
              Layout!LeftoversReported
<1>2. CASE Layout!Next
  BY <1>2, LocalTries, LocalProve, LocalLaunch, LocalAttach, LocalTest, LocalTerminate,
     LocalCloseLog, LocalClosePort, LocalOutcome, LocalDrain, LocalEvent DEF Layout!Next
<1> QED  BY <1>1, <1>2

(***************************************************************************)
(* ContainerOracle                                                         *)
(***************************************************************************)
LEMMA ContainerInit == Container!Init => ContainerInv
  BY NoneAssumption, ImagesAssumption
     DEF Container!Init, ContainerInv, ContainerTyped, Known, Gone, Probed, Ends,
         Container!ContainerSound, Container!Careful, Container!PassedTrue,
         Container!SurvivorTold

\* What a step has to show, of its own label and of the exit.
Kept ==
    /\ ContainerTyped' /\ Known' /\ Gone' /\ Probed' /\ Ends'
    /\ asked' \subseteq {"local"} /\ removed' \subseteq {Built}

\* While the script runs nothing is claimed.
LEMMA Claims ==
    ASSUME Kept, status' = None
    PROVE  ContainerInv'
  BY NoneAssumption DEF Kept, ContainerInv, Container!ContainerSound, Container!Careful,
                        Container!PassedTrue, Container!SurvivorTold

\* It ends with a failure before it has built anything, or after an interrupt.
LEMMA EndsWith ==
    ASSUME Kept, status' \in {1, 2, 130}, created' = None \/ cleanup' \/ status' = 130
    PROVE  ContainerInv'
  BY NoneAssumption DEF Kept, ContainerInv, Container!ContainerSound, Container!Careful,
                        Container!PassedTrue, Container!SurvivorTold

LEMMA ContainerPrepares ==
    ASSUME ContainerInv, Container!Inspect \/ Container!Declared \/ Container!Reserve
    PROVE  ContainerInv'
<1>1. /\ pc \in {"inspect", "declared", "reserve"}
      /\ \/ pc' = "declared" /\ UNCHANGED status
         \/ pc' = "reserve" /\ UNCHANGED status
         \/ pc' = "build" /\ UNCHANGED status
         \/ pc' = "done" /\ status' \in {1, 2}
      /\ UNCHANGED <<images, tag, created, removal, primary, cleanup, probed, removed, moved>>
      /\ asked' = asked \/ asked' \subseteq {"local"}
  BY DEF Container!Inspect, Container!Declared, Container!Reserve, Container!End, Container!Goto,
         Container!Asks, Container!daemonVars, Container!historyVars, Container!envVars
<1>2. status = None
  BY <1>1 DEF ContainerInv, Ends
<1>3. Kept
  BY <1>1, <1>2, NoneAssumption DEF ContainerInv, ContainerTyped, Known, Gone, Probed, Ends, Kept,
                        Container!ContainerSound, Container!Careful
<1>4. created' = None
  BY <1>1 DEF ContainerInv, Known
<1> QED  BY <1>1, <1>2, <1>3, <1>4, Claims, EndsWith

\* The try block: a step goes on, or fails over to the cleanup once the id of
\* the image is known.
LEMMA ContainerTries ==
    ASSUME ContainerInv,
           Container!Build \/ Container!ReadId \/ Container!CheckTag \/ Container!Probe
    PROVE  ContainerInv'
<1>1. /\ UNCHANGED <<removal, cleanup, status, asked, removed, moved>>
      /\ \/ pc = "build" /\ pc' = "readid" /\ UNCHANGED <<created, primary>>
         \/ pc = "build" /\ UNCHANGED created /\ Container!Fail("error")
         \/ pc = "readid" /\ pc' = "checktag" /\ created' = Built /\ UNCHANGED primary
         \/ pc = "readid" /\ UNCHANGED created /\ Container!Fail("error")
         \/ /\ pc = "checktag" /\ pc' = "probe" /\ UNCHANGED <<created, primary, tag>>
            /\ tag = created \/ created = "unknown"
         \/ pc = "checktag" /\ UNCHANGED created /\ Container!Fail("error")
         \/ /\ pc = "probe" /\ pc' = "before" /\ UNCHANGED <<created, primary>>
            /\ probed' = tag /\ tag # None
         \/ pc = "probe" /\ UNCHANGED created /\ Container!Fail("error")
  BY DEF Container!Build, Container!ReadId, Container!CheckTag, Container!Probe, Container!Goto,
         Container!Answers, Container!daemonVars, Container!historyVars, Container!envVars
<1>2. status = None
  BY <1>1 DEF ContainerInv, Ends
<1>3. Kept
  BY <1>1, <1>2, NoneAssumption, ImagesAssumption
     DEF ContainerInv, ContainerTyped, Known, Gone, Probed, Ends, Kept, Container!Fail,
         Container!Goto, Container!ContainerSound, Container!Careful
<1> QED  BY <1>1, <1>2, <1>3, Claims

\* The image is removed by its id, so that it is the one that was built.
LEMMA ContainerCleans ==
    ASSUME ContainerInv, Container!Before \/ Container!Remove \/ Container!After
    PROVE  ContainerInv'
<1>1. /\ UNCHANGED <<created, primary, status, asked, probed, moved>>
      /\ \/ /\ pc = "before" /\ UNCHANGED <<images, removal, removed>>
            /\ \/ pc' = "remove" /\ UNCHANGED cleanup
               \/ pc' = "outcome" /\ cleanup' = TRUE
         \/ /\ pc = "remove" /\ pc' = "after" /\ UNCHANGED cleanup
            /\ \/ /\ removal' \in BOOLEAN /\ removed' = removed \cup {created}
                  /\ images' = images \ {created}
               \/ removal' = FALSE /\ UNCHANGED <<images, removed>>
         \/ /\ pc = "after" /\ UNCHANGED <<images, removal, removed>>
            /\ \/ pc' = "outcome" /\ removal /\ UNCHANGED cleanup
               \/ pc' = "outcome" /\ cleanup' = TRUE
  BY DEF Container!Before, Container!Remove, Container!After, Container!CleanupFails,
         Container!Goto, Container!daemonVars, Container!historyVars, Container!envVars
<1>2. status = None /\ created = Built
  BY <1>1 DEF ContainerInv, Ends, Known
<1>3. Kept
  BY <1>1, <1>2, NoneAssumption
     DEF ContainerInv, ContainerTyped, Known, Gone, Probed, Ends, Kept, Container!ContainerSound,
         Container!Careful
<1> QED  BY <1>1, <1>2, <1>3, Claims

\* The exit is 0 when the probe has passed and the image is gone, and a failed
\* cleanup is one that is told.
LEMMA ContainerOutcome ==
    ASSUME ContainerInv, Container!Outcome
    PROVE  ContainerInv'
<1>1. /\ pc = "outcome" /\ pc' = "done"
      /\ status' = IF primary = "interrupt" THEN 130
                   ELSE IF primary # None \/ cleanup THEN 1 ELSE 0
      /\ UNCHANGED <<images, created, removal, primary, cleanup, asked, probed, removed, moved>>
  BY DEF Container!Outcome, Container!End, Container!daemonVars, Container!historyVars,
         Container!envVars
<1>2. Kept
  BY <1>1, NoneAssumption
     DEF ContainerInv, ContainerTyped, Known, Gone, Probed, Ends, Kept, Container!ContainerSound,
         Container!Careful
<1>3. Container!PassedTrue' /\ Container!SurvivorTold'
  BY <1>1, NoneAssumption
     DEF ContainerInv, Gone, Probed, Container!PassedTrue, Container!SurvivorTold
<1> QED  BY <1>2, <1>3 DEF Kept, ContainerInv, Container!ContainerSound, Container!Careful

\* Whoever moves the tag is known to have, and nobody builds the image again.
LEMMA ContainerOthers ==
    ASSUME ContainerInv, Container!Event(Container!Others)
    PROVE  ContainerInv'
<1>1. /\ pc # "done" /\ images' \subseteq images
      /\ UNCHANGED <<pc, created, removal, primary, cleanup, status, asked, probed, removed>>
      /\ moved' = TRUE \/ (UNCHANGED moved /\ UNCHANGED tag)
  BY DEF Container!Event, Container!Others, Container!Retag, Container!TagAgain, Container!Prune,
         Container!historyVars
<1>2. status = None
  BY <1>1 DEF ContainerInv, Ends
<1>3. Kept
  BY <1>1
     DEF ContainerInv, ContainerTyped, Known, Gone, Probed, Ends, Kept, Container!ContainerSound,
         Container!Careful
<1> QED  BY <1>1, <1>2, <1>3, Claims

LEMMA ContainerInterrupt ==
    ASSUME ContainerInv, Container!Event(Container!Interrupt)
    PROVE  ContainerInv'
<1>1. /\ UNCHANGED <<created, images, tag, moved, removal, asked, probed, removed>>
      /\ \/ /\ pc \in {"inspect", "declared", "reserve", "before", "remove", "after"}
            /\ pc' = "done" /\ status' = 130 /\ UNCHANGED <<primary, cleanup>>
         \/ /\ pc \in {"build", "readid", "checktag", "probe"} /\ Container!Fail("interrupt")
            /\ UNCHANGED <<cleanup, status>>
  BY DEF Container!Event, Container!Interrupt, Container!End, Container!historyVars,
         Container!daemonVars
<1>2. status = None
  BY <1>1 DEF ContainerInv, Ends
<1>3. Kept
  BY <1>1, <1>2, NoneAssumption
     DEF ContainerInv, ContainerTyped, Known, Gone, Probed, Ends, Kept, Container!Fail,
         Container!Goto, Container!ContainerSound, Container!Careful
<1> QED  BY <1>1, <1>2, <1>3, Claims, EndsWith

LEMMA ContainerNext ==
    ASSUME ContainerInv, Container!Next \/ UNCHANGED <<pc, status, events, containerVars>>
    PROVE  ContainerInv'
<1>1. CASE UNCHANGED <<pc, status, events, containerVars>>
  BY <1>1 DEF containerVars, ContainerInv, ContainerTyped, Known, Gone, Probed, Ends,
              Container!ContainerSound, Container!Careful, Container!PassedTrue,
              Container!SurvivorTold
<1>2. CASE Container!Next
  BY <1>2, ContainerPrepares, ContainerTries, ContainerCleans, ContainerOutcome, ContainerOthers,
     ContainerInterrupt DEF Container!Next
<1> QED  BY <1>1, <1>2

(***************************************************************************)
(* The programs                                                            *)
(***************************************************************************)
ProgramsInv ==
    \/ program = "worker" /\ WorkerInv /\ OutputInv
    \/ program = "bounded" /\ BoundedInv
    \/ program = "layout" /\ LocalInv
    \/ program = "container" /\ ContainerInv

LEMMA ProgramsStart == ProgramsInit => ProgramsInv
  BY WorkerInit, OutputInit, BoundedInit, LocalInit, ContainerInit DEF ProgramsInit, ProgramsInv

\* Only the program that runs takes a step.
LEMMA ProgramsStep ==
    ASSUME ProgramsInv, [ProgramsNext]_ProgramsVars
    PROVE  ProgramsInv'
<1>1. program' = program
  BY DEF ProgramsNext, ProgramsVars, Not
<1>2. CASE program = "worker" /\ WorkerInv /\ OutputInv
  <2>1. Worker!Next \/ UNCHANGED <<pc, workerVars>>
    BY <1>2 DEF ProgramsNext, ProgramsVars
  <2>2. WorkerTyped
    BY <1>2 DEF WorkerInv
  <2> QED  BY <1>1, <1>2, <2>1, <2>2, WorkerNext, OutputNext DEF ProgramsInv
<1>3. CASE program = "bounded" /\ BoundedInv
  <2>1. Bounded!Next \/ UNCHANGED <<pc, boundedVars>>
    BY <1>3 DEF ProgramsNext, ProgramsVars
  <2> QED  BY <1>1, <1>3, <2>1, BoundedNext DEF ProgramsInv
<1>4. CASE program = "layout" /\ LocalInv
  <2>1. Layout!Next \/ UNCHANGED <<pc, status, events, layoutVars>>
    BY <1>4 DEF ProgramsNext, ProgramsVars
  <2> QED  BY <1>1, <1>4, <2>1, LocalNext DEF ProgramsInv
<1>5. CASE program = "container" /\ ContainerInv
  <2>1. Container!Next \/ UNCHANGED <<pc, status, events, containerVars>>
    BY <1>5 DEF ProgramsNext, ProgramsVars
  <2> QED  BY <1>1, <1>5, <2>1, ContainerNext DEF ProgramsInv
<1> QED  BY <1>2, <1>3, <1>4, <1>5 DEF ProgramsInv

\* worker.py, oracle_process.py and the two oracle scripts: the strengthening the
\* others rest on.
THEOREM ProgramsInvariant == ProgramsSpec => []ProgramsInv
<1>1. ProgramsInv /\ [ProgramsNext]_ProgramsVars => ProgramsInv'
  BY ProgramsStep
<1> QED  BY <1>1, ProgramsStart, PTL DEF ProgramsSpec

\* worker.py handler of both images: what is uploaded was made, within the limit,
\* of the bytes whose digest the request names, whoever rewrites the input
\* meanwhile, and the descriptor that is answered is that of the object unless
\* another pod has written it since.
THEOREM PodsDeliverHolds == ProgramsSpec => [](program = "worker" => Worker!PodsDeliver)
<1>1. ASSUME WorkerInv PROVE Worker!PodsDeliver
  BY <1>1 DEF WorkerInv, Computes, Describes, Worker!PodsDeliver, Worker!OutputsTrue,
              Worker!DescriptorsTrue
<1>2. ProgramsInv => (program = "worker" => Worker!PodsDeliver)
  BY <1>1 DEF ProgramsInv
<1> QED  BY <1>2, ProgramsInvariant, PTL

\* worker.py _canonical_rows, _find_span, _chunk_offset and _community_assign: what
\* is uploaded is what the operation promises of the very input it was made of.
\* Rows have one key each, name a passage of the input, and have a span only where
\* the passage has the subject, exactly or up to case; the communities are the
\* connected parts, numbered in the order of their least members.
THEOREM OutputsRightHolds == ProgramsSpec => []OutputsRight
<1>1. ASSUME OutputInv PROVE Worker!OutputsRight
  BY <1>1 DEF OutputInv, Promises, OutputRight, Worker!OutputsRight, Worker!Community
<1>2. ProgramsInv => OutputsRight
  BY <1>1 DEF ProgramsInv, OutputsRight
<1> QED  BY <1>2, ProgramsInvariant, PTL

\* oracle_process.py run_bounded_process: a command that is reported to have run
\* was captured whole and within the cap, with its own exit code, and a call leaves
\* its child behind only where nothing looks after it: between the fork and the try
\* block, and when a second exception ends the handler of the first.
THEOREM BoundedSoundHolds == ProgramsSpec => [](program = "bounded" => Bounded!BoundedSound)
<1>1. ASSUME BoundedInv PROVE Bounded!ResultTrue
  <2>1. ASSUME result \in {"ok", "nonzero"} PROVE pc = "done"
    BY <1>1, <2>1, NoneAssumption DEF BoundedInv, BoundedTyped, BoundedStart, BoundedOpened,
                                    BoundedLoop
  <2>2. ASSUME \A s \in Bounded!Streams : Ended(s) PROVE got = written
    BY <1>1, <2>2 DEF BoundedInv, BoundedTyped, Conserved, Ended, Bounded!Streams
  <2> QED  BY <1>1, <2>1, <2>2 DEF BoundedInv, BoundedDone, Bounded!ResultTrue
<1>2. ASSUME BoundedInv PROVE Bounded!NothingLeft
  BY <1>2 DEF BoundedInv, BoundedDone, Bounded!NothingLeft
<1>3. ProgramsInv => (program = "bounded" => Bounded!BoundedSound)
  BY <1>1, <1>2 DEF ProgramsInv, Bounded!BoundedSound
<1> QED  BY <1>3, ProgramsInvariant, PTL

\* run-layout-local-oracles.py main: an exit of 0 means that the required tests
\* have passed against a server proved to be of the pinned binary and on its own
\* port, which is gone with its pipe, its port and its directory.  A cleanup that
\* is not itself interrupted reports what it leaves of all that the script had
\* been given, whatever fails, dies or is interrupted before; of a start that was
\* interrupted before its assignment it knows nothing.
THEOREM LocalOracleSoundHolds ==
    ProgramsSpec => [](program = "layout" => Layout!LocalOracleSound)
<1>1. ProgramsInv => (program = "layout" => Layout!LocalOracleSound)
  BY DEF ProgramsInv, LocalInv, Finished, Layout!LocalOracleSound
<1> QED  BY <1>1, ProgramsInvariant, PTL

\* run-rendering-container-oracles.py main: only a local daemon is asked, only
\* the image that was built is removed, an exit of 0 means that the probe has
\* passed and the image is gone, and one that stays is told, whoever moves the
\* tag meanwhile.
THEOREM ContainerSoundHolds ==
    ProgramsSpec => [](program = "container" => Container!ContainerSound)
<1>1. ProgramsInv => (program = "container" => Container!ContainerSound)
  BY DEF ProgramsInv, ContainerInv
<1> QED  BY <1>1, ProgramsInvariant, PTL

\* The four together.
THEOREM ProgramsSoundHolds == ProgramsSpec => []ProgramsSound
  BY PodsDeliverHolds, BoundedSoundHolds, LocalOracleSoundHolds, ContainerSoundHolds, PTL
     DEF ProgramsSound
=============================================================================
