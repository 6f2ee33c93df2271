----------------------------- MODULE PodWorker -----------------------------
(***************************************************************************)
(* The RunPod worker images: runpod/theorem_extraction_worker/worker.py    *)
(* and runpod/theorem_offload_contract_worker/worker.py.                   *)
(*                                                                         *)
(* A pod serves one request at a time.  The request carries a descriptor   *)
(* of the input, a signed link to read it and one to write the output; the *)
(* pod downloads the input, holds it against the descriptor, computes the  *)
(* output, uploads it and answers with a descriptor of what it uploaded.   *)
(* RunPod may give a request to two pods, and both write one object.       *)
(***************************************************************************)
EXTENDS Integers, FiniteSets, SequencesExt

CONSTANTS
    Pods,
    CaseFold,   \* character -> the characters str.casefold makes of it
    Scenarios,  \* what may happen: [inputs, requests, replies, tries, faults],
                \* the bytes that may be under the input key, the requests that
                \* come, what the model may say (see AtlasRows and TypedRows),
                \* and how many requests and faults there are
    None

(***************************************************************************)
(* Bytes: [arrow, schema, table, size].  A digest is the bytes themselves. *)
(* Requests: [image, op, proper, max, digest, schema, rows, hashes], where *)
(* proper says that all other fields are what validate_input asks for, and *)
(* hashes that those of prompt and schema are right or left out.           *)
(***************************************************************************)
VARIABLES
    scenario,
    input, output, \* the objects under the two keys, or None
    pc, request,   \* pod: position and request
    held,          \* pod: the bytes it holds
    answer,        \* pod: [kind, descriptor] once it has answered
    used,          \* history: pod -> the input its output was computed from
    writer,        \* history: the pod that wrote the output last
    tries, faults

vars == <<scenario, input, output, pc, request, held, answer, used, writer, tries, faults>>

(***************************************************************************)
(* What the bytes of an Arrow stream, an admitted request and a reply of   *)
(* the model are.  Every character folds to one or more.                   *)
(***************************************************************************)
Text == Seq(DOMAIN CaseFold)
Passages == Seq([id : STRING, text : Text])
Facts == Seq([stage : STRING, subject : Text, object : STRING])
Chunks == Seq([id : STRING, text : Text, facts : Facts])
Concepts == Seq([node : Text, concept : STRING])
Records == Seq([label : Text \cup {None}, body : STRING])

DataAssumption ==
    /\ \A c \in DOMAIN CaseFold : CaseFold[c] \in Text /\ CaseFold[c] # <<>>
    /\ \A s \in Scenarios :
        /\ \A bytes \in s.inputs : bytes.arrow =>
            /\ bytes.schema = "edges" => bytes.table \in Seq(Nat \X Nat)
            /\ bytes.schema = "passages" => bytes.table \in Passages
        /\ \A r \in s.requests : r.proper =>
            /\ r.image \in {"contract", "extraction"}
            /\ r.image = "extraction" => r.op \in {"atlas", "typed"}
        /\ \A reply \in s.replies :
            /\ reply.chunks \in Chunks /\ reply.concepts \in Concepts
            /\ reply.records \in Seq(Records)

(***************************************************************************)
(* Spans.  A text is a sequence of characters, offsets count from 0, and   *)
(* -1 says not found.                                                      *)
(***************************************************************************)
Find(text, part, from) ==
    LET at == {i \in from..(Len(text) - Len(part)) :
                  SubSeq(text, i + 1, i + Len(part)) = part}
    IN  IF at = {} THEN -1 ELSE Min(at)

Folded(text) == FlattenSeq([i \in DOMAIN text |-> CaseFold[text[i]]])

\* An occurrence as it stands, or else one up to case.
FindSpan(text, subject, offset) ==
    LET exact == Find(text, subject, 0)
        at == IF exact >= 0 THEN exact ELSE Find(Folded(text), Folded(subject), 0)
    IN  IF at < 0 THEN None ELSE <<offset + at, offset + at + Len(subject)>>

\* The next occurrence behind the one found last, or the first one.
ChunkOffset(text, chunk, prior) ==
    LET next == Find(text, chunk, prior + 1)
    IN  IF next >= 0 THEN next ELSE Find(text, chunk, 0)

\* Offsets of the chunks of a reply in the texts of their passages.
Offsets(chunks, textOf) ==
    LET offset[i \in DOMAIN chunks] ==
            LET found == {j \in 1..(i - 1) : chunks[j].id = chunks[i].id /\ offset[j] >= 0}
                prior == IF found = {} THEN -1 ELSE offset[Max(found)]
            IN  ChunkOffset(textOf[chunks[i].id], chunks[i].text, prior)
    IN  offset

(***************************************************************************)
(* Rows: tenant, job, shard, model, prompt and schema are those of the     *)
(* request, so that they are the same in all rows of an output.            *)
(***************************************************************************)
Row(stage, id, subject, object, span) ==
    [stage |-> stage, passage |-> id, subject |-> subject, object |-> object, span |-> span]

RowKey(row) == <<row.stage, row.passage, row.subject, row.object>>

\* Mutant of CanonicalRows: a row is dropped when it is another row, not
\* when its key is another row's.
CanonicalRowsWhole(rows) == ToSet(rows)

\* One row of each key, the last one; they are sorted, so that they are a set.
CanonicalRows(rows) ==
    {rows[i] : i \in {k \in DOMAIN rows :
                         \A j \in (k + 1)..Len(rows) : RowKey(rows[j]) # RowKey(rows[k])}}

IdsOf(table) == {table[i].id : i \in DOMAIN table}
TextOf(table) ==
    [id \in IdsOf(table) |-> table[Max({i \in DOMAIN table : table[i].id = id})].text]

\* A chunk has facts [stage, subject, object]: entity_relation, event_entity
\* and event_relation.
ChunkRows(chunk, offset) ==
    [i \in DOMAIN chunk.facts |->
        LET f == chunk.facts[i]
        IN  Row(f.stage, chunk.id, f.subject, f.object,
                IF offset < 0 THEN None ELSE FindSpan(chunk.text, f.subject, offset))]

\* A concept of a node is one of every passage that mentions the node.
ConceptRows(concepts, table) ==
    LET Mentions(c, id) == Find(Folded(TextOf(table)[id]), Folded(c.node), 0) >= 0
        Of(c) == {Row("concept", id, c.node, c.concept, FindSpan(TextOf(table)[id], c.node, 0)) :
                     id \in {p \in IdsOf(table) : Mentions(c, p)}}
    IN  FlattenSeq([i \in DOMAIN concepts |-> SetToSeq(Of(concepts[i]))])

AtlasRows(reply, table) ==
    LET offset == Offsets(reply.chunks, TextOf(table))
    IN  CanonicalRows(
            FlattenSeq([i \in DOMAIN reply.chunks |-> ChunkRows(reply.chunks[i], offset[i])])
            \o ConceptRows(reply.concepts, table))

\* One answer per row of the table, in its order: reply.records[i] are the
\* labels and bodies of the records found in row i.
TypedRows(reply, table) ==
    CanonicalRows(FlattenSeq([i \in DOMAIN table |->
        [k \in DOMAIN reply.records[i] |->
            LET r == reply.records[i][k]
            IN  Row("typed", table[i].id, r.label, r.body,
                    FindSpan(table[i].text, r.label, 0))]]))

\* A chunk of a passage nobody sent, and a record without its label, fail.
AtlasFits(reply, table) == \A i \in DOMAIN reply.chunks : reply.chunks[i].id \in IdsOf(table)
TypedFits(reply, table) ==
    /\ Len(reply.records) = Len(table)
    /\ \A i \in DOMAIN table : \A k \in DOMAIN reply.records[i] :
           reply.records[i][k].label # None

(***************************************************************************)
(* Communities: union and find over the ends of edges.                     *)
(***************************************************************************)
\* No node hangs under a greater one.
Forests(nodes) == {parent \in [nodes -> nodes] : \A n \in nodes : parent[n] <= n}

\* The root of a node, and the forest with the path to it halved.
FindRoot(forest, node) ==
    LET nodes == DOMAIN forest
        find[state \in Forests(nodes) \X nodes] ==
            LET parent == state[1]
                n == state[2]
                above == parent[parent[n]]
            IN  IF parent[n] = n THEN [parent |-> parent, root |-> n]
                ELSE find[<<[parent EXCEPT ![n] = above], above>>]
    IN  find[<<forest, node>>]

\* Mutant of Union: hangs the ends of the edge under each other, not their roots.
UnionEnds(parent, left, right) ==
    LET l == FindRoot(parent, left)
        r == FindRoot(l.parent, right)
    IN  IF l.root = r.root THEN r.parent
        ELSE IF left < right THEN [r.parent EXCEPT ![right] = left]
        ELSE [r.parent EXCEPT ![left] = right]

Union(parent, left, right) ==
    LET l == FindRoot(parent, left)
        r == FindRoot(l.parent, right)
    IN  IF l.root = r.root THEN r.parent
        ELSE IF l.root < r.root THEN [r.parent EXCEPT ![r.root] = l.root]
        ELSE [r.parent EXCEPT ![l.root] = r.root]

Nodes(edges) == UNION {{edges[i][1], edges[i][2]} : i \in DOMAIN edges}

\* Every node is alone at first, and the edges are taken in their order.
Joined(edges) ==
    LET joined[k \in 0..Len(edges)] ==
            IF k = 0 THEN [n \in Nodes(edges) |-> n]
            ELSE Union(joined[k - 1], edges[k][1], edges[k][2])
    IN  joined[Len(edges)]

CommunityAssign(edges) ==
    LET Root(n) == FindRoot(Joined(edges), n).root
        roots == {Root(n) : n \in Nodes(edges)}
    IN  {<<n, Cardinality({r \in roots : r < Root(n)})>> : n \in Nodes(edges)}

(***************************************************************************)
(* A request on a pod                                                      *)
(***************************************************************************)
Atlas == "atlas"
Typed == "typed"
Community == "community"

Init ==
    /\ scenario \in Scenarios
    /\ input \in scenario.inputs
    /\ output = None
    /\ pc = [p \in Pods |-> "idle"]
    /\ request = [p \in Pods |-> None]
    /\ held = [p \in Pods |-> None]
    /\ answer = [p \in Pods |-> None]
    /\ used = [p \in Pods |-> None]
    /\ writer = None
    /\ tries = 0 /\ faults = 0

Goto(p, label, bytes) ==
    /\ pc' = [pc EXCEPT ![p] = label]
    /\ held' = [held EXCEPT ![p] = bytes]
    /\ UNCHANGED answer

\* "error" is an answer of the handler, "raised" an exception it lets pass.
Reply(p, kind, descriptor) ==
    /\ pc' = [pc EXCEPT ![p] = "idle"]
    /\ held' = [held EXCEPT ![p] = None]
    /\ answer' = [answer EXCEPT ![p] = [kind |-> kind, descriptor |-> descriptor]]

\* validate_input: the contract image takes a descriptor without a row count
\* and a null size limit, and has a runner for one of its operations.
Receive(p, r) ==
    /\ pc[p] = "idle"
    /\ tries < scenario.tries /\ tries' = tries + 1
    /\ request' = [request EXCEPT ![p] = r]
    /\ used' = [used EXCEPT ![p] = None]
    /\ IF ~r.proper \/ (r.image = "extraction" /\ None \in {r.rows, r.max})
       THEN Reply(p, "error", None)
       ELSE IF r.image = "contract" /\ r.op # Community THEN Reply(p, "error", None)
       ELSE IF r.max = None THEN Reply(p, "raised", None)
       ELSE /\ pc' = [pc EXCEPT ![p] = "download"]
            /\ answer' = [answer EXCEPT ![p] = None]
            /\ UNCHANGED held
    /\ UNCHANGED <<scenario, input, output, writer, faults>>

Download(p) ==
    /\ pc[p] = "download"
    /\ \/ /\ IF input = None \/ input.size > request[p].max THEN Reply(p, "error", None)
             ELSE Goto(p, "verify", input)
          /\ UNCHANGED faults
       \/ /\ faults < scenario.faults /\ faults' = faults + 1
          /\ Reply(p, "error", None)
    /\ UNCHANGED <<scenario, input, output, request, used, writer, tries>>

\* Mutant of Verified: the digest is not compared.
VerifiedShape(r, bytes) ==
    /\ bytes.arrow
    /\ bytes.schema = r.schema
    /\ r.image = "extraction" => bytes.schema = "passages"
    /\ Len(bytes.table) = r.rows

\* Digest, Arrow stream, schema and row count; an extraction takes passages only.
Verified(r, bytes) ==
    /\ bytes = r.digest
    /\ bytes.arrow
    /\ bytes.schema = r.schema
    /\ r.image = "extraction" => bytes.schema = "passages"
    /\ Len(bytes.table) = r.rows

Verify(p) ==
    /\ pc[p] = "verify"
    /\ IF Verified(request[p], held[p]) THEN Goto(p, "run", held[p])
       ELSE Reply(p, "error", None)
    /\ UNCHANGED <<scenario, input, output, request, used, writer, tries, faults>>

\* The output of what the model says, or None; it counts a unit per row.
Output(r, bytes, reply) ==
    LET Rows(rows, schema) ==
            [arrow |-> TRUE, schema |-> schema, table |-> rows, size |-> Cardinality(rows)]
    IN  CASE r.op = Community ->
               IF bytes.schema = "edges" THEN Rows(CommunityAssign(bytes.table), "communities")
               ELSE None
          [] r.op = Atlas ->
               IF AtlasFits(reply, bytes.table) THEN Rows(AtlasRows(reply, bytes.table), "rows")
               ELSE None
          [] r.op = Typed ->
               IF r.hashes /\ TypedFits(reply, bytes.table)
               THEN Rows(TypedRows(reply, bytes.table), "rows") ELSE None

\* The model may not answer, or not in JSON of the schema: errors of the client
\* and of jsonschema pass the handler, the other ones are its answer.
Run(p) ==
    /\ pc[p] = "run"
    /\ \/ /\ request[p].op # Community
          /\ Reply(p, "raised", None) /\ UNCHANGED used
       \/ \E reply \in scenario.replies :
            LET made == Output(request[p], held[p], reply)
            IN  IF made # None /\ made.size <= request[p].max
                THEN Goto(p, "upload", made) /\ used' = [used EXCEPT ![p] = held[p]]
                ELSE Reply(p, "error", None) /\ UNCHANGED used
    /\ UNCHANGED <<scenario, input, output, request, writer, tries, faults>>

\* The descriptor is that of the bytes in hand.  A failed upload may have
\* written the object.
Upload(p) ==
    LET stored == output' = held[p] /\ writer' = p
        descriptor == [schema |-> held[p].schema, rows |-> Cardinality(held[p].table),
                       digest |-> held[p]]
    IN  /\ pc[p] = "upload"
        /\ \/ stored /\ Reply(p, "output", descriptor) /\ UNCHANGED faults
           \/ /\ faults < scenario.faults /\ faults' = faults + 1
              /\ Reply(p, "error", None)
              /\ stored \/ UNCHANGED <<output, writer>>
        /\ UNCHANGED <<scenario, input, request, used, tries>>

\* Whoever may write the input does so again.
Rewrite ==
    /\ faults < scenario.faults /\ faults' = faults + 1
    /\ \E bytes \in (scenario.inputs \cup {None}) \ {input} : input' = bytes
    /\ UNCHANGED <<scenario, output, pc, request, held, answer, used, writer, tries>>

Next ==
    \/ \E p \in Pods :
        \/ \E r \in scenario.requests : Receive(p, r)
        \/ Download(p) \/ Verify(p) \/ Run(p) \/ Upload(p)
    \/ Rewrite

(***************************************************************************)
(* Properties                                                              *)
(***************************************************************************)
\* Two nodes are connected when no set of nodes that edges do not leave has
\* one of them only.
Connected(edges, m, n) ==
    \A S \in SUBSET Nodes(edges) :
        (\A i \in DOMAIN edges : edges[i][1] \in S <=> edges[i][2] \in S)
            => (m \in S <=> n \in S)

\* Equal numbers are given to connected nodes, in the order of their least
\* members, without gaps.
CommunitiesRight(edges, rows) ==
    LET Of(n) == {m \in Nodes(edges) : Connected(edges, m, n)}
        leasts == {Min(Of(n)) : n \in Nodes(edges)}
    IN  rows = {<<n, Cardinality({m \in leasts : m < Min(Of(n))})>> : n \in Nodes(edges)}

\* The rows have one key each and speak of a passage of the input, in which
\* the span selects the subject, exactly or up to case.  Nothing keeps two
\* passages from having one id.  A character that folds to more than one shifts
\* the offsets behind it, so that nothing is asked of the spans of such a text
\* or subject.
Shifts(text) == \E i \in DOMAIN text : Len(CaseFold[text[i]]) > 1

Selects(span, text, subject) ==
    \/ span = None \/ Shifts(text) \/ Shifts(subject)
    \/ Folded(SubSeq(text, span[1] + 1, span[2])) = Folded(subject)

RowRight(table, row) ==
    \E i \in DOMAIN table :
        table[i].id = row.passage /\ Selects(row.span, table[i].text, row.subject)

RowsRight(table, rows) ==
    /\ \A x, y \in rows : RowKey(x) = RowKey(y) => x = y
    /\ \A x \in rows : RowRight(table, x)

\* What the operations compute is what they are to compute.
OutputsRight ==
    \A p \in Pods : pc[p] = "upload" =>
        IF request[p].op = Community
        THEN CommunitiesRight(used[p].table, held[p].table)
        ELSE RowsRight(used[p].table, held[p].table)

\* What a pod uploads is the output, within the limit, of the operation of its
\* request on the very input its request describes, though the input may have
\* been written again since.
OutputsTrue ==
    \A p \in Pods : pc[p] = "upload" =>
        /\ used[p] = request[p].digest
        /\ held[p].size <= request[p].max
        /\ \E reply \in scenario.replies : held[p] = Output(request[p], used[p], reply)

\* Whoever is answered with a descriptor finds these bytes under the output
\* key, unless another pod has written there since.
DescriptorsTrue ==
    \A p \in Pods : answer[p] # None =>
        /\ answer[p].kind = "output" => writer # None
        /\ answer[p].kind = "output" /\ writer = p => output = answer[p].descriptor.digest

PodsDeliver == OutputsTrue /\ DescriptorsTrue
=============================================================================
