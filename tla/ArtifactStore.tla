---------------------------- MODULE ArtifactStore ----------------------------
(***************************************************************************)
(* Objects of tenants: apps/orchestration/artifacts.py.                    *)
(*                                                                         *)
(* Threads of all processes write, read and delete objects of one bucket   *)
(* and hand out presigned links; every call of the storage service is a    *)
(* step of its own.  Objects under inputs/, outputs/ and incoming/ keys    *)
(* change, the others are named by the digest of their bytes and are read  *)
(* back after they are written.                                            *)
(***************************************************************************)
EXTENDS Integers, FiniteSets

CONSTANTS
    Threads,
    Payloads,     \* bytes, as [size, table, form]: table is what they say as an
                  \* Arrow stream, [schema, rows], form what they say as an image
    Garbled,      \* bytes nobody sent
    Keys,         \* the keys that are in use
    MaxBytes,     \* ARTIFACT_MAX_BYTES
    Scenarios,    \* [calls, threads, asks, faults]: the calls that come, to
                  \* which threads, how many, and the faults of the service
    None

VARIABLES
    scenario,
    bucket,       \* key -> the bytes under it, or None
    links,        \* presigned links that have not expired: [method, key, tenant]
    pc, call,     \* thread: position and call it serves
    answer,       \* thread: outcome of its call and the bytes it got
    disturbed,    \* history: threads whose object somebody else has changed
                  \* since their call began
    asks, faults

vars == <<scenario, bucket, links, pc, call, answer, disturbed, asks, faults>>

(***************************************************************************)
(* Calls: [op, tenant, key, payload, expect, proper], where proper says    *)
(* that kinds, names and media types are ones the operation allows, and    *)
(* expect is the descriptor of a read, [digest, table], or None.  Keys:    *)
(* [tenant, folder, name, digest, clean]; digest is None where the object  *)
(* may change.                                                             *)
(***************************************************************************)
Folder == [web |-> "web", rl |-> "rl", render |-> "renders", competence |-> "competence"]
ContentWrites == DOMAIN Folder
Writes == ContentWrites \cup {"table"}
\* "get" is read_arrow and read_table too.
Reads == {"read_web", "get", "refresh"}

\* tenant_prefix, and the keys that are made of the digest of the payload.  Only
\* rl_artifact_key takes a name as it is: it admits "..", which validate_key
\* refuses.
ContentKey(c) ==
    [tenant |-> c.tenant, folder |-> Folder[c.op], name |-> c.key.name,
     digest |-> c.payload, clean |-> c.op = "rl" => c.key.clean]

KeyOf(c) == IF c.op \in ContentWrites THEN ContentKey(c) ELSE c.key

\* validate_key
ValidKey(c) == c.key.clean /\ c.key.tenant = c.tenant

\* Empty bytes are web content and tables, never the other artifacts.
Admissible(c) ==
    CASE c.op = "web" -> c.proper /\ c.payload.size <= MaxBytes
      [] c.op \in ContentWrites \ {"web"} -> c.proper /\ c.payload.size \in 1..MaxBytes
      [] c.op = "table" -> ValidKey(c) /\ c.payload.size <= MaxBytes
      [] c.op \in {"read_web", "refresh"} ->
            /\ c.proper /\ ValidKey(c)
            /\ c.key.folder = (IF c.op = "refresh" THEN "renders" ELSE "web")
            /\ c.key.digest = c.expect.digest
      [] c.op \in {"delete_competence", "presign_put"} -> c.proper /\ ValidKey(c)
      [] c.op \in {"get", "delete", "presign_get"} -> ValidKey(c)

First(c) ==
    CASE c.op \in Writes -> "put"
      [] c.op \in Reads -> "get"
      [] c.op \in {"delete", "delete_competence"} -> "delete"
      [] c.op \in {"presign_get", "presign_put"} -> "link"

NoAnswer == [outcome |-> "none", bytes |-> None]

Fresh ==
    /\ bucket = [k \in Keys |-> None]
    /\ links = {}
    /\ call = [t \in Threads |-> None]
    /\ answer = [t \in Threads |-> NoAnswer]
    /\ disturbed = {}

StoreInit ==
    /\ scenario \in Scenarios
    /\ pc = [t \in Threads |-> "idle"]
    /\ Fresh
    /\ asks = 0 /\ faults = 0

(***************************************************************************)
(* Threads                                                                 *)
(***************************************************************************)
Goto(t, label) ==
    /\ pc' = [pc EXCEPT ![t] = label]
    /\ UNCHANGED answer

Return(t, outcome, bytes) ==
    /\ pc' = [pc EXCEPT ![t] = "idle"]
    /\ answer' = [answer EXCEPT ![t] = [outcome |-> outcome, bytes |-> bytes]]

Fault == faults < scenario.faults /\ faults' = faults + 1

\* The object under a key becomes p; who is a thread, or None.
Change(k, p, who) ==
    /\ bucket' = [bucket EXCEPT ![k] = p]
    /\ disturbed' = disturbed \cup
           {t \in Threads \ {who} : call[t] # None /\ KeyOf(call[t]) = k}

\* The call c takes the place of the one the thread served before.
Enter(t, c) ==
    /\ call' = [call EXCEPT ![t] = c]
    /\ disturbed' = disturbed \ {t}
    /\ IF Admissible(c)
       THEN /\ pc' = [pc EXCEPT ![t] = First(c)]
            /\ answer' = [answer EXCEPT ![t] = NoAnswer]
       ELSE Return(t, "invalid", None)

Begin(t, c) ==
    /\ pc[t] = "idle" /\ t \in scenario.threads
    /\ asks < scenario.asks /\ asks' = asks + 1
    /\ Enter(t, c)
    /\ UNCHANGED <<scenario, bucket, links, faults>>

\* put_object: stored; refused or lost on the way, with or without effect; or
\* acknowledged, and other bytes are stored.
Put(t) ==
    LET c == call[t]
        Stored == IF c.op = "table" THEN Return(t, "ok", None) ELSE Goto(t, "readback")
    IN  /\ pc[t] = "put"
        /\ \/ Change(KeyOf(c), c.payload, t) /\ Stored /\ UNCHANGED faults
           \/ Fault /\ Change(KeyOf(c), Garbled, t) /\ Stored
           \/ Fault /\ Change(KeyOf(c), c.payload, t) /\ Return(t, "unavailable", None)
           \/ Fault /\ Return(t, "unavailable", None) /\ UNCHANGED <<bucket, disturbed>>
        /\ UNCHANGED <<scenario, links, call, asks>>

\* get_bytes: what the caller does with the bytes, or how it fails.  The key is
\* validated first, of an object that was just written too.
GetBytes(t, Use(_)) ==
    LET p == bucket[KeyOf(call[t])]
    IN  \/ /\ UNCHANGED faults
           /\ IF ~KeyOf(call[t]).clean THEN Return(t, "invalid", None)
              ELSE IF p = None THEN Return(t, "missing", None)
              ELSE IF p # Garbled /\ p.size > MaxBytes THEN Return(t, "invalid", None)
              ELSE Use(p)
        \/ KeyOf(call[t]).clean /\ Fault /\ Return(t, "unavailable", None)

\* Mutant of Readback: the bytes are there, whatever they are.
ReadbackExists(t) ==
    /\ pc[t] = "readback"
    /\ GetBytes(t, LAMBDA p :
           IF call[t].op = "render" THEN Goto(t, "link") ELSE Return(t, "ok", None))
    /\ UNCHANGED <<scenario, bucket, links, call, disturbed, asks>>

\* A render goes on to its link.
Readback(t) ==
    /\ pc[t] = "readback"
    /\ GetBytes(t, LAMBDA p :
           IF p # call[t].payload THEN Return(t, "invalid", None)
           ELSE IF call[t].op = "render" THEN Goto(t, "link")
           ELSE Return(t, "ok", None))
    /\ UNCHANGED <<scenario, bucket, links, call, disturbed, asks>>

\* The digest of the bytes, and schema and rows of the table they hold, are
\* compared where the descriptor has them; web content and images are no tables.
Matches(c, p) ==
    \/ c.expect = None
    \/ /\ c.expect.digest \in {None, p}
       /\ c.op = "get" =>
            /\ p # Garbled /\ p.table # None
            /\ c.expect.table \in {None, p.table}

Get(t) ==
    /\ pc[t] = "get"
    /\ GetBytes(t, LAMBDA p :
           IF ~Matches(call[t], p) THEN Return(t, "invalid", None)
           ELSE IF call[t].op = "refresh" THEN Goto(t, "link")
           ELSE Return(t, "ok", p))
    /\ UNCHANGED <<scenario, bucket, links, call, disturbed, asks>>

\* Deleting what is not there succeeds.
Delete(t) ==
    /\ pc[t] = "delete"
    /\ \/ Change(KeyOf(call[t]), None, t) /\ Return(t, "ok", None) /\ UNCHANGED faults
       \/ Fault /\ Change(KeyOf(call[t]), None, t) /\ Return(t, "unavailable", None)
       \/ Fault /\ Return(t, "unavailable", None) /\ UNCHANGED <<bucket, disturbed>>
    /\ UNCHANGED <<scenario, links, call, asks>>

\* A link is signed without a look at the object.
Link(t) ==
    LET c == call[t]
        method == IF c.op = "presign_put" THEN "PUT" ELSE "GET"
    IN  /\ pc[t] = "link"
        /\ \/ /\ links' = links \cup {[method |-> method, key |-> KeyOf(c),
                                       tenant |-> c.tenant]}
              /\ Return(t, "ok", None) /\ UNCHANGED faults
           \/ Fault /\ Return(t, "unavailable", None) /\ UNCHANGED links
        /\ UNCHANGED <<scenario, bucket, call, disturbed, asks>>

StoreStep(t) == Put(t) \/ Readback(t) \/ Get(t) \/ Delete(t) \/ Link(t)

(***************************************************************************)
(* Outside                                                                 *)
(***************************************************************************)
\* Whoever holds a PUT link stores what it likes, of any size.
Upload(l, p) ==
    /\ l.method = "PUT" /\ bucket[l.key] # p
    /\ Change(l.key, p, None)
    /\ UNCHANGED <<scenario, links, pc, call, answer, asks, faults>>

\* ARTIFACT_PRESIGN_SECONDS
Expire(l) ==
    /\ links' = links \ {l}
    /\ UNCHANGED <<scenario, bucket, pc, call, answer, disturbed, asks, faults>>

Lose(k) ==
    /\ bucket[k] # None /\ Fault
    /\ Change(k, None, None)
    /\ UNCHANGED <<scenario, links, pc, call, answer, asks>>

Outside ==
    \/ \E l \in links : Expire(l) \/ \E p \in Payloads : Upload(l, p)
    \/ \E k \in Keys : Lose(k)

(***************************************************************************)
(* Properties                                                              *)
(***************************************************************************)
\* An object that is named by its digest is the payload with that digest: no
\* operation, whoever calls it, puts other bytes there.
NamedByDigest ==
    \A k \in Keys : k.digest # None => bucket[k] \in {None, Garbled, k.digest}

\* The bytes of a reader are what its descriptor names, though the object may
\* have been written again since, and they are its tenant's.
ReadsTrue ==
    \A t \in Threads : answer[t].outcome = "ok" /\ call[t].op \in Reads =>
        /\ KeyOf(call[t]).tenant = call[t].tenant
        /\ call[t].op # "refresh" => Matches(call[t], answer[t].bytes)

\* An object that was published is in the bucket as it was sent, whatever the
\* storage service acknowledged, until somebody else writes or deletes it.
PublishedTrue ==
    \A t \in Threads : answer[t].outcome = "ok" /\ call[t].op \in ContentWrites =>
        t \in disturbed \/ bucket[KeyOf(call[t])] = call[t].payload

\* A link opens an object of the tenant that asked for it.
LinksTrue == \A l \in links : l.key.tenant = l.tenant

StoreSound == NamedByDigest /\ ReadsTrue /\ PublishedTrue /\ LinksTrue
=============================================================================
