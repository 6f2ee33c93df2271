--------------------------- MODULE ServicesProofs ---------------------------
(***************************************************************************)
(* Proofs about the two services.  LayoutService implements LayoutContract,*)
(* for any threads, processes, releases and requests, any size of the      *)
(* memory caches, and any number of outages, days and releases.  In        *)
(* RenderService and the ArtifactStore below it, what is read is what its  *)
(* descriptor says, what is published is what its key says, links stay     *)
(* within a tenant, and only drawings are published.  In the processes     *)
(* that run both, all of it holds together.                                *)
(***************************************************************************)
EXTENDS Services, SequenceTheorems, WellFoundedInduction, TLAPS

(***************************************************************************)
(* Part one: LayoutService                                                 *)
(***************************************************************************)

(***************************************************************************)
(* The strengthening                                                       *)
(***************************************************************************)
LayoutPositions ==
    {"idle", "body", "get", "getmemory", "got", "graphviz", "set", "setmemory", "answer"}
LaidOut == {Computed[rv].payload : rv \in DOMAIN Computed}

\* What a cache may hold: a key with the payload that is computed for it.
Entries == [key : {Computed[rv].key : rv \in DOMAIN Computed}, value : LaidOut, expires : Int]
True(entry) ==
    \E rv \in DOMAIN Computed :
        entry.key = Computed[rv].key /\ entry.value = Computed[rv].payload
TrueEntries == {entry \in Entries : True(entry)}

ThreadTypes ==
    /\ scenario \in Scenarios
    /\ pc \in [Threads -> LayoutPositions]
    /\ req \in [Threads -> AllRequests \cup {Unset}]
    /\ reply \in [Threads -> Replies \cup {Unset}]
    /\ left \in [Threads -> 0..2]
    /\ held \in [Threads -> LaidOut \cup {Unset}]
    /\ version \in [Procs -> Versions]
CacheTypes ==
    /\ memory \in [Procs -> Seq(TrueEntries)]
    /\ valkey \subseteq TrueEntries
    /\ day \in Int

\* A thread that serves has a request and no answer; past its admission the
\* request is one that can be laid out.
Attends(t) ==
    /\ Busy(t) => req[t] # Unset /\ reply[t] = Unset
    /\ ~Busy(t) => (req[t] = Unset) = (reply[t] = Unset)
    /\ pc[t] \notin {"idle", "body"} => Served(req[t])

\* It holds nothing, or the layout of its request by the release it runs.
Holds(t) ==
    /\ pc[t] = "got" => held[t] \in {Unset, PayloadOf(t)}
    /\ pc[t] \in {"set", "setmemory", "answer"} => held[t] = PayloadOf(t) /\ ~req[t].big

\* The memory of a process stays within its bound and has a key once.
KeysDistinct(entries) ==
    \A i, j \in DOMAIN entries : entries[i].key = entries[j].key => i = j
Bounded(entries) == Len(entries) <= MaxEntries /\ KeysDistinct(entries)

ThreadsSound == ThreadTypes /\ \A t \in Threads : Attends(t) /\ Holds(t)
MemoriesSound == CacheTypes /\ \A p \in Procs : Bounded(memory[p])
LayoutInv == ThreadsSound /\ MemoriesSound

(***************************************************************************)
(* Keys and payloads                                                       *)
(***************************************************************************)
\* The pairs that are laid out, and what is computed for each of them.
LEMMA ComputedDomain == DOMAIN Computed = {r \in AllRequests : Served(r)} \X Versions
  BY DEF Computed

\* The entry of a request and a release.
LEMMA ComputedValue ==
    ASSUME NEW r \in AllRequests, Served(r), NEW v \in Versions
    PROVE  /\ <<r, v>> \in DOMAIN Computed
           /\ Computed[<<r, v>>] = [key |-> CacheKey(r, v), payload |-> Encode(r, v)]
  BY DEF Computed

\* Every entry is that of a request and a release.
LEMMA ComputedPairs ==
    ASSUME NEW rv \in DOMAIN Computed
    PROVE  \E r \in AllRequests, v \in Versions :
               /\ Served(r) /\ rv = <<r, v>>
               /\ Computed[rv].key = CacheKey(r, v) /\ Computed[rv].payload = Encode(r, v)
<1>1. PICK r \in {x \in AllRequests : Served(x)}, v \in Versions : rv = <<r, v>>
  BY ComputedDomain
<1>2. Computed[rv] = [key |-> CacheKey(r, v), payload |-> Encode(r, v)]
  BY <1>1, ComputedValue
<1>3. Computed[rv].key = CacheKey(r, v) /\ Computed[rv].payload = Encode(r, v)
  BY <1>2
<1>4. QED  BY <1>1, <1>3

\* The digest covers everything the payload is made of.
LEMMA DigestDetermines ==
    ASSUME NEW r, NEW v, NEW q, NEW w, CacheKey(r, v) = CacheKey(q, w)
    PROVE  Encode(r, v) = Encode(q, w)
  BY DEF CacheKey, Encode, DigestInput

\* Two pairs with one key have one payload.
LEMMA SameKeySamePayload ==
    ASSUME NEW rv \in DOMAIN Computed, NEW qw \in DOMAIN Computed,
           Computed[rv].key = Computed[qw].key
    PROVE  Computed[rv].payload = Computed[qw].payload
<1>1. PICK r \in AllRequests, v \in Versions :
          Computed[rv].key = CacheKey(r, v) /\ Computed[rv].payload = Encode(r, v)
  BY ComputedPairs
<1>2. PICK q \in AllRequests, w \in Versions :
          Computed[qw].key = CacheKey(q, w) /\ Computed[qw].payload = Encode(q, w)
  BY ComputedPairs
<1>3. CacheKey(r, v) = CacheKey(q, w)
  BY <1>1, <1>2
<1>4. Encode(r, v) = Encode(q, w)
  BY <1>3, DigestDetermines
<1>5. QED  BY <1>1, <1>2, <1>4

\* A hit is the layout that would have been computed.
LEMMA HitIsPayload ==
    ASSUME NEW entry \in TrueEntries, NEW rv \in DOMAIN Computed,
           entry.key = Computed[rv].key
    PROVE  entry.value = Computed[rv].payload
<1>1. PICK qw \in DOMAIN Computed :
          entry.key = Computed[qw].key /\ entry.value = Computed[qw].payload
  BY DEF TrueEntries, True
<1>2. QED  BY <1>1, SameKeySamePayload

\* The key of an entry carries the digest of its payload.
LEMMA EntryDigest ==
    ASSUME NEW entry \in TrueEntries
    PROVE  entry.key[2] = entry.value.input_digest
<1>1. PICK rv \in DOMAIN Computed :
          entry.key = Computed[rv].key /\ entry.value = Computed[rv].payload
  BY DEF TrueEntries, True
<1>2. PICK r \in AllRequests, v \in Versions :
          Computed[rv].key = CacheKey(r, v) /\ Computed[rv].payload = Encode(r, v)
  BY ComputedPairs
<1>3. entry.key = CacheKey(r, v) /\ entry.value = Encode(r, v)
  BY <1>1, <1>2
<1>4. QED  BY <1>3 DEF CacheKey, Encode

(***************************************************************************)
(* The sequence of a memory cache                                          *)
(***************************************************************************)
\* Min is the least element of a set of naturals.
LEMMA LeastIn ==
    ASSUME NEW S, S # {}, S \subseteq Nat
    PROVE  Min(S) \in S /\ \A y \in S : Min(S) <= y
<1>1. \E x \in S : \A y \in S : ~ (<<y, x>> \in OpToRel(<, Nat))
  BY NatLessThanWellFounded, WFMin
<1>2. PICK x \in S : \A y \in S : ~ (y < x)
  BY <1>1 DEF OpToRel
<1>3. \A y \in S : x <= y
  BY <1>2
<1>4. QED  BY <1>3 DEF Min

\* The position of a key is 0, or an index at which it stands.
LEMMA PositionFinds ==
    ASSUME NEW S, NEW entries \in Seq(S), NEW key
    PROVE  /\ Position(entries, key) \in 0..Len(entries)
           /\ Position(entries, key) # 0 => entries[Position(entries, key)].key = key
           /\ Position(entries, key) = 0 =>
                  \A i \in 1..Len(entries) : entries[i].key # key
<1> DEFINE I == {i \in 1..Len(entries) : entries[i].key = key}
<1>1. Position(entries, key) = IF I # {} THEN Min(I) ELSE 0
  BY DEF Position, SelectInSeq
<1>2. I \subseteq Nat /\ Len(entries) \in Nat
  OBVIOUS
<1>3. I # {} => Min(I) \in I
  BY <1>2, LeastIn
<1>4. QED  BY <1>1, <1>2, <1>3

\* Drop takes one element away and keeps the order of the others.
LEMMA DropType ==
    ASSUME NEW S, NEW entries \in Seq(S), NEW i \in 0..Len(entries)
    PROVE  /\ Drop(entries, i) \in Seq(S)
           /\ Len(Drop(entries, i)) = Len(entries) - (IF i = 0 THEN 0 ELSE 1)
           /\ \A j \in 1..Len(Drop(entries, i)) :
                  Drop(entries, i)[j] = entries[IF i = 0 \/ j < i THEN j ELSE j + 1]
<1>1. CASE i = 0
  BY <1>1 DEF Drop
<1>2. CASE i # 0
  <2> DEFINE a == SubSeq(entries, 1, i - 1)
             b == SubSeq(entries, i + 1, Len(entries))
  <2>1. i \in 1..Len(entries) /\ Len(entries) \in Nat
    BY <1>2
  <2>2. a \in Seq(S) /\ Len(a) = i - 1 /\ \A j \in 1..(i - 1) : a[j] = entries[j]
    BY <2>1, SubSeqProperties
  <2>3. /\ b \in Seq(S) /\ Len(b) = Len(entries) - i
        /\ \A j \in 1..(Len(entries) - i) : b[j] = entries[i + j]
    BY <2>1, SubSeqProperties
  <2>4. Drop(entries, i) = a \o b
    BY <1>2 DEF Drop, RemoveAt
  <2> HIDE DEF a, b
  <2>5. /\ a \o b \in Seq(S) /\ Len(a \o b) = Len(entries) - 1
        /\ \A j \in 1..(Len(entries) - 1) :
              (a \o b)[j] = IF j <= i - 1 THEN a[j] ELSE b[j - (i - 1)]
    <3>1. /\ a \o b \in Seq(S) /\ Len(a \o b) = Len(a) + Len(b)
          /\ \A j \in 1..(Len(a) + Len(b)) :
                 (a \o b)[j] = IF j <= Len(a) THEN a[j] ELSE b[j - Len(a)]
      BY <2>2, <2>3, ConcatProperties
    <3>2. Len(a) + Len(b) = Len(entries) - 1
      BY <2>1, <2>2, <2>3
    <3>3. QED  BY <2>2, <3>1, <3>2
  <2>6. ASSUME NEW j \in 1..(Len(entries) - 1)
        PROVE  (a \o b)[j] = entries[IF j < i THEN j ELSE j + 1]
    <3>1. CASE j < i
      <4>1. j \in 1..(i - 1)
        BY <2>1, <3>1
      <4>2. QED  BY <2>2, <2>5, <3>1, <4>1
    <3>2. CASE ~(j < i)
      <4>1. j - (i - 1) \in 1..(Len(entries) - i) /\ i + (j - (i - 1)) = j + 1 /\ ~(j <= i - 1)
        BY <2>1, <3>2
      <4>2. (a \o b)[j] = b[j - (i - 1)]
        BY <2>5, <4>1
      <4>3. QED  BY <2>3, <3>2, <4>1, <4>2
    <3>3. QED  BY <3>1, <3>2
  <2>7. QED  BY <2>1, <2>4, <2>5, <2>6, <1>2
<1>3. QED  BY <1>1, <1>2

\* Without the entry of a key, no other one has it.
LEMMA DropKey ==
    ASSUME NEW S, NEW entries \in Seq(S), NEW key, KeysDistinct(entries),
           NEW rest, rest = Drop(entries, Position(entries, key))
    PROVE  /\ rest \in Seq(S) /\ Len(rest) <= Len(entries) /\ KeysDistinct(rest)
           /\ Position(entries, key) # 0 => Len(rest) < Len(entries)
           /\ \A j \in 1..Len(rest) : rest[j].key # key
<1> DEFINE i == Position(entries, key)
<1>1. /\ i \in 0..Len(entries)
      /\ i # 0 => entries[i].key = key
      /\ i = 0 => \A j \in 1..Len(entries) : entries[j].key # key
  BY PositionFinds
<1>2. /\ rest \in Seq(S)
      /\ Len(rest) = Len(entries) - (IF i = 0 THEN 0 ELSE 1)
      /\ \A j \in 1..Len(rest) : rest[j] = entries[IF i = 0 \/ j < i THEN j ELSE j + 1]
  BY <1>1, DropType
<1> HIDE DEF i
<1>3. CASE i = 0
  <2>1. /\ Len(rest) = Len(entries) /\ Len(entries) \in Nat
        /\ \A j \in 1..Len(rest) : rest[j] = entries[j]
    BY <1>2, <1>3
  <2>2. KeysDistinct(rest)
    BY <1>2, <2>1 DEF KeysDistinct
  <2>3. \A j \in 1..Len(rest) : rest[j].key # key
    BY <1>1, <1>3, <2>1
  <2>4. QED  BY <1>2, <1>3, <2>1, <2>2, <2>3 DEF i
<1>4. CASE i # 0
  <2>1. /\ i \in 1..Len(entries) /\ Len(entries) \in Nat
        /\ entries[i].key = key /\ Len(rest) = Len(entries) - 1
        /\ \A j \in 1..(Len(entries) - 1) : rest[j] = entries[IF j < i THEN j ELSE j + 1]
    BY <1>1, <1>2, <1>4
  <2>2. DOMAIN entries = 1..Len(entries) /\ DOMAIN rest = 1..(Len(entries) - 1)
    BY <1>2, <2>1
  <2>3. KeysDistinct(rest)
    <3> SUFFICES ASSUME NEW j \in 1..(Len(entries) - 1), NEW k \in 1..(Len(entries) - 1),
                        rest[j].key = rest[k].key
                 PROVE  j = k
      BY <2>2 DEF KeysDistinct
    <3> DEFINE J == IF j < i THEN j ELSE j + 1
               K == IF k < i THEN k ELSE k + 1
    <3>1. J \in DOMAIN entries /\ K \in DOMAIN entries
      BY <2>1, <2>2
    <3>2. entries[J].key = entries[K].key
      BY <2>1
    <3>3. J = K
      BY <3>1, <3>2 DEF KeysDistinct
    <3>4. QED  BY <2>1, <3>3
  <2>4. ASSUME NEW j \in 1..(Len(entries) - 1), rest[j].key = key
        PROVE  FALSE
    <3> DEFINE J == IF j < i THEN j ELSE j + 1
    <3>1. J \in DOMAIN entries /\ i \in DOMAIN entries /\ J # i
      BY <2>1, <2>2
    <3>2. entries[J].key = entries[i].key
      BY <2>1, <2>4
    <3>3. QED  BY <3>1, <3>2 DEF KeysDistinct
  <2>5. QED  BY <1>2, <2>1, <2>3, <2>4
<1>5. QED  BY <1>3, <1>4

\* An entry with a new key may be appended.
LEMMA AppendKey ==
    ASSUME NEW S, NEW entries \in Seq(S), KeysDistinct(entries), NEW entry \in S,
           \A j \in 1..Len(entries) : entries[j].key # entry.key
    PROVE  /\ Append(entries, entry) \in Seq(S) /\ KeysDistinct(Append(entries, entry))
           /\ Len(Append(entries, entry)) = Len(entries) + 1
<1>1. /\ Append(entries, entry) \in Seq(S)
      /\ Len(Append(entries, entry)) = Len(entries) + 1
      /\ \A j \in 1..Len(entries) : Append(entries, entry)[j] = entries[j]
      /\ Append(entries, entry)[Len(entries) + 1] = entry
      /\ Len(entries) \in Nat /\ DOMAIN entries = 1..Len(entries)
  BY AppendProperties
<1>2. DOMAIN Append(entries, entry) = 1..(Len(entries) + 1)
  BY <1>1
<1>3. KeysDistinct(Append(entries, entry))
  BY <1>1, <1>2 DEF KeysDistinct
<1>4. QED  BY <1>1, <1>3

\* Without its first entry a sequence still has a key once.
LEMMA TailKeys ==
    ASSUME NEW S, NEW entries \in Seq(S), entries # <<>>, KeysDistinct(entries)
    PROVE  Tail(entries) \in Seq(S) /\ KeysDistinct(Tail(entries))
           /\ Len(Tail(entries)) = Len(entries) - 1
<1>1. /\ Tail(entries) \in Seq(S) /\ Len(Tail(entries)) = Len(entries) - 1
      /\ \A j \in 1..Len(Tail(entries)) : Tail(entries)[j] = entries[j + 1]
  BY HeadTailProperties
<1>2. /\ DOMAIN entries = 1..Len(entries) /\ DOMAIN Tail(entries) = 1..(Len(entries) - 1)
      /\ Len(entries) \in Nat
  BY <1>1
<1>3. KeysDistinct(Tail(entries))
  BY <1>1, <1>2 DEF KeysDistinct
<1>4. QED  BY <1>1, <1>3

\* Storing keeps the bound, whatever it is.
LEMMA StoreBounded ==
    ASSUME NEW S, NEW entries \in Seq(S), Bounded(entries), NEW entry \in S
    PROVE  Store(entries, entry) \in Seq(S) /\ Bounded(Store(entries, entry))
<1> DEFINE rest == Drop(entries, Position(entries, entry.key))
           all == Append(rest, entry)
<1>1. /\ rest \in Seq(S) /\ Len(rest) <= Len(entries) /\ KeysDistinct(rest)
      /\ \A j \in 1..Len(rest) : rest[j].key # entry.key
  BY DropKey DEF Bounded
<1> HIDE DEF rest
<1>2. all \in Seq(S) /\ KeysDistinct(all) /\ Len(all) = Len(rest) + 1
  BY <1>1, AppendKey
<1>3. Len(all) <= MaxEntries + 1 /\ Len(all) \in Nat /\ MaxEntries \in Nat
  BY <1>1, <1>2, ConstantsAssumption DEF Bounded
<1>4. Store(entries, entry) = IF Len(all) > MaxEntries THEN Tail(all) ELSE all
  BY DEF Store, rest
<1> HIDE DEF all
<1>5. CASE Len(all) > MaxEntries
  <2>1. all # <<>>
    BY <1>3, <1>5
  <2>2. QED  BY <1>2, <1>3, <1>4, <1>5, <2>1, TailKeys DEF Bounded
<1>6. CASE ~(Len(all) > MaxEntries)
  BY <1>2, <1>3, <1>4, <1>6 DEF Bounded
<1>7. QED  BY <1>5, <1>6

\* A hit makes its entry the one that was used last.
LEMMA TouchBounded ==
    ASSUME NEW S, NEW entries \in Seq(S), Bounded(entries), NEW key,
           Position(entries, key) # 0,
           NEW rest, rest = Drop(entries, Position(entries, key)),
           NEW entry, entry = entries[Position(entries, key)]
    PROVE  /\ entry \in S /\ entry.key = key
           /\ rest \in Seq(S) /\ Bounded(rest)
           /\ Append(rest, entry) \in Seq(S) /\ Bounded(Append(rest, entry))
<1>1. Position(entries, key) \in 1..Len(entries) /\ entry.key = key /\ entry \in S
  BY PositionFinds
<1>2. /\ rest \in Seq(S) /\ Len(rest) < Len(entries) /\ KeysDistinct(rest)
      /\ \A j \in 1..Len(rest) : rest[j].key # entry.key
  BY <1>1, DropKey DEF Bounded
<1>3. /\ Append(rest, entry) \in Seq(S) /\ KeysDistinct(Append(rest, entry))
      /\ Len(Append(rest, entry)) = Len(rest) + 1
  BY <1>1, <1>2, AppendKey
<1>4. Len(rest) \in Nat /\ Len(entries) \in Nat /\ Len(entries) <= MaxEntries /\ MaxEntries \in Nat
  BY <1>2, ConstantsAssumption DEF Bounded
<1>5. QED  BY <1>1, <1>2, <1>3, <1>4 DEF Bounded

(***************************************************************************)
(* What a step of a serving thread does                                    *)
(***************************************************************************)
Statuses == {200, 400, 413, 422, 503, 504}

\* It answers as the contract allows, ...
Answering(t) ==
    \E status \in Statuses, body \in LaidOut \cup {Unset} :
        /\ Answer(t, status, body)
        /\ [status |-> status, body |-> body] \in Contract!Answers(t)

\* ... or goes on with a payload that is its own.
Working(t) ==
    \E label \in LayoutPositions \ {"idle", "body"}, payload \in LaidOut \cup {Unset} :
        /\ Hold(t, label, payload) /\ Served(req[t])
        /\ label = "got" => payload \in {Unset, PayloadOf(t)}
        /\ label \in {"set", "setmemory", "answer"} =>
               payload = PayloadOf(t) /\ ~req[t].big

ServeStep(t) ==
    \/ Admit(t) \/ Get(t) \/ GetMemory(t) \/ Got(t) \/ Timeout(t) \/ Fail(t)
    \/ Lay(t) \/ Set(t) \/ SetMemory(t) \/ Finish(t)

\* A thread past its admission has a request that is laid out.
LEMMA PayloadIs ==
    ASSUME ThreadsSound, NEW t \in Threads, Busy(t), Served(req[t])
    PROVE  /\ req[t] \in AllRequests
           /\ version[ProcOf[t]] \in Versions
           /\ <<req[t], version[ProcOf[t]]>> \in DOMAIN Computed
           /\ PayloadOf(t) \in LaidOut
<1>1. req[t] \in AllRequests
  BY DEF ThreadsSound, ThreadTypes, Attends
<1>2. version[ProcOf[t]] \in Versions
  BY ConstantsAssumption DEF ThreadsSound, ThreadTypes
<1>3. <<req[t], version[ProcOf[t]]>> \in DOMAIN Computed
  BY <1>1, <1>2, ComputedValue
<1>4. QED  BY <1>1, <1>2, <1>3 DEF PayloadOf, LaidOut

\* A refusal is one the contract allows: a timeout, what the request brought on
\* itself, or 503 when it brought on nothing.
LEMMA RefuseAnswers ==
    ASSUME NEW t \in Threads, NEW status \in Statuses, Refuse(t, status),
           left[t] # 0 => \/ status = 504 \/ status \in RefusalsOf(req[t])
                          \/ status = 503 /\ RefusalsOf(req[t]) = {}
    PROVE  Answering(t)
<1> DEFINE given == IF left[t] = 0 THEN 504 ELSE status
<1>1. Answer(t, given, Unset) /\ given \in Statuses
  BY DEF Refuse, Statuses
<1>2. [status |-> given, body |-> Unset] \in Contract!Answers(t)
  <2>1. CASE left[t] = 0
    BY <2>1 DEF Contract!Answers, Contract!Refuse
  <2>2. CASE left[t] # 0 /\ RefusalsOf(req[t]) # {}
    <3>1. given \in RefusalsOf(req[t]) \cup {504}
      BY <2>2
    <3>2. Contract!Answers(t) = Contract!Refuse(RefusalsOf(req[t]) \cup {504})
      BY <2>2 DEF Contract!Answers
    <3>3. QED  BY <3>1, <3>2 DEF Contract!Refuse
  <2>3. CASE left[t] # 0 /\ RefusalsOf(req[t]) = {}
    <3>1. given \in {503, 504}
      BY <2>3
    <3>2. Contract!Answers(t)
          = Contract!Refuse({503, 504})
            \cup {Contract!Serve(LayoutOf(req[t], version[ProcOf[t]]))}
      BY <2>3 DEF Contract!Answers
    <3>3. QED  BY <3>1, <3>2 DEF Contract!Refuse
  <2>4. QED  BY <2>1, <2>2, <2>3
<1>3. QED  BY <1>1, <1>2 DEF Answering

\* What the middleware answers before it looks at the time.
LEMMA RejectAnswers ==
    ASSUME NEW t \in Threads, NEW status \in {400, 413}, Answer(t, status, Unset),
           status \in RefusalsOf(req[t])
    PROVE  Answering(t)
<1>1. [status |-> status, body |-> Unset] \in Contract!Answers(t)
  <2>1. CASE left[t] = 0
    BY <2>1 DEF Contract!Answers, Contract!Refuse
  <2>2. CASE left[t] # 0
    BY <2>2 DEF Contract!Answers, Contract!Refuse
  <2>3. QED  BY <2>1, <2>2
<1>2. QED  BY <1>1 DEF Answering, Statuses

\* A payload that is the thread's own is a layout the contract allows.
LEMMA ServeAnswers ==
    ASSUME ThreadsSound, NEW t \in Threads, Busy(t), Served(req[t]), Serve(t),
           ~req[t].big, held[t] = PayloadOf(t)
    PROVE  Answering(t)
<1>1. PayloadOf(t) \in LaidOut
  BY PayloadIs
<1>2. CASE left[t] = 0
  <2>1. Refuse(t, 504)
    BY <1>2 DEF Serve, Refuse
  <2>2. QED  BY <2>1, <1>2, RefuseAnswers DEF Statuses
<1>3. CASE left[t] # 0
  <2>1. Answer(t, 200, PayloadOf(t))
    BY <1>3 DEF Serve
  <2>2. RefusalsOf(req[t]) = {}
    BY DEF RefusalsOf, Served, Wire
  <2>3. LayoutOf(req[t], version[ProcOf[t]]) = PayloadOf(t)
    BY DEF LayoutOf, PayloadOf
  <2>4. [status |-> 200, body |-> PayloadOf(t)] \in Contract!Answers(t)
    BY <1>3, <2>2, <2>3 DEF Contract!Answers, Contract!Refuse, Contract!Serve
  <2>5. QED  BY <1>1, <2>1, <2>4 DEF Answering, Statuses
<1>4. QED  BY <1>2, <1>3

\* A step that holds on to its payload is one that takes it up again.
LEMMA GotoHolds ==
    ASSUME ThreadsSound, NEW t \in Threads, NEW label, Goto(t, label)
    PROVE  Hold(t, label, held[t]) /\ held[t] \in LaidOut \cup {Unset}
  BY DEF ThreadsSound, ThreadTypes, Goto, Hold

(***************************************************************************)
(* Every step of a serving thread                                          *)
(***************************************************************************)
\* A step with its own payload is one of a working thread.
LEMMA HoldWorks ==
    ASSUME NEW t \in Threads, NEW label \in LayoutPositions \ {"idle", "body"},
           NEW payload \in LaidOut \cup {Unset}, Hold(t, label, payload), Served(req[t]),
           label = "got" => payload \in {Unset, PayloadOf(t)},
           label \in {"set", "setmemory", "answer"} => payload = PayloadOf(t) /\ ~req[t].big
    PROVE  Working(t)
  BY DEF Working

\* The middleware and compute_layout refuse what RefusalsOf says.
LEMMA AdmitServes ==
    ASSUME ThreadsSound, NEW t \in Threads, Admit(t)
    PROVE  Answering(t) \/ Working(t)
<1> DEFINE r == req[t]
<1>1. r \in AllRequests /\ r.wire \in Wires /\ pc[t] = "body" /\ left[t] \in 0..2
  BY ConstantsAssumption DEF ThreadsSound, ThreadTypes, Attends, Admit, Busy
<1>2. CASE r.wire = "length"
  <2>1. Answer(t, 413, Unset)
    BY <1>2 DEF Admit
  <2>2. 413 \in RefusalsOf(r)
    BY <1>2 DEF RefusalsOf, Wire
  <2>3. QED  BY <2>1, <2>2, RejectAnswers
<1>3. CASE r.wire = "unread"
  <2>1. Answer(t, 400, Unset)
    BY <1>3 DEF Admit
  <2>2. 400 \in RefusalsOf(r)
    BY <1>3 DEF RefusalsOf, Wire
  <2>3. QED  BY <2>1, <2>2, RejectAnswers
<1>4. CASE r.wire = "long"
  <2>1. Refuse(t, 413)
    BY <1>4 DEF Admit
  <2>2. 413 \in RefusalsOf(r)
    BY <1>4 DEF RefusalsOf, Wire
  <2>3. QED  BY <2>1, <2>2, RefuseAnswers DEF Statuses
<1>5. CASE r.wire = "mismatch"
  <2>1. Refuse(t, 400)
    BY <1>5 DEF Admit
  <2>2. 400 \in RefusalsOf(r)
    BY <1>5 DEF RefusalsOf, Wire
  <2>3. QED  BY <2>1, <2>2, RefuseAnswers DEF Statuses
<1>6. CASE r.wire = "ok" /\ left[t] = 0
  <2>1. Refuse(t, 504)
    BY <1>6 DEF Admit
  <2>2. QED  BY <2>1, RefuseAnswers DEF Statuses
<1>7. CASE r.wire = "ok" /\ left[t] > 0 /\ (~WellFormed(r) \/ ~PolicyAccepts(r))
  <2>1. Refuse(t, 422)
    <3>1. left[t] # 0
      BY <1>1, <1>7
    <3>2. CASE WellFormed(r)
      BY <1>7, <3>1, <3>2 DEF Admit
    <3>3. CASE ~WellFormed(r)
      BY <1>7, <3>1, <3>3 DEF Admit
    <3>4. QED  BY <3>2, <3>3
  <2>2. 422 \in RefusalsOf(r)
    BY <1>7 DEF RefusalsOf, Wire
  <2>3. QED  BY <2>1, <2>2, RefuseAnswers DEF Statuses
<1>8. CASE r.wire = "ok" /\ left[t] > 0 /\ WellFormed(r) /\ PolicyAccepts(r)
  <2>1. Goto(t, "get")
    <3>1. left[t] # 0
      BY <1>1, <1>8
    <3>2. QED  BY <1>8, <3>1 DEF Admit
  <2>2. Served(r)
    BY <1>8 DEF Served
  <2>3. QED  BY <2>1, <2>2, GotoHolds, HoldWorks DEF LayoutPositions
<1>9. left[t] = 0 \/ left[t] > 0
  BY <1>1
<1>10. QED  BY <1>1, <1>2, <1>3, <1>4, <1>5, <1>6, <1>7, <1>8, <1>9 DEF Wires

\* A hit in Valkey is the thread's own layout, ...
LEMMA ValkeyHit ==
    ASSUME LayoutInv, NEW t \in Threads, Busy(t), Served(req[t])
    PROVE  ValkeyGet(KeyOf(t)) \in {Unset, PayloadOf(t)}
<1> SUFFICES ASSUME \E x \in valkey : x.key = KeyOf(t)
             PROVE  ValkeyGet(KeyOf(t)) = PayloadOf(t)
  BY DEF ValkeyGet
<1> DEFINE hit == CHOOSE x \in valkey : x.key = KeyOf(t)
<1>1. hit \in valkey /\ hit.key = KeyOf(t)
  OBVIOUS
<1>2. hit \in TrueEntries
  BY <1>1 DEF LayoutInv, MemoriesSound, CacheTypes
<1>3. ValkeyGet(KeyOf(t)) = hit.value
  BY DEF ValkeyGet
<1> HIDE DEF hit
<1>4. hit.value = PayloadOf(t)
  BY <1>1, <1>2, PayloadIs, HitIsPayload DEF LayoutInv, KeyOf, PayloadOf
<1>5. QED  BY <1>3, <1>4

\* ... or in the memory of its process.
LEMMA MemoryHit ==
    ASSUME LayoutInv, NEW t \in Threads, Busy(t), Served(req[t]),
           NEW i, i = Position(memory[ProcOf[t]], KeyOf(t)), i # 0
    PROVE  memory[ProcOf[t]][i].value = PayloadOf(t)
<1>1. memory[ProcOf[t]] \in Seq(TrueEntries) /\ Bounded(memory[ProcOf[t]])
  BY ConstantsAssumption DEF LayoutInv, MemoriesSound, CacheTypes
<1>2. memory[ProcOf[t]][i] \in TrueEntries /\ memory[ProcOf[t]][i].key = KeyOf(t)
  BY <1>1, PositionFinds
<1>3. QED  BY <1>2, PayloadIs, HitIsPayload DEF LayoutInv, KeyOf, PayloadOf

\* get_cached_response hands out nothing, or the thread's own layout.
LEMMA LookupServes ==
    ASSUME LayoutInv, NEW t \in Threads, Get(t) \/ GetMemory(t)
    PROVE  Working(t)
<1>1. Busy(t) /\ Served(req[t]) /\ ThreadsSound
  BY DEF LayoutInv, ThreadsSound, Attends, Get, GetMemory, Busy
<1>2. PayloadOf(t) \in LaidOut
  BY <1>1, PayloadIs
<1>3. ASSUME NEW payload \in {Unset, PayloadOf(t)}, Hold(t, "got", payload)
      PROVE  Working(t)
  BY <1>1, <1>2, <1>3, HoldWorks DEF LayoutPositions
<1>4. CASE Get(t)
  <2>1. CASE Goto(t, "getmemory")
    BY <1>1, <2>1, GotoHolds, HoldWorks DEF LayoutPositions
  <2>2. CASE Hold(t, "got", Unset)
    BY <1>3, <2>2
  <2>3. CASE Hold(t, "got", ValkeyGet(KeyOf(t)))
    BY <1>1, <1>3, <2>3, ValkeyHit
  <2>4. QED  BY <1>4, <2>1, <2>2, <2>3 DEF Get
<1>5. CASE GetMemory(t)
  <2> DEFINE i == Position(memory[ProcOf[t]], KeyOf(t))
  <2>1. CASE Hold(t, "got", Unset)
    BY <1>3, <2>1
  <2>2. CASE Hold(t, "got", memory[ProcOf[t]][i].value) /\ i # 0
    BY <1>1, <1>3, <2>2, MemoryHit
  <2>3. QED  BY <1>5, <2>1, <2>2 DEF GetMemory
<1>6. QED  BY <1>4, <1>5

\* compute_layout answers from the cache or starts Graphviz, which may fail.
LEMMA ComputeServes ==
    ASSUME LayoutInv, NEW t \in Threads, Got(t) \/ Timeout(t) \/ Fail(t) \/ Lay(t)
    PROVE  Answering(t) \/ Working(t)
<1>1. Busy(t) /\ Served(req[t]) /\ ThreadsSound
  BY DEF LayoutInv, ThreadsSound, Attends, Got, Timeout, Fail, Lay, Busy
<1>2. RefusalsOf(req[t]) = IF req[t].big THEN {503} ELSE {}
  BY <1>1 DEF RefusalsOf, Served, Wire
<1>3. Refuse(t, 504) => Answering(t)
  BY RefuseAnswers DEF Statuses
<1>4. Refuse(t, 503) => Answering(t)
  BY <1>2, RefuseAnswers DEF Statuses
<1>5. CASE Got(t)
  <2>1. CASE Goto(t, "graphviz")
    BY <1>1, <2>1, GotoHolds, HoldWorks DEF LayoutPositions
  <2>2. CASE Serve(t) /\ held[t] # Unset /\ ~req[t].big
    <3>1. held[t] = PayloadOf(t)
      BY <1>5, <2>2 DEF Got, LayoutInv, ThreadsSound, Holds
    <3>2. QED  BY <1>1, <2>2, <3>1, ServeAnswers
  <2>3. QED  BY <1>3, <1>4, <1>5, <2>1, <2>2 DEF Got
<1>6. CASE Timeout(t)
  BY <1>3, <1>6 DEF Timeout
<1>7. CASE Fail(t)
  BY <1>4, <1>7 DEF Fail
<1>8. CASE Lay(t)
  <2>1. CASE Hold(t, "set", PayloadOf(t)) /\ ~req[t].big
    BY <1>1, <2>1, PayloadIs, HoldWorks DEF LayoutPositions
  <2>2. QED  BY <1>3, <1>4, <1>8, <2>1 DEF Lay
<1>9. QED  BY <1>5, <1>6, <1>7, <1>8

\* set_cached_response changes nothing of the answer.
LEMMA StoreServes ==
    ASSUME LayoutInv, NEW t \in Threads, Set(t) \/ SetMemory(t) \/ Finish(t)
    PROVE  Answering(t) \/ Working(t)
<1>1. /\ Busy(t) /\ Served(req[t]) /\ ThreadsSound
      /\ held[t] = PayloadOf(t) /\ ~req[t].big
  BY DEF LayoutInv, ThreadsSound, Attends, Holds, Set, SetMemory, Finish, Busy
<1>2. ASSUME NEW label \in {"answer", "setmemory"}, Goto(t, label)
      PROVE  Working(t)
  BY <1>1, <1>2, GotoHolds, HoldWorks DEF LayoutPositions
<1>3. QED  BY <1>1, <1>2, ServeAnswers DEF Set, SetMemory, Finish

\* Every step of a serving thread answers or works.
LEMMA Serves ==
    ASSUME LayoutInv, NEW t \in Threads, ServeStep(t)
    PROVE  /\ Busy(t) /\ (Answering(t) \/ Working(t))
           /\ UNCHANGED <<req, left, scenario, version>>
<1>1. Busy(t)
  BY DEF ServeStep, Busy, Admit, Get, GetMemory, Got, Timeout, Fail, Lay, Set, SetMemory, Finish
<1>2. Answering(t) \/ Working(t)
  BY AdmitServes, LookupServes, ComputeServes, StoreServes DEF ServeStep, LayoutInv
<1>3. UNCHANGED <<req, left, scenario, version>>
  BY DEF ServeStep, envVars, Admit, Get, GetMemory, Got, Timeout, Fail, Lay, Set, SetMemory,
         Finish
<1>4. QED  BY <1>1, <1>2, <1>3

(***************************************************************************)
(* The threads stay sound                                                  *)
(***************************************************************************)
\* Nothing happens to a thread whose process and variables stay as they are.
LEMMA ThreadFrame ==
    ASSUME NEW t \in Threads, Attends(t), Holds(t), pc'[t] = pc[t], req'[t] = req[t],
           reply'[t] = reply[t], held'[t] = held[t],
           version'[ProcOf[t]] = version[ProcOf[t]]
    PROVE  Attends(t)' /\ Holds(t)'
  BY DEF Attends, Holds, Busy, PayloadOf

\* Every answer is a reply.
LEMMA ReplyType ==
    ASSUME NEW status \in Statuses, NEW body \in LaidOut \cup {Unset}
    PROVE  [status |-> status, body |-> body] \in Replies \ {Unset}
  BY ConstantsAssumption DEF Replies, Statuses, LaidOut

\* A thread that answers is idle and holds nothing.
LEMMA AnsweringSound ==
    ASSUME ThreadsSound, NEW t \in Threads, Busy(t), Answering(t),
           UNCHANGED <<req, left, scenario, version>>
    PROVE  ThreadsSound'
<1>1. PICK status \in Statuses, body \in LaidOut \cup {Unset} : Answer(t, status, body)
  BY DEF Answering
<1>2. [status |-> status, body |-> body] \in Replies \ {Unset}
  BY ReplyType
<1>3. ThreadTypes'
  BY <1>1, <1>2 DEF Answer, ThreadsSound, ThreadTypes, LayoutPositions
<1>4. Attends(t)' /\ Holds(t)'
  <2>1. pc'[t] = "idle" /\ reply'[t] # Unset /\ req'[t] # Unset
    BY <1>1, <1>2 DEF Answer, ThreadsSound, ThreadTypes, Attends
  <2>2. QED  BY <2>1 DEF Attends, Holds, Busy
<1>5. ASSUME NEW u \in Threads, u # t
      PROVE  Attends(u)' /\ Holds(u)'
  <2>1. pc'[u] = pc[u] /\ reply'[u] = reply[u] /\ held'[u] = held[u]
    BY <1>1, <1>5 DEF Answer, ThreadsSound, ThreadTypes
  <2>2. QED  BY <2>1, ThreadFrame DEF ThreadsSound
<1>6. QED  BY <1>3, <1>4, <1>5 DEF ThreadsSound

\* A thread that works holds what its position says.
LEMMA WorkingSound ==
    ASSUME ThreadsSound, NEW t \in Threads, Busy(t), Working(t),
           UNCHANGED <<req, left, scenario, version>>
    PROVE  ThreadsSound'
<1>1. PICK label \in LayoutPositions \ {"idle", "body"}, payload \in LaidOut \cup {Unset} :
          /\ Hold(t, label, payload) /\ Served(req[t])
          /\ label = "got" => payload \in {Unset, PayloadOf(t)}
          /\ label \in {"set", "setmemory", "answer"} =>
                 payload = PayloadOf(t) /\ ~req[t].big
  BY DEF Working
<1>2. ThreadTypes'
  BY <1>1 DEF Hold, ThreadsSound, ThreadTypes
<1>3. Attends(t)' /\ Holds(t)'
  <2>1. /\ pc'[t] = label /\ held'[t] = payload /\ reply'[t] = reply[t]
        /\ req'[t] = req[t] /\ version' = version
    BY <1>1 DEF Hold, ThreadsSound, ThreadTypes
  <2>2. req[t] # Unset /\ reply[t] = Unset
    BY DEF ThreadsSound, Attends
  <2>3. PayloadOf(t)' = PayloadOf(t)
    BY <2>1 DEF PayloadOf
  <2>4. QED  BY <1>1, <2>1, <2>2, <2>3 DEF Attends, Holds, Busy
<1>4. ASSUME NEW u \in Threads, u # t
      PROVE  Attends(u)' /\ Holds(u)'
  <2>1. pc'[u] = pc[u] /\ reply'[u] = reply[u] /\ held'[u] = held[u]
    BY <1>1, <1>4 DEF Hold, ThreadsSound, ThreadTypes
  <2>2. QED  BY <2>1, ThreadFrame DEF ThreadsSound
<1>5. QED  BY <1>2, <1>3, <1>4 DEF ThreadsSound

\* A thread takes up a request.
LEMMA ReceiveSound ==
    ASSUME ThreadsSound, NEW t \in Threads, NEW r \in scenario.requests, Receive(t, r)
    PROVE  ThreadsSound' /\ r \in AllRequests
<1>1. r \in AllRequests /\ r # Unset
  BY ConstantsAssumption DEF ThreadsSound, ThreadTypes, AllRequests
<1>2. ThreadTypes'
  BY <1>1 DEF Receive, ThreadsSound, ThreadTypes, LayoutPositions
<1>3. Attends(t)' /\ Holds(t)'
  <2>1. pc'[t] = "body" /\ req'[t] = r /\ reply'[t] = Unset
    BY DEF Receive, ThreadsSound, ThreadTypes
  <2>2. QED  BY <1>1, <2>1 DEF Attends, Holds, Busy
<1>4. ASSUME NEW u \in Threads, u # t
      PROVE  Attends(u)' /\ Holds(u)'
  <2>1. /\ pc'[u] = pc[u] /\ reply'[u] = reply[u] /\ held'[u] = held[u]
        /\ req'[u] = req[u] /\ version' = version
    BY <1>4 DEF Receive, ThreadsSound, ThreadTypes
  <2>2. QED  BY <2>1, ThreadFrame DEF ThreadsSound
<1>5. QED  BY <1>1, <1>2, <1>3, <1>4 DEF ThreadsSound

\* The threads of a replaced process are idle.
LEMMA ReleaseSound ==
    ASSUME ThreadsSound, NEW p \in Procs, NEW v \in Versions, Release(p, v)
    PROVE  ThreadsSound'
<1>1. ThreadTypes'
  BY DEF Release, ThreadsSound, ThreadTypes, LayoutPositions
<1>2. ASSUME NEW t \in Threads
      PROVE  Attends(t)' /\ Holds(t)'
  <2>1. CASE ProcOf[t] = p
    <3>1. pc'[t] = "idle" /\ req'[t] = Unset /\ reply'[t] = Unset
      BY <2>1 DEF Release
    <3>2. QED  BY <3>1 DEF Attends, Holds, Busy
  <2>2. CASE ProcOf[t] # p
    <3>1. /\ pc'[t] = pc[t] /\ req'[t] = req[t] /\ reply'[t] = reply[t] /\ held'[t] = held[t]
          /\ version'[ProcOf[t]] = version[ProcOf[t]]
      BY <2>2, ConstantsAssumption DEF Release, ThreadsSound, ThreadTypes
    <3>2. QED  BY <3>1, ThreadFrame DEF ThreadsSound
  <2>3. QED  BY <2>1, <2>2
<1>3. QED  BY <1>1, <1>2 DEF ThreadsSound

\* Steps of the environment leave the threads alone.
LEMMA QuietSound ==
    ASSUME ThreadsSound, UNCHANGED <<scenario, pc, req, reply, held, version>>,
           left' \in [Threads -> 0..2]
    PROVE  ThreadsSound'
<1>1. ThreadTypes'
  BY DEF ThreadsSound, ThreadTypes
<1>2. QED  BY <1>1, ThreadFrame DEF ThreadsSound

\* The actions of Next, as the proofs go through them.
LEMMA NextCases ==
    ASSUME [Next]_vars
    PROVE  \/ \E t \in Threads : \E r \in scenario.requests : Receive(t, r)
           \/ \E t \in Threads : Elapse(t)
           \/ \E t \in Threads : ServeStep(t)
           \/ \E p \in Procs, v \in Versions : Release(p, v)
           \/ Toggle \/ NextDay \/ UNCHANGED vars
  BY DEF Next, ServeStep

\* Every step keeps the threads sound.
LEMMA ThreadsStep ==
    ASSUME LayoutInv, [Next]_vars
    PROVE  ThreadsSound'
<1> USE DEF LayoutInv
<1>1. CASE \E t \in Threads : \E r \in scenario.requests : Receive(t, r)
  BY <1>1, ReceiveSound
<1>2. CASE \E t \in Threads : Elapse(t)
  <2>1. left' \in [Threads -> 0..2]
    BY <1>2 DEF Elapse, ThreadsSound, ThreadTypes
  <2>2. UNCHANGED <<scenario, pc, req, reply, held, version>>
    BY <1>2 DEF Elapse, envVars
  <2>3. QED  BY <2>1, <2>2, QuietSound
<1>3. CASE \E t \in Threads : ServeStep(t)
  BY <1>3, Serves, AnsweringSound, WorkingSound
<1>4. CASE \E p \in Procs, v \in Versions : Release(p, v)
  BY <1>4, ReleaseSound
<1>5. CASE Toggle \/ NextDay \/ UNCHANGED vars
  <2>1. UNCHANGED <<scenario, pc, req, reply, left, held, version>>
    BY <1>5 DEF Toggle, NextDay, vars
  <2>2. QED  BY <2>1, QuietSound DEF ThreadsSound, ThreadTypes
<1>6. QED  BY <1>1, <1>2, <1>3, <1>4, <1>5, NextCases

(***************************************************************************)
(* The caches stay sound                                                   *)
(***************************************************************************)
\* What a thread stores is true.
LEMMA EntryTrue ==
    ASSUME LayoutInv, NEW t \in Threads, pc[t] \in {"set", "setmemory"}
    PROVE  Entry(t) \in TrueEntries
<1>1. Busy(t) /\ Served(req[t]) /\ held[t] = PayloadOf(t) /\ ThreadsSound
  BY DEF LayoutInv, ThreadsSound, Attends, Holds, Busy
<1>2. <<req[t], version[ProcOf[t]]>> \in DOMAIN Computed
  BY <1>1, PayloadIs
<1>3. day + 1 \in Int
  BY DEF LayoutInv, MemoriesSound, CacheTypes
<1>4. QED  BY <1>1, <1>2, <1>3 DEF Entry, KeyOf, PayloadOf, TrueEntries, True, Entries, LaidOut

\* Valkey holds true entries.
LEMMA ValkeySteps ==
    ASSUME LayoutInv, [Next]_vars
    PROVE  valkey' \subseteq TrueEntries
<1>1. valkey \subseteq TrueEntries
  BY DEF LayoutInv, MemoriesSound, CacheTypes
<1>2. CASE \E t \in Threads : Set(t)
  BY <1>1, <1>2, EntryTrue DEF Set
<1>3. CASE NextDay
  BY <1>1, <1>3 DEF NextDay
<1>4. CASE ~(\E t \in Threads : Set(t)) /\ ~NextDay
  <2>1. valkey' = valkey
    BY <1>4 DEF Next, vars, cacheVars, Receive, Elapse, Admit, Get, GetMemory, Got, Timeout,
                Fail, Lay, SetMemory, Finish, Toggle, Release
  <2>2. QED  BY <1>1, <2>1
<1>5. QED  BY <1>2, <1>3, <1>4

\* A memory that may be: true entries within the bound.
MemoryTrue(entries) == entries \in Seq(TrueEntries) /\ Bounded(entries)

\* The memories hold true entries within their bound.
LEMMA MemorySteps ==
    ASSUME LayoutInv, [Next]_vars
    PROVE  memory' \in [Procs -> Seq(TrueEntries)] /\ \A p \in Procs : Bounded(memory'[p])
<1>1. memory \in [Procs -> Seq(TrueEntries)] /\ \A p \in Procs : Bounded(memory[p])
  BY DEF LayoutInv, MemoriesSound, CacheTypes
<1>2. ASSUME NEW p \in Procs, NEW entries, MemoryTrue(entries),
             memory' = [memory EXCEPT ![p] = entries]
      PROVE  memory' \in [Procs -> Seq(TrueEntries)] /\ \A q \in Procs : Bounded(memory'[q])
  BY <1>1, <1>2 DEF MemoryTrue
<1>3. ASSUME NEW t \in Threads, GetMemory(t)
      PROVE  memory' \in [Procs -> Seq(TrueEntries)] /\ \A q \in Procs : Bounded(memory'[q])
  <2> DEFINE p == ProcOf[t]
             i == Position(memory[p], KeyOf(t))
             rest == Drop(memory[p], i)
  <2>1. p \in Procs
    BY ConstantsAssumption
  <2>2. i # 0 => MemoryTrue(rest) /\ MemoryTrue(Append(rest, memory[p][i]))
    BY <1>1, <2>1, TouchBounded DEF MemoryTrue
  <2>3. \/ memory' = memory
        \/ i # 0 /\ memory' = [memory EXCEPT ![p] = rest]
        \/ i # 0 /\ memory' = [memory EXCEPT ![p] = Append(rest, memory[p][i])]
    BY <1>3 DEF GetMemory
  <2> HIDE DEF p, i, rest
  <2>4. QED  BY <1>1, <1>2, <2>1, <2>2, <2>3
<1>4. ASSUME NEW t \in Threads, SetMemory(t)
      PROVE  memory' \in [Procs -> Seq(TrueEntries)] /\ \A q \in Procs : Bounded(memory'[q])
  <2>1. ProcOf[t] \in Procs /\ Entry(t) \in TrueEntries
    BY <1>4, EntryTrue, ConstantsAssumption DEF SetMemory
  <2>2. MemoryTrue(Store(memory[ProcOf[t]], Entry(t)))
    BY <1>1, <2>1, StoreBounded DEF MemoryTrue
  <2>3. \/ memory' = memory
        \/ memory' = [memory EXCEPT ![ProcOf[t]] = Store(memory[ProcOf[t]], Entry(t))]
    BY <1>4 DEF SetMemory
  <2>4. QED  BY <1>1, <1>2, <2>1, <2>2, <2>3
<1>5. ASSUME NEW p \in Procs, NEW v \in Versions, Release(p, v)
      PROVE  memory' \in [Procs -> Seq(TrueEntries)] /\ \A q \in Procs : Bounded(memory'[q])
  <2>1. MemoryTrue(<<>>)
    BY ConstantsAssumption DEF MemoryTrue, Bounded, KeysDistinct
  <2>2. memory' = [memory EXCEPT ![p] = <<>>]
    BY <1>5 DEF Release
  <2>3. QED  BY <1>2, <2>1, <2>2
<1>6. CASE /\ ~(\E t \in Threads : GetMemory(t) \/ SetMemory(t))
           /\ ~(\E p \in Procs, v \in Versions : Release(p, v))
  <2>1. memory' = memory
    BY <1>6 DEF Next, vars, cacheVars, Receive, Elapse, Admit, Get, Got, Timeout, Fail, Lay,
                Set, Finish, Toggle, NextDay
  <2>2. QED  BY <1>1, <2>1
<1>7. QED  BY <1>3, <1>4, <1>5, <1>6

\* The calendar goes on.
LEMMA DaySteps ==
    ASSUME LayoutInv, [Next]_vars
    PROVE  day' \in Int
<1>1. day \in Int
  BY DEF LayoutInv, MemoriesSound, CacheTypes
<1>2. CASE NextDay
  BY <1>1, <1>2 DEF NextDay
<1>3. CASE ~NextDay
  <2>1. day' = day
    BY <1>3 DEF Next, vars, envVars, Receive, Elapse, Admit, Get, GetMemory, Got, Timeout,
                Fail, Lay, Set, SetMemory, Finish, Toggle, Release
  <2>2. QED  BY <1>1, <2>1
<1>4. QED  BY <1>2, <1>3

\* Every step keeps the caches sound.
LEMMA CachesStep ==
    ASSUME LayoutInv, [Next]_vars
    PROVE  MemoriesSound'
  BY ValkeySteps, MemorySteps, DaySteps DEF MemoriesSound, CacheTypes

\* The invariant holds of a service that starts.
LEMMA InitSound == Init => LayoutInv
<1> SUFFICES ASSUME Init PROVE LayoutInv
  OBVIOUS
<1>1. ThreadTypes
  BY DEF Init, Fresh, ThreadTypes, LayoutPositions
<1>2. \A t \in Threads : Attends(t) /\ Holds(t)
  BY DEF Init, Fresh, Attends, Holds, Busy
<1>3. CacheTypes
  BY DEF Init, Fresh, CacheTypes
<1>4. \A p \in Procs : Bounded(memory[p])
  <2>1. \A p \in Procs : memory[p] = <<>>
    BY DEF Init, Fresh
  <2>2. QED  BY <2>1, ConstantsAssumption DEF Bounded, KeysDistinct
<1>5. QED  BY <1>1, <1>2, <1>3, <1>4 DEF LayoutInv, ThreadsSound, MemoriesSound

(***************************************************************************)
(* The refinement, action by action                                        *)
(***************************************************************************)
\* An answer is an answer of the contract.
LEMMA AnsweringRefines ==
    ASSUME ThreadsSound, NEW t \in Threads, Busy(t), Answering(t),
           UNCHANGED <<req, left, scenario, version>>
    PROVE  Contract!Answer(t)
<1>1. PICK status \in Statuses, body \in LaidOut \cup {Unset} :
          /\ Answer(t, status, body)
          /\ [status |-> status, body |-> body] \in Contract!Answers(t)
  BY DEF Answering
<1>2. req[t] # Unset /\ reply[t] = Unset
  BY DEF ThreadsSound, Attends
<1>3. reply' = [reply EXCEPT ![t] = [status |-> status, body |-> body]]
  BY <1>1 DEF Answer
<1>4. QED  BY <1>1, <1>2, <1>3 DEF Contract!Answer

\* Work is not seen from outside.
LEMMA WorkingRefines ==
    ASSUME NEW t \in Threads, Working(t), UNCHANGED <<req, left, scenario, version>>
    PROVE  UNCHANGED Contract!vars
<1>1. reply' = reply
  BY DEF Working, Hold
<1>2. QED  BY <1>1 DEF Contract!vars

\* A client asks.
LEMMA ReceiveRefines ==
    ASSUME ThreadsSound, NEW t \in Threads, NEW r \in scenario.requests, Receive(t, r)
    PROVE  Contract!Ask(t, r) /\ r \in AllRequests
<1>1. req[t] = Unset \/ reply[t] # Unset
  BY DEF Receive, ThreadsSound, Attends
<1>2. /\ req' = [req EXCEPT ![t] = r] /\ reply' = [reply EXCEPT ![t] = Unset]
      /\ version' = version
  BY DEF Receive
<1>3. [c \in Threads |-> left'[c] = 0] = [[c \in Threads |-> left[c] = 0] EXCEPT ![t] = FALSE]
  <2>1. left' = [left EXCEPT ![t] = 2] /\ left \in [Threads -> 0..2]
    BY DEF Receive, ThreadsSound, ThreadTypes
  <2>2. ASSUME NEW c \in Threads
        PROVE  (left'[c] = 0) = (IF c = t THEN FALSE ELSE left[c] = 0)
    <3>1. CASE c = t
      <4>1. left'[c] # 0
        BY <2>1, <3>1
      <4>2. QED  BY <3>1, <4>1
    <3>2. CASE c # t
      <4>1. left'[c] = left[c]
        BY <2>1, <3>2
      <4>2. QED  BY <3>2, <4>1
    <3>3. QED  BY <3>1, <3>2
  <2>3. QED  BY <2>2
<1>4. r \in AllRequests
  BY ReceiveSound
<1>5. QED  BY <1>1, <1>2, <1>3, <1>4 DEF Contract!Ask

\* Time is seen from outside when the deadline passes.
LEMMA ElapseRefines ==
    ASSUME ThreadsSound, NEW t \in Threads, Elapse(t)
    PROVE  Contract!Overrun(t) \/ UNCHANGED Contract!vars
<1>1. req[t] # Unset /\ reply[t] = Unset
  BY DEF Elapse, ThreadsSound, Attends
<1>2. req' = req /\ reply' = reply /\ version' = version
  BY DEF Elapse, envVars
<1>3. left' = [left EXCEPT ![t] = left[t] - 1] /\ left[t] > 0 /\ left \in [Threads -> 0..2]
  BY DEF Elapse, ThreadsSound, ThreadTypes
<1>4. CASE left[t] = 1
  <2>1. ASSUME NEW c \in Threads
        PROVE  (left'[c] = 0) = (IF c = t THEN TRUE ELSE left[c] = 0)
    <3>1. CASE c = t
      <4>1. left'[c] = 0
        BY <1>3, <1>4, <3>1
      <4>2. QED  BY <3>1, <4>1
    <3>2. CASE c # t
      <4>1. left'[c] = left[c]
        BY <1>3, <3>2
      <4>2. QED  BY <3>2, <4>1
    <3>3. QED  BY <3>1, <3>2
  <2>2. [c \in Threads |-> left'[c] = 0]
        = [[c \in Threads |-> left[c] = 0] EXCEPT ![t] = TRUE]
    BY <2>1
  <2>3. QED  BY <1>1, <1>2, <2>2 DEF Contract!Overrun
<1>5. CASE left[t] # 1
  <2>1. ASSUME NEW c \in Threads
        PROVE  (left'[c] = 0) = (left[c] = 0)
    <3>1. (left'[c] # 0 /\ left[c] # 0) \/ left'[c] = left[c]
      BY <1>3, <1>5
    <3>2. QED  BY <3>1
  <2>2. [c \in Threads |-> left'[c] = 0] = [c \in Threads |-> left[c] = 0]
    BY <2>1
  <2>3. QED  BY <1>2, <2>2 DEF Contract!vars
<1>6. QED  BY <1>4, <1>5

\* The clients of a replaced process hang up.
LEMMA ReleaseRefines ==
    ASSUME ThreadsSound, NEW p \in Procs, NEW v \in Versions, Release(p, v)
    PROVE  Contract!Replace({t \in Threads : ProcOf[t] = p}, v)
<1> DEFINE gone == {t \in Threads : ProcOf[t] = p}
<1>1. /\ req' = [c \in Threads |-> IF c \in gone THEN Unset ELSE req[c]]
      /\ reply' = [c \in Threads |-> IF c \in gone THEN Unset ELSE reply[c]]
      /\ left' = [c \in Threads |-> IF c \in gone THEN 2 ELSE left[c]]
      /\ version' = [version EXCEPT ![p] = v]
  BY DEF Release
<1>2. ASSUME NEW c \in Threads
      PROVE  (left'[c] = 0) = (IF c \in gone THEN FALSE ELSE left[c] = 0)
  <2> HIDE DEF gone
  <2>1. left'[c] = IF c \in gone THEN 2 ELSE left[c]
    BY <1>1
  <2>2. CASE c \in gone
    <3>1. left'[c] # 0
      BY <2>1, <2>2
    <3>2. QED  BY <2>2, <3>1
  <2>3. CASE c \notin gone
    <3>1. left'[c] = left[c]
      BY <2>1, <2>3
    <3>2. QED  BY <2>3, <3>1
  <2>4. QED  BY <2>2, <2>3
<1>3. [c \in Threads |-> left'[c] = 0]
      = [c \in Threads |-> IF c \in gone THEN FALSE ELSE left[c] = 0]
  BY <1>2
<1>4. \A c \in Threads :
          version'[ProcOf[c]] = IF c \in gone THEN v ELSE version[ProcOf[c]]
  BY <1>1, ConstantsAssumption DEF ThreadsSound, ThreadTypes
<1>5. [c \in Threads |-> version'[ProcOf[c]]]
      = [c \in Threads |-> IF c \in gone THEN v ELSE version[ProcOf[c]]]
  BY <1>4
<1> HIDE DEF gone
<1>6. Contract!Replace(gone, v)
  BY <1>1, <1>3, <1>5 DEF Contract!Replace
<1>7. QED  BY <1>6 DEF gone

\* Every step is one of the contract, or is not seen from outside.
LEMMA StepRefines ==
    ASSUME LayoutInv, [Next]_vars
    PROVE  [Contract!Next]_(Contract!vars)
<1> USE DEF LayoutInv
<1>1. CASE \E t \in Threads : \E r \in scenario.requests : Receive(t, r)
  BY <1>1, ReceiveRefines DEF Contract!Next
<1>2. CASE \E t \in Threads : Elapse(t)
  BY <1>2, ElapseRefines DEF Contract!Next
<1>3. CASE \E t \in Threads : ServeStep(t)
  BY <1>3, Serves, AnsweringRefines, WorkingRefines DEF Contract!Next
<1>4. CASE \E p \in Procs, v \in Versions : Release(p, v)
  <2>1. PICK p \in Procs, v \in Versions : Release(p, v)
    BY <1>4
  <2>2. {t \in Threads : ProcOf[t] = p} \in SUBSET Threads
    OBVIOUS
  <2>3. QED  BY <2>1, <2>2, ReleaseRefines DEF Contract!Next
<1>5. CASE Toggle \/ NextDay \/ UNCHANGED vars
  BY <1>5 DEF Toggle, NextDay, vars, Contract!vars
<1>6. QED  BY <1>1, <1>2, <1>3, <1>4, <1>5, NextCases

\* A service that starts is one the contract starts with.
LEMMA FreshRefines == Fresh => Contract!Init
<1> SUFFICES ASSUME Fresh PROVE Contract!Init
  OBVIOUS
<1>1. req = [c \in Threads |-> Unset] /\ reply = [c \in Threads |-> Unset]
  BY DEF Fresh
<1>2. [c \in Threads |-> left[c] = 0] = [c \in Threads |-> FALSE]
  <2>1. \A c \in Threads : (left[c] = 0) = FALSE
    BY DEF Fresh
  <2>2. QED  BY <2>1
<1>3. [c \in Threads |-> version[ProcOf[c]]] \in [Threads -> Versions]
  BY ConstantsAssumption DEF Fresh
<1>4. QED  BY <1>1, <1>2, <1>3 DEF Contract!Init

(***************************************************************************)
(* Theorems                                                                *)
(***************************************************************************)

\* The strengthened invariant: every cached payload is the one its key stands
\* for, and what a thread holds past a lookup or a computation is its own layout.
THEOREM LayoutInvariant == Spec => []LayoutInv
<1>1. Init => LayoutInv
  BY InitSound
<1>2. LayoutInv /\ [Next]_vars => LayoutInv'
  BY ThreadsStep, CachesStep DEF LayoutInv
<1>3. QED  BY <1>1, <1>2, PTL DEF Spec

\* Caching, outages of Valkey, evictions, expiries, releases and timeouts cannot
\* be told from computing every layout afresh (service.py compute_layout).
THEOREM LayoutServesContract == Spec => ServesContract
<1>1. LayoutInv /\ [Next]_vars => [Contract!Next]_(Contract!vars)
  BY StepRefines
<1>2. QED
  BY <1>1, FreshRefines, LayoutInvariant, PTL DEF Spec, Init, ServesContract, Contract!Spec

\* What the invariant says of the caches.
LEMMA CachesFromInv ==
    ASSUME LayoutInv
    PROVE  CachesSound
<1>1. ASSUME NEW p \in Procs
      PROVE  /\ Len(memory[p]) <= MaxEntries
             /\ KeysDistinct(memory[p])
             /\ ToSet(memory[p]) \subseteq TrueEntries
  <2>1. memory[p] \in Seq(TrueEntries) /\ Bounded(memory[p])
    BY DEF LayoutInv, MemoriesSound, CacheTypes
  <2>2. QED  BY <2>1 DEF Bounded, ToSet
<1>2. valkey \cup (UNION {ToSet(memory[p]) : p \in Procs}) \subseteq TrueEntries
  BY <1>1 DEF LayoutInv, MemoriesSound, CacheTypes
<1>3. \A x \in valkey \cup (UNION {ToSet(memory[p]) : p \in Procs}) :
          x.key[2] = x.value.input_digest
  BY <1>2, EntryDigest
<1>4. QED  BY <1>1, <1>3 DEF CachesSound, KeysDistinct

\* The memory caches stay within LAYOUT_MEMORY_CACHE_MAX_ENTRIES and have a key
\* once, and the digest in a key is the one its payload names (cache.py).
THEOREM LayoutCachesSound == Spec => []CachesSound
<1>1. LayoutInv => CachesSound
  BY CachesFromInv
<1> QED  BY <1>1, LayoutInvariant, PTL

(***************************************************************************)
(* Part two: RenderService and ArtifactStore                               *)
(***************************************************************************)

(***************************************************************************)
(* The invariant                                                           *)
(***************************************************************************)
Serving == {"put", "readback", "get", "delete", "link"}
RenderPositions == {"idle", "verify", "draw"} \cup Serving
Outcomes == {"none", "ok", "invalid", "unavailable", "missing", "timeout"}
Asked == UNION {s.calls : s \in RenderScenarios}
AnyBytes == Payloads \cup {Garbled, Unset} \cup {c.payload : c \in Asked}
Drawn == {R!RenderCall(r, p) : r \in Renders, p \in Payloads}

\* Every variable keeps its range.
Typed ==
    /\ scenario \in RenderScenarios
    /\ bucket \in [Keys -> AnyBytes]
    /\ pc \in [Threads -> RenderPositions]
    /\ call \in [Threads -> Asked \cup Drawn \cup {Unset}]
    /\ answer \in [Threads -> [outcome : Outcomes, bytes : AnyBytes]]
    /\ disturbed \subseteq Threads
    /\ drawing \in [Threads -> Renders \cup {Unset}]

\* A drawing is written for the request that was received, and any other call
\* is one of the callers'.
Origin(t) ==
    /\ pc[t] \in {"verify", "draw"} => call[t] = Unset /\ drawing[t] # Unset
    /\ drawing[t] = Unset => call[t] \in Asked \cup {Unset}
    /\ drawing[t] # Unset /\ call[t] # Unset =>
          \E p \in Payloads : R!Accepted(drawing[t], p) /\ call[t] = R!RenderCall(drawing[t], p)

\* A thread at a call of the storage service serves a call that was admitted.
Placed(t) ==
    /\ pc[t] \in Serving => call[t] # Unset /\ R!Admissible(call[t])
    /\ pc[t] = "put" => call[t].op \in R!Writes
    /\ pc[t] = "readback" => call[t].op \in R!ContentWrites
    /\ pc[t] = "get" => call[t].op \in R!Reads
    /\ pc[t] = "delete" => call[t].op \in {"delete", "delete_competence"}
    /\ pc[t] = "link" => call[t].op \in {"render", "refresh", "presign_get", "presign_put"}
    /\ pc[t] # "idle" => answer[t].outcome = "none"
    /\ answer[t].outcome = "ok" => call[t] # Unset /\ R!Admissible(call[t])

\* From its readback on, an object is what was sent, or somebody else has been
\* at it.
Published(t) ==
    /\ call[t] # Unset /\ call[t].op \in R!ContentWrites
    /\ pc[t] = "link" \/ answer[t].outcome = "ok"
    => t \in disturbed \/ bucket[R!KeyOf(call[t])] = call[t].payload

\* What was answered to a read matched its descriptor.
Answered(t) ==
    call[t] # Unset /\ answer[t].outcome = "ok" /\ call[t].op \in R!Reads \ {"refresh"} =>
        R!Matches(call[t], answer[t].bytes)

\* A link is its tenant's, and one for writing has a key without a digest that
\* is no drawing's.
LinkTrue(l) ==
    /\ l.key.tenant = l.tenant
    /\ l.method = "PUT" => l.key \in Keys /\ l.key.digest = Unset /\ l.key.folder # "renders"

\* What is under a key is what the key says.
KeyTrue(k) ==
    /\ k.digest # Unset => bucket[k] \in {Unset, Garbled, k.digest}
    /\ k.folder = "renders" /\ bucket[k] \notin {Unset, Garbled} =>
          bucket[k].form \in (IF k.name = "png" THEN {"png"} ELSE {"svg", "diagnostic"})

Threaded == \A t \in Threads : Origin(t) /\ Placed(t)
AllPublished == \A t \in Threads : Published(t)
AllAnswered == \A t \in Threads : Answered(t)
AllLinks == \A l \in links : LinkTrue(l)
AllKeys == \A k \in Keys : KeyTrue(k)
RenderInv == Typed /\ Threaded /\ AllPublished /\ AllAnswered /\ AllLinks /\ AllKeys

(***************************************************************************)
(* Calls and their keys                                                    *)
(***************************************************************************)
Ops == {"render", "web", "rl", "competence", "table", "delete", "delete_competence",
        "presign_get", "presign_put", "read_web", "get", "refresh"}

\* The operations that write what is named by its digest.
LEMMA ContentOps == R!ContentWrites = {"web", "rl", "render", "competence"}
  BY DEF R!ContentWrites, R!Folder

\* The call of a drawing is a content write.
LEMMA RenderCallIs ==
    ASSUME NEW r, NEW p
    PROVE  /\ R!RenderCall(r, p).op = "render" /\ R!RenderCall(r, p).payload = p
           /\ R!RenderCall(r, p).tenant = r.tenant /\ R!RenderCall(r, p).key.name = r.format
  BY DEF R!RenderCall

\* artifacts.py web, RL, render and competence keys: what they are made of.
LEMMA ContentKeyIs ==
    ASSUME NEW c, c.op \in R!ContentWrites
    PROVE  /\ R!KeyOf(c).tenant = c.tenant /\ R!KeyOf(c).digest = c.payload
           /\ R!KeyOf(c).name = c.key.name
           /\ R!KeyOf(c).folder = "renders" => c.op = "render"
<1>1. R!KeyOf(c) = R!ContentKey(c)
  BY DEF R!KeyOf
<1>2. R!Folder[c.op] = "renders" => c.op = "render"
  BY ContentOps DEF R!Folder
<1> QED  BY <1>1, <1>2 DEF R!ContentKey

\* The other operations work on the key they are given.
LEMMA GivenKeyIs ==
    ASSUME NEW c, c.op \notin R!ContentWrites
    PROVE  R!KeyOf(c) = c.key
  BY DEF R!KeyOf

\* A call that somebody makes names an operation, and no call is None.
LEMMA CallIs ==
    ASSUME R!CallsAssumption, NEW c \in Asked \cup Drawn
    PROVE  c # Unset /\ c.op \in Ops /\ (R!Admissible(c) => R!KeyOf(c) \in Keys)
<1>1. CASE c \in Asked
  BY <1>1 DEF R!CallsAssumption, R!CallOk, Asked, Ops, R!Reads
<1>2. CASE c \in Drawn
  <2>1. PICK r \in Renders, p \in Payloads : c = R!RenderCall(r, p)
    BY <1>2 DEF Drawn
  <2>2. R!RenderOk(r)
    BY DEF R!CallsAssumption
  <2> QED  BY <2>1, <2>2, RenderCallIs DEF R!RenderOk, Ops
<1> QED  BY <1>1, <1>2

\* What callers ask for is no drawing, and tables and PUT links have keys
\* without a digest.
LEMMA AskedIs ==
    ASSUME R!CallsAssumption, NEW c \in Asked
    PROVE  /\ c.op # "render"
           /\ c.op \in {"table", "presign_put"} =>
                 R!KeyOf(c).digest = Unset /\ R!KeyOf(c).folder # "renders"
<1>1. R!CallOk(c)
  BY DEF R!CallsAssumption, Asked
<1>2. c.op # "render"
  BY <1>1 DEF R!CallOk, R!Reads
<1>3. c.op \in {"table", "presign_put"} => R!KeyOf(c) = c.key
  BY GivenKeyIs, ContentOps
<1> QED  BY <1>1, <1>2, <1>3 DEF R!CallOk

\* validate_key: an admitted call stays within its tenant.
LEMMA TenantOfKey ==
    ASSUME NEW c, c.op \in Ops, R!Admissible(c)
    PROVE  R!KeyOf(c).tenant = c.tenant
<1>1. CASE c.op \in R!ContentWrites
  BY <1>1, ContentKeyIs
<1>2. CASE c.op \notin R!ContentWrites
  <2>1. R!KeyOf(c) = c.key
    BY <1>2, GivenKeyIs
  <2>2. R!ValidKey(c)
    BY <1>2, ContentOps DEF R!Admissible, Ops
  <2> QED  BY <2>1, <2>2 DEF R!ValidKey
<1> QED  BY <1>1, <1>2

\* The first step of a call fits its operation.
LEMMA FirstIs ==
    ASSUME NEW c, c.op \in Ops
    PROVE  /\ R!First(c) \in {"put", "get", "delete", "link"}
           /\ R!First(c) = "put" => c.op \in R!Writes
           /\ R!First(c) = "get" => c.op \in R!Reads
           /\ R!First(c) = "delete" => c.op \in {"delete", "delete_competence"}
           /\ R!First(c) = "link" => c.op \in {"presign_get", "presign_put"}
  BY ContentOps DEF R!First, Ops, R!Writes, R!Reads

(***************************************************************************)
(* Threads that do not move                                                *)
(***************************************************************************)
\* What a step of t leaves alone of the other threads; a step from outside is
\* one of None, who is no thread.
LeavesAlone(t) ==
    \A u \in Threads \ {t} :
        /\ pc'[u] = pc[u] /\ call'[u] = call[u]
        /\ answer'[u] = answer[u] /\ drawing'[u] = drawing[u]
        /\ u \in disturbed => u \in disturbed'
        /\ call[u] # Unset =>
              u \in disturbed' \/ bucket'[R!KeyOf(call[u])] = bucket[R!KeyOf(call[u])]
Kept(t) == LeavesAlone(t) /\ Origin(t)' /\ Placed(t)' /\ Published(t)' /\ Answered(t)'

\* The parts about a thread that does not move are preserved.
LEMMA OthersKept ==
    ASSUME NEW t, LeavesAlone(t), NEW u \in Threads \ {t},
           Origin(u), Placed(u), Published(u), Answered(u)
    PROVE  Origin(u)' /\ Placed(u)' /\ Published(u)' /\ Answered(u)'
<1>1. /\ pc'[u] = pc[u] /\ call'[u] = call[u]
      /\ answer'[u] = answer[u] /\ drawing'[u] = drawing[u]
      /\ u \in disturbed => u \in disturbed'
      /\ call[u] # Unset =>
            u \in disturbed' \/ bucket'[R!KeyOf(call[u])] = bucket[R!KeyOf(call[u])]
  BY DEF LeavesAlone
<1>2. Origin(u)'
  BY <1>1 DEF Origin
<1>3. Placed(u)'
  BY <1>1 DEF Placed
<1>4. Published(u)'
  BY <1>1 DEF Published
<1>5. Answered(u)'
  BY <1>1 DEF Answered
<1> QED  BY <1>2, <1>3, <1>4, <1>5

\* A step that keeps its own thread keeps all of them.
LEMMA ThreadsKept ==
    ASSUME RenderInv, NEW t, LeavesAlone(t),
           t \in Threads => Origin(t)' /\ Placed(t)' /\ Published(t)' /\ Answered(t)'
    PROVE  Threaded' /\ AllPublished' /\ AllAnswered'
<1>1. ASSUME NEW u \in Threads
      PROVE  Origin(u)' /\ Placed(u)' /\ Published(u)' /\ Answered(u)'
  <2>1. CASE u = t
    BY <2>1
  <2>2. CASE u # t
    BY <2>2, OthersKept DEF RenderInv, Threaded, AllPublished, AllAnswered
  <2> QED  BY <2>1, <2>2
<1> QED  BY <1>1 DEF Threaded, AllPublished, AllAnswered

\* An object that changes disturbs whoever works on its key, but the one who
\* changes it.
LEMMA ChangeLeaves ==
    ASSUME Typed, NEW k \in Keys, NEW p, NEW who, R!Change(k, p, who),
           NEW u \in Threads \ {who}, call[u] # Unset
    PROVE  u \in disturbed' \/ bucket'[R!KeyOf(call[u])] = bucket[R!KeyOf(call[u])]
<1>1. CASE R!KeyOf(call[u]) = k
  BY <1>1 DEF R!Change
<1>2. CASE R!KeyOf(call[u]) # k
  BY <1>2 DEF R!Change, Typed
<1> QED  BY <1>1, <1>2

\* What a change does to the bucket and to the history.
LEMMA ChangeIs ==
    ASSUME Typed, NEW k \in Keys, NEW p \in AnyBytes, NEW who, R!Change(k, p, who)
    PROVE  /\ bucket' \in [Keys -> AnyBytes] /\ bucket'[k] = p
           /\ \A j \in Keys \ {k} : bucket'[j] = bucket[j]
           /\ disturbed \subseteq disturbed' /\ disturbed' \subseteq Threads
  BY DEF R!Change, Typed

\* The keys stay true when the object that changes is what its key says.
LEMMA KeysChange ==
    ASSUME Typed, AllKeys, NEW k \in Keys, NEW p \in AnyBytes, NEW who, R!Change(k, p, who),
           k.digest # Unset => p \in {Unset, Garbled, k.digest},
           k.folder = "renders" /\ p \notin {Unset, Garbled} =>
               p.form \in (IF k.name = "png" THEN {"png"} ELSE {"svg", "diagnostic"})
    PROVE  AllKeys'
<1>1. /\ bucket'[k] = p
      /\ \A j \in Keys \ {k} : bucket'[j] = bucket[j]
  BY ChangeIs
<1>2. ASSUME NEW j \in Keys PROVE KeyTrue(j)'
  BY <1>1, <1>2 DEF AllKeys, KeyTrue
<1> QED  BY <1>2 DEF AllKeys

(***************************************************************************)
(* Calls of the storage service                                            *)
(***************************************************************************)
\* Where a thread is after it goes on.
LEMMA GotoIs ==
    ASSUME Typed, NEW t \in Threads, NEW label \in RenderPositions, R!Goto(t, label)
    PROVE  /\ pc' \in [Threads -> RenderPositions] /\ UNCHANGED answer
           /\ pc'[t] = label /\ \A u \in Threads \ {t} : pc'[u] = pc[u]
  BY DEF Typed, R!Goto

\* Where it is after it has answered.
LEMMA ReturnIs ==
    ASSUME Typed, NEW t \in Threads, NEW outcome \in Outcomes, NEW bytes \in AnyBytes,
           R!Return(t, outcome, bytes)
    PROVE  /\ pc' \in [Threads -> RenderPositions]
           /\ answer' \in [Threads -> [outcome : Outcomes, bytes : AnyBytes]]
           /\ pc'[t] = "idle" /\ answer'[t].outcome = outcome /\ answer'[t].bytes = bytes
           /\ \A u \in Threads \ {t} : pc'[u] = pc[u] /\ answer'[u] = answer[u]
<1>1. "idle" \in RenderPositions
  BY DEF RenderPositions
<1>2. [outcome |-> outcome, bytes |-> bytes] \in [outcome : Outcomes, bytes : AnyBytes]
  OBVIOUS
<1> QED  BY <1>1, <1>2 DEF Typed, R!Return

\* A thread at a call of the storage service, with the key it works on.
LEMMA ServingIs ==
    ASSUME R!CallsAssumption, RenderInv, NEW t \in Threads, pc[t] \in Serving
    PROVE  /\ call[t] \in Asked \cup Drawn /\ call[t] # Unset /\ call[t].op \in Ops
           /\ R!Admissible(call[t]) /\ R!KeyOf(call[t]) \in Keys
           /\ call[t].payload \in AnyBytes
           /\ answer[t].outcome = "none"
           /\ Origin(t) /\ Placed(t)
<1>1. Origin(t) /\ Placed(t)
  BY DEF RenderInv, Threaded
<1>2. call[t] # Unset /\ R!Admissible(call[t]) /\ answer[t].outcome = "none"
  BY <1>1 DEF Placed, Serving
<1>3. call[t] \in Asked \cup Drawn
  BY <1>2 DEF RenderInv, Typed
<1>4. call[t].op \in Ops /\ R!KeyOf(call[t]) \in Keys
  BY <1>2, <1>3, CallIs
<1>5. call[t].payload \in AnyBytes
  BY <1>3, RenderCallIs DEF Drawn, AnyBytes
<1> QED  BY <1>1, <1>2, <1>3, <1>4, <1>5

\* What is written is what the key of the call says: the payload with the digest
\* in the key, and a drawing where drawings are (artifacts.py:385, :286).
LEMMA WrittenIs ==
    ASSUME R!CallsAssumption, RenderInv, NEW t \in Threads, pc[t] = "put"
    PROVE  LET k == R!KeyOf(call[t])
               p == call[t].payload
           IN  /\ k.digest # Unset => p \in {Unset, Garbled, k.digest}
               /\ k.folder = "renders" =>
                     p.form \in (IF k.name = "png" THEN {"png"} ELSE {"svg", "diagnostic"})
<1> DEFINE c == call[t]
<1>1. /\ c \in Asked \cup Drawn /\ c # Unset /\ c.op \in Ops /\ Origin(t) /\ c.op \in R!Writes
      /\ drawing[t] \in Renders \cup {Unset}
  BY ServingIs DEF Serving, Placed, RenderInv, Typed
<1>2. CASE drawing[t] = Unset
  <2>1. c \in Asked
    BY <1>1, <1>2 DEF Origin
  <2>2. /\ c.op # "render"
        /\ (c.op = "table" => R!KeyOf(c).digest = Unset /\ R!KeyOf(c).folder # "renders")
    BY <2>1, AskedIs
  <2>3. CASE c.op = "table"
    BY <2>2, <2>3
  <2>4. CASE c.op # "table"
    BY <1>1, <2>2, <2>4, ContentKeyIs DEF R!Writes
  <2> QED  BY <2>3, <2>4
<1>3. CASE drawing[t] # Unset
  <2>1. PICK p \in Payloads : R!Accepted(drawing[t], p) /\ c = R!RenderCall(drawing[t], p)
    BY <1>1, <1>3 DEF Origin
  <2>2. c.op = "render" /\ c.payload = p /\ c.key.name = drawing[t].format
    BY <2>1, RenderCallIs
  <2>3. R!KeyOf(c).digest = p /\ R!KeyOf(c).name = drawing[t].format
    BY <2>2, ContentKeyIs, ContentOps
  <2>4. R!RenderOk(drawing[t])
    BY <1>1, <1>3 DEF R!CallsAssumption
  <2>5. p.form \in (IF drawing[t].format = "png" THEN {"png"} ELSE {"svg", "diagnostic"})
    BY <2>1, <2>4 DEF R!Accepted, R!RenderOk
  <2> QED  BY <2>2, <2>3, <2>5
<1> QED  BY <1>2, <1>3

\* artifacts.py put_object, however it ends.
LEMMA PutKept ==
    ASSUME R!CallsAssumption, RenderInv, NEW t \in Threads, R!Put(t), UNCHANGED drawing
    PROVE  RenderInv'
<1> DEFINE k == R!KeyOf(call[t])
<1>1. /\ pc[t] = "put" /\ call[t] # Unset /\ call[t].op \in R!Writes /\ k \in Keys
      /\ call[t].op \in Ops /\ R!Admissible(call[t])
      /\ call[t].payload \in AnyBytes /\ answer[t].outcome = "none" /\ Origin(t)
  BY ServingIs DEF R!Put, Serving, Placed
<1>2. UNCHANGED <<scenario, links, call, drawing>> /\ Typed
  BY DEF R!Put, RenderInv
<1>3. \/ \E p \in {call[t].payload, Garbled} : R!Change(k, p, t)
      \/ UNCHANGED <<bucket, disturbed>>
  BY DEF R!Put
<1>4. \/ call[t].op = "table" /\ R!Return(t, "ok", Unset)
      \/ call[t].op # "table" /\ R!Goto(t, "readback")
      \/ R!Return(t, "unavailable", Unset)
  BY DEF R!Put
<1>5. /\ bucket' \in [Keys -> AnyBytes] /\ disturbed \subseteq disturbed'
      /\ disturbed' \subseteq Threads
  <2>1. CASE UNCHANGED <<bucket, disturbed>>
    BY <1>2, <2>1 DEF Typed
  <2>2. ASSUME NEW p \in {call[t].payload, Garbled}, R!Change(k, p, t) PROVE <1>5
    <3>1. p \in AnyBytes
      BY <1>1 DEF AnyBytes
    <3> QED  BY <1>1, <1>2, <2>2, <3>1, ChangeIs
  <2> QED  BY <1>3, <2>1, <2>2
<1>6. AllKeys'
  <2>1. CASE UNCHANGED <<bucket, disturbed>>
    BY <2>1 DEF RenderInv, AllKeys, KeyTrue
  <2>2. ASSUME NEW p \in {call[t].payload, Garbled}, R!Change(k, p, t) PROVE AllKeys'
    <3>1. p \in AnyBytes
      BY <1>1 DEF AnyBytes
    <3>2. /\ k.digest # Unset => p \in {Unset, Garbled, k.digest}
          /\ k.folder = "renders" /\ p \notin {Unset, Garbled} =>
                p.form \in (IF k.name = "png" THEN {"png"} ELSE {"svg", "diagnostic"})
      BY <1>1, WrittenIs
    <3> QED  BY <1>1, <1>2, <2>2, <3>1, <3>2, KeysChange DEF RenderInv
  <2> QED  BY <1>3, <2>1, <2>2
<1>7. LeavesAlone(t)
  <2>1. ASSUME NEW u \in Threads \ {t}
        PROVE  pc'[u] = pc[u] /\ answer'[u] = answer[u]
    BY <1>2, <1>4 DEF Typed, R!Goto, R!Return
  <2>2. ASSUME NEW u \in Threads \ {t}, call[u] # Unset
        PROVE  u \in disturbed' \/ bucket'[R!KeyOf(call[u])] = bucket[R!KeyOf(call[u])]
    BY <1>1, <1>2, <1>3, <2>2, ChangeLeaves
  <2> QED  BY <1>2, <1>5, <2>1, <2>2 DEF LeavesAlone
<1>8. /\ pc' \in [Threads -> RenderPositions]
      /\ answer' \in [Threads -> [outcome : Outcomes, bytes : AnyBytes]]
  <2>1. /\ {"idle", "readback"} \subseteq RenderPositions /\ {"ok", "unavailable"} \subseteq Outcomes
        /\ Unset \in AnyBytes
    BY DEF RenderPositions, Serving, Outcomes, AnyBytes
  <2> QED  BY <1>2, <1>4, <2>1, GotoIs, ReturnIs DEF Typed
<1>9. \/ pc'[t] = "idle" /\ answer'[t].outcome = "ok" /\ call[t].op = "table"
      \/ pc'[t] = "idle" /\ answer'[t].outcome = "unavailable"
      \/ pc'[t] = "readback" /\ answer'[t].outcome = "none" /\ call[t].op # "table"
  BY <1>1, <1>2, <1>4 DEF Typed, R!Goto, R!Return
<1>10. Origin(t)'
  BY <1>1, <1>2, <1>9 DEF Origin
<1>11. Placed(t)'
  BY <1>1, <1>2, <1>9 DEF Placed, R!Writes, Serving
<1>12. Published(t)' /\ Answered(t)'
  BY <1>1, <1>2, <1>9, ContentOps DEF Published, Answered, R!Reads
<1>13. Typed'
  BY <1>2, <1>5, <1>8 DEF Typed
<1>14. AllLinks'
  BY <1>2 DEF RenderInv, AllLinks
<1> QED  BY <1>6, <1>7, <1>10, <1>11, <1>12, <1>13, <1>14, ThreadsKept DEF RenderInv

\* A step that moves one thread and touches no object, link or call.
LEMMA QuietKept ==
    ASSUME RenderInv, NEW t \in Threads,
           UNCHANGED <<scenario, bucket, links, call, disturbed, drawing>>,
           pc' \in [Threads -> RenderPositions],
           answer' \in [Threads -> [outcome : Outcomes, bytes : AnyBytes]],
           \A u \in Threads \ {t} : pc'[u] = pc[u] /\ answer'[u] = answer[u],
           Origin(t)', Placed(t)', Published(t)', Answered(t)'
    PROVE  RenderInv'
<1>1. Typed' /\ LeavesAlone(t)
  BY DEF RenderInv, Typed, LeavesAlone
<1>2. AllLinks' /\ AllKeys'
  BY DEF RenderInv, AllLinks, AllKeys, KeyTrue
<1> QED  BY <1>1, <1>2, ThreadsKept DEF RenderInv

\* artifacts.py:225, :393: a readback finds the payload of its call, or the call
\* fails.
LEMMA ReadbackKept ==
    ASSUME R!CallsAssumption, RenderInv, NEW t \in Threads, R!Readback(t), UNCHANGED drawing
    PROVE  RenderInv'
<1> DEFINE p == bucket[R!KeyOf(call[t])]
<1>1. /\ pc[t] = "readback" /\ call[t] # Unset /\ call[t].op \in R!ContentWrites
      /\ R!Admissible(call[t]) /\ R!KeyOf(call[t]) \in Keys
      /\ answer[t].outcome = "none" /\ Origin(t) /\ Typed
  BY ServingIs DEF R!Readback, Serving, Placed, RenderInv
<1>2. UNCHANGED <<scenario, bucket, links, call, disturbed, drawing>>
  BY DEF R!Readback
<1>3. \/ \E outcome \in {"missing", "invalid", "unavailable"} : R!Return(t, outcome, Unset)
      \/ p = call[t].payload /\ call[t].op = "render" /\ R!Goto(t, "link")
      \/ p = call[t].payload /\ R!Return(t, "ok", Unset)
  BY DEF R!Readback, R!GetBytes
<1>4. {"missing", "invalid", "unavailable", "ok"} \subseteq Outcomes /\ "link" \in RenderPositions
      /\ Unset \in AnyBytes
  BY DEF Outcomes, RenderPositions, Serving, AnyBytes
<1>5. /\ pc' \in [Threads -> RenderPositions]
      /\ answer' \in [Threads -> [outcome : Outcomes, bytes : AnyBytes]]
      /\ \A u \in Threads \ {t} : pc'[u] = pc[u] /\ answer'[u] = answer[u]
  BY <1>1, <1>3, <1>4, GotoIs, ReturnIs DEF Typed
<1>6. \/ pc'[t] = "idle" /\ answer'[t].outcome \in {"missing", "invalid", "unavailable"}
      \/ p = call[t].payload /\ call[t].op = "render" /\ pc'[t] = "link"
         /\ answer'[t].outcome = "none"
      \/ p = call[t].payload /\ pc'[t] = "idle" /\ answer'[t].outcome = "ok"
  BY <1>1, <1>3, <1>4, GotoIs, ReturnIs
<1>7. Origin(t)'
  BY <1>1, <1>2, <1>6 DEF Origin
<1>8. Placed(t)'
  BY <1>1, <1>2, <1>6 DEF Placed, Serving
<1>9. Published(t)' /\ Answered(t)'
  BY <1>1, <1>2, <1>6, ContentOps DEF Published, Answered, R!Reads
<1> QED  BY <1>2, <1>5, <1>7, <1>8, <1>9, QuietKept

\* artifacts.py:236, :571: what is answered matched the descriptor.
LEMMA GetKept ==
    ASSUME R!CallsAssumption, RenderInv, NEW t \in Threads, R!Get(t), UNCHANGED drawing
    PROVE  RenderInv'
<1> DEFINE p == bucket[R!KeyOf(call[t])]
<1>1. /\ pc[t] = "get" /\ call[t] # Unset /\ call[t].op \in R!Reads
      /\ R!Admissible(call[t]) /\ R!KeyOf(call[t]) \in Keys
      /\ answer[t].outcome = "none" /\ Origin(t) /\ Typed
  BY ServingIs DEF R!Get, Serving, Placed, RenderInv
<1>2. UNCHANGED <<scenario, bucket, links, call, disturbed, drawing>>
  BY DEF R!Get
<1>3. \/ \E outcome \in {"missing", "invalid", "unavailable"} : R!Return(t, outcome, Unset)
      \/ call[t].op = "refresh" /\ R!Goto(t, "link")
      \/ R!Matches(call[t], p) /\ R!Return(t, "ok", p)
  BY DEF R!Get, R!GetBytes
<1>4. {"missing", "invalid", "unavailable", "ok"} \subseteq Outcomes /\ "link" \in RenderPositions
      /\ Unset \in AnyBytes /\ p \in AnyBytes
  BY <1>1 DEF Outcomes, RenderPositions, Serving, AnyBytes, Typed
<1>5. /\ pc' \in [Threads -> RenderPositions]
      /\ answer' \in [Threads -> [outcome : Outcomes, bytes : AnyBytes]]
      /\ \A u \in Threads \ {t} : pc'[u] = pc[u] /\ answer'[u] = answer[u]
  BY <1>1, <1>3, <1>4, GotoIs, ReturnIs DEF Typed
<1>6. \/ pc'[t] = "idle" /\ answer'[t].outcome \in {"missing", "invalid", "unavailable"}
      \/ call[t].op = "refresh" /\ pc'[t] = "link" /\ answer'[t].outcome = "none"
      \/ R!Matches(call[t], p) /\ pc'[t] = "idle" /\ answer'[t].outcome = "ok"
         /\ answer'[t].bytes = p
  BY <1>1, <1>3, <1>4, GotoIs, ReturnIs
<1>7. Origin(t)'
  BY <1>1, <1>2, <1>6 DEF Origin
<1>8. Placed(t)'
  BY <1>1, <1>2, <1>6 DEF Placed, Serving
<1>9. Published(t)'
  BY <1>1, <1>2, <1>6, ContentOps DEF Published, R!Reads
<1>10. Answered(t)'
  BY <1>1, <1>2, <1>6 DEF Answered
<1> QED  BY <1>2, <1>5, <1>7, <1>8, <1>9, <1>10, QuietKept

\* artifacts.py:487, :495: a deletion, however it ends.
LEMMA DeleteKept ==
    ASSUME R!CallsAssumption, RenderInv, NEW t \in Threads, R!Delete(t), UNCHANGED drawing
    PROVE  RenderInv'
<1> DEFINE k == R!KeyOf(call[t])
<1>1. /\ pc[t] = "delete" /\ call[t] # Unset /\ call[t].op \in {"delete", "delete_competence"}
      /\ R!Admissible(call[t]) /\ k \in Keys /\ Origin(t) /\ Typed
  BY ServingIs DEF R!Delete, Serving, Placed, RenderInv
<1>2. UNCHANGED <<scenario, links, call, drawing>>
  BY DEF R!Delete
<1>3. R!Change(k, Unset, t) \/ UNCHANGED <<bucket, disturbed>>
  BY DEF R!Delete
<1>4. {"ok", "unavailable"} \subseteq Outcomes /\ Unset \in AnyBytes
  BY DEF Outcomes, AnyBytes
<1>5. \E outcome \in {"ok", "unavailable"} : R!Return(t, outcome, Unset)
  BY DEF R!Delete
<1>6. /\ pc' \in [Threads -> RenderPositions]
      /\ answer' \in [Threads -> [outcome : Outcomes, bytes : AnyBytes]]
      /\ \A u \in Threads \ {t} : pc'[u] = pc[u] /\ answer'[u] = answer[u]
      /\ pc'[t] = "idle"
  BY <1>1, <1>4, <1>5, ReturnIs
<1>7. /\ bucket' \in [Keys -> AnyBytes] /\ disturbed \subseteq disturbed'
      /\ disturbed' \subseteq Threads
  BY <1>1, <1>3, <1>4, ChangeIs DEF Typed
<1>8. AllKeys'
  <2>1. CASE UNCHANGED <<bucket, disturbed>>
    BY <2>1 DEF RenderInv, AllKeys, KeyTrue
  <2>2. CASE R!Change(k, Unset, t)
    BY <1>1, <1>4, <2>2, KeysChange DEF RenderInv
  <2> QED  BY <1>3, <2>1, <2>2
<1>9. LeavesAlone(t)
  <2>1. ASSUME NEW u \in Threads \ {t}, call[u] # Unset
        PROVE  u \in disturbed' \/ bucket'[R!KeyOf(call[u])] = bucket[R!KeyOf(call[u])]
    BY <1>1, <1>3, <2>1, ChangeLeaves
  <2> QED  BY <1>2, <1>6, <1>7, <2>1 DEF LeavesAlone
<1>10. Origin(t)' /\ Placed(t)' /\ Published(t)' /\ Answered(t)'
  BY <1>1, <1>2, <1>6, ContentOps DEF Origin, Placed, Published, Answered, Serving, R!Reads
<1>11. Typed' /\ AllLinks'
  BY <1>1, <1>2, <1>6, <1>7 DEF Typed, RenderInv, AllLinks
<1> QED  BY <1>8, <1>9, <1>10, <1>11, ThreadsKept DEF RenderInv

\* artifacts.py:498, :517: a link is for the tenant of the call, and one for
\* writing for a key that may change.
LEMMA LinkKept ==
    ASSUME R!CallsAssumption, RenderInv, NEW t \in Threads, R!Link(t), UNCHANGED drawing
    PROVE  RenderInv'
<1> DEFINE c == call[t]
           l == [method |-> IF c.op = "presign_put" THEN "PUT" ELSE "GET",
                 key |-> R!KeyOf(c), tenant |-> c.tenant]
<1>1. /\ pc[t] = "link" /\ c # Unset /\ c.op \in Ops
      /\ c.op \in {"render", "refresh", "presign_get", "presign_put"}
      /\ R!Admissible(c) /\ R!KeyOf(c) \in Keys /\ Origin(t) /\ Typed /\ Published(t)
      /\ answer[t].outcome = "none" /\ drawing[t] \in Renders \cup {Unset}
  BY ServingIs DEF R!Link, Serving, Placed, RenderInv, AllPublished, Typed
<1>2. UNCHANGED <<scenario, bucket, call, disturbed, drawing>>
  BY DEF R!Link
<1>3. \/ links' = links \cup {l} /\ R!Return(t, "ok", Unset)
      \/ UNCHANGED links /\ R!Return(t, "unavailable", Unset)
  BY DEF R!Link
<1>4. {"ok", "unavailable"} \subseteq Outcomes /\ Unset \in AnyBytes
  BY DEF Outcomes, AnyBytes
<1>5. /\ pc' \in [Threads -> RenderPositions]
      /\ answer' \in [Threads -> [outcome : Outcomes, bytes : AnyBytes]]
      /\ \A u \in Threads \ {t} : pc'[u] = pc[u] /\ answer'[u] = answer[u]
      /\ pc'[t] = "idle" /\ answer'[t].outcome \in {"ok", "unavailable"}
  BY <1>1, <1>3, <1>4, ReturnIs
<1>6. LinkTrue(l)
  <2>1. l.key.tenant = l.tenant
    BY <1>1, TenantOfKey
  <2>2. ASSUME c.op = "presign_put" PROVE l.key.digest = Unset /\ l.key.folder # "renders"
    <3>1. drawing[t] = Unset
      BY <1>1, <2>2, RenderCallIs DEF Origin
    <3>2. c \in Asked
      BY <1>1, <3>1 DEF Origin
    <3> QED  BY <2>2, <3>2, AskedIs
  <2> QED  BY <1>1, <2>1, <2>2 DEF LinkTrue
<1>7. AllLinks'
  BY <1>3, <1>6 DEF RenderInv, AllLinks, LinkTrue
<1>8. Origin(t)'
  BY <1>1, <1>2, <1>5 DEF Origin
<1>9. Placed(t)'
  BY <1>1, <1>2, <1>5 DEF Placed, Serving
<1>10. Published(t)'
  BY <1>1, <1>2, <1>5, ContentOps DEF Published
<1>11. Answered(t)'
  BY <1>1, <1>2, <1>5 DEF Answered, R!Reads
<1>12. Typed' /\ LeavesAlone(t)
  BY <1>1, <1>2, <1>5 DEF Typed, LeavesAlone
<1>13. AllKeys'
  BY <1>2 DEF RenderInv, AllKeys, KeyTrue
<1> QED  BY <1>7, <1>8, <1>9, <1>10, <1>11, <1>12, <1>13, ThreadsKept DEF RenderInv

(***************************************************************************)
(* Requests, drawings, and what happens outside                            *)
(***************************************************************************)
\* A call takes the place of another: its own thread is disturbed no more.
LEMMA EnterKept ==
    ASSUME R!CallsAssumption, RenderInv, NEW t \in Threads, NEW c \in Asked \cup Drawn, R!Enter(t, c),
           UNCHANGED <<scenario, bucket, links>>,
           drawing' \in [Threads -> Renders \cup {Unset}],
           \A u \in Threads \ {t} : drawing'[u] = drawing[u],
           pc[t] # "idle" => answer[t].outcome = "none",
           drawing'[t] = Unset => c \in Asked,
           drawing'[t] # Unset =>
               \E p \in Payloads : R!Accepted(drawing'[t], p) /\ c = R!RenderCall(drawing'[t], p)
    PROVE  RenderInv'
<1>1. c # Unset /\ c.op \in Ops /\ Typed
  BY CallIs DEF RenderInv
<1>2. /\ call' \in [Threads -> Asked \cup Drawn \cup {Unset}] /\ call'[t] = c
      /\ \A u \in Threads \ {t} : call'[u] = call[u]
      /\ disturbed' = disturbed \ {t}
  BY <1>1 DEF R!Enter, Typed
<1>3. CASE R!Admissible(c)
  <2>1. pc' = [pc EXCEPT ![t] = R!First(c)] /\ answer' = [answer EXCEPT ![t] = R!NoAnswer]
    BY <1>3 DEF R!Enter
  <2>2. R!First(c) \in RenderPositions /\ R!First(c) \in {"put", "get", "delete", "link"}
    BY <1>1, FirstIs DEF RenderPositions, Serving
  <2>3. R!NoAnswer \in [outcome : Outcomes, bytes : AnyBytes] /\ R!NoAnswer.outcome = "none"
    BY DEF R!NoAnswer, Outcomes, AnyBytes
  <2>4. /\ pc' \in [Threads -> RenderPositions]
        /\ answer' \in [Threads -> [outcome : Outcomes, bytes : AnyBytes]]
        /\ \A u \in Threads \ {t} : pc'[u] = pc[u] /\ answer'[u] = answer[u]
        /\ pc'[t] = R!First(c) /\ answer'[t].outcome = "none"
    BY <1>1, <2>1, <2>2, <2>3 DEF Typed
  <2>5. Origin(t)'
    BY <1>1, <1>2, <2>2, <2>4 DEF Origin
  <2>6. Placed(t)'
    BY <1>1, <1>2, <1>3, <2>2, <2>4, FirstIs DEF Placed, Serving
  <2>7. Published(t)' /\ Answered(t)'
    BY <1>1, <1>2, <2>4, FirstIs, ContentOps DEF Published, Answered
  <2>8. Typed' /\ LeavesAlone(t)
    BY <1>1, <1>2, <2>4 DEF Typed, LeavesAlone
  <2>9. AllLinks' /\ AllKeys'
    BY DEF RenderInv, AllLinks, AllKeys, KeyTrue
  <2> QED  BY <2>5, <2>6, <2>7, <2>8, <2>9, ThreadsKept DEF RenderInv
<1>4. CASE ~R!Admissible(c)
  <2>1. R!Return(t, "invalid", Unset)
    BY <1>4 DEF R!Enter
  <2>2. "invalid" \in Outcomes /\ Unset \in AnyBytes
    BY DEF Outcomes, AnyBytes
  <2>3. /\ pc' \in [Threads -> RenderPositions]
        /\ answer' \in [Threads -> [outcome : Outcomes, bytes : AnyBytes]]
        /\ \A u \in Threads \ {t} : pc'[u] = pc[u] /\ answer'[u] = answer[u]
        /\ pc'[t] = "idle" /\ answer'[t].outcome = "invalid"
    BY <1>1, <2>1, <2>2, ReturnIs
  <2>4. Origin(t)' /\ Placed(t)'
    BY <1>1, <1>2, <2>3 DEF Origin, Placed, Serving
  <2>5. Published(t)' /\ Answered(t)'
    BY <1>1, <1>2, <2>3 DEF Published, Answered
  <2>6. Typed' /\ LeavesAlone(t)
    BY <1>1, <1>2, <2>3 DEF Typed, LeavesAlone
  <2>7. AllLinks' /\ AllKeys'
    BY DEF RenderInv, AllLinks, AllKeys, KeyTrue
  <2> QED  BY <2>4, <2>5, <2>6, <2>7, ThreadsKept DEF RenderInv
<1> QED  BY <1>3, <1>4

\* artifacts.py:202-630: a call of the store that comes from its callers.
LEMMA BeginKept ==
    ASSUME R!CallsAssumption, RenderInv, NEW t \in Threads, NEW c \in scenario.calls, R!Begin(t, c),
           drawing' = [drawing EXCEPT ![t] = Unset]
    PROVE  RenderInv'
<1>1. Typed /\ scenario \in RenderScenarios /\ c \in Asked
  BY DEF RenderInv, Typed, Asked
<1>2. /\ drawing' \in [Threads -> Renders \cup {Unset}] /\ drawing'[t] = Unset
      /\ \A u \in Threads \ {t} : drawing'[u] = drawing[u]
  BY <1>1 DEF Typed
<1>3. R!Enter(t, c) /\ UNCHANGED <<scenario, bucket, links>> /\ pc[t] = "idle"
  BY DEF R!Begin
<1> QED  BY <1>1, <1>2, <1>3, EnterKept

\* rendering/api.py:45, service.py:141: what was drawn goes to the store, or is refused.
LEMMA DrawKept ==
    ASSUME R!CallsAssumption, RenderInv, NEW t \in Threads, NEW p \in Payloads, R!Draw(t, p)
    PROVE  RenderInv'
<1> DEFINE r == drawing[t]
<1>1. /\ Typed /\ pc[t] = "draw" /\ Origin(t) /\ Placed(t) /\ call[t] = Unset /\ r # Unset
      /\ r \in Renders /\ answer[t].outcome = "none"
  BY DEF R!Draw, RenderInv, Threaded, Origin, Placed, Typed
<1>2. UNCHANGED <<scenario, drawing>>
  BY DEF R!Draw
<1>3. CASE R!Accepted(r, p)
  <2>1. R!Enter(t, R!RenderCall(r, p)) /\ UNCHANGED <<bucket, links>>
    BY <1>3 DEF R!Draw
  <2>2. R!RenderCall(r, p) \in Asked \cup Drawn
    BY <1>1 DEF Drawn
  <2>3. drawing' \in [Threads -> Renders \cup {Unset}] /\ drawing'[t] = r
    BY <1>1, <1>2 DEF Typed
  <2>4. \A u \in Threads \ {t} : drawing'[u] = drawing[u]
    BY <1>2
  <2> QED  BY <1>1, <1>2, <1>3, <2>1, <2>2, <2>3, <2>4, EnterKept
<1>4. CASE ~R!Accepted(r, p)
  <2>1. R!Return(t, "unavailable", Unset) /\ UNCHANGED <<bucket, links, call, disturbed>>
    BY <1>4 DEF R!Draw, R!Stop
  <2>2. "unavailable" \in Outcomes /\ Unset \in AnyBytes
    BY DEF Outcomes, AnyBytes
  <2>3. /\ pc' \in [Threads -> RenderPositions]
        /\ answer' \in [Threads -> [outcome : Outcomes, bytes : AnyBytes]]
        /\ \A u \in Threads \ {t} : pc'[u] = pc[u] /\ answer'[u] = answer[u]
        /\ pc'[t] = "idle" /\ answer'[t].outcome = "unavailable"
    BY <1>1, <2>1, <2>2, ReturnIs
  <2>4. Origin(t)' /\ Placed(t)' /\ Published(t)' /\ Answered(t)'
    BY <1>1, <1>2, <2>1, <2>3 DEF Origin, Placed, Published, Answered, Serving
  <2> QED  BY <1>2, <2>1, <2>3, <2>4, QuietKept
<1> QED  BY <1>3, <1>4

\* rendering/service.py:89: the child fails, or the deadline kills it.
LEMMA RunFailsKept ==
    ASSUME RenderInv, NEW t \in Threads, R!RunFails(t)
    PROVE  RenderInv'
<1>1. /\ Typed /\ pc[t] \in {"verify", "draw"} /\ Origin(t) /\ Placed(t) /\ call[t] = Unset
      /\ drawing[t] # Unset
  BY DEF R!RunFails, RenderInv, Threaded, Origin, Placed
<1>2. UNCHANGED <<scenario, bucket, links, call, disturbed, drawing>>
  BY DEF R!RunFails, R!Stop
<1>3. \E outcome \in {"timeout", "unavailable"} : R!Return(t, outcome, Unset)
  BY DEF R!RunFails, R!Stop
<1>4. {"timeout", "unavailable"} \subseteq Outcomes /\ Unset \in AnyBytes
  BY DEF Outcomes, AnyBytes
<1>5. /\ pc' \in [Threads -> RenderPositions]
      /\ answer' \in [Threads -> [outcome : Outcomes, bytes : AnyBytes]]
      /\ \A u \in Threads \ {t} : pc'[u] = pc[u] /\ answer'[u] = answer[u]
      /\ pc'[t] = "idle" /\ answer'[t].outcome \in {"timeout", "unavailable"}
  BY <1>1, <1>3, <1>4, ReturnIs
<1>6. Origin(t)' /\ Placed(t)' /\ Published(t)' /\ Answered(t)'
  BY <1>1, <1>2, <1>5 DEF Origin, Placed, Published, Answered, Serving
<1> QED  BY <1>2, <1>5, <1>6, QuietKept

\* The version of the runtime is the pinned one.
LEMMA VerifyKept ==
    ASSUME RenderInv, NEW t \in Threads, R!Verify(t)
    PROVE  RenderInv'
<1>1. /\ Typed /\ pc[t] = "verify" /\ Origin(t) /\ Placed(t) /\ call[t] = Unset
      /\ drawing[t] # Unset /\ answer[t].outcome = "none"
  BY DEF R!Verify, RenderInv, Threaded, Origin, Placed
<1>2. UNCHANGED <<scenario, bucket, links, call, disturbed, drawing>>
  BY DEF R!Verify
<1>3. R!Goto(t, "draw") /\ "draw" \in RenderPositions
  BY DEF R!Verify, RenderPositions
<1>4. /\ pc' \in [Threads -> RenderPositions] /\ UNCHANGED answer
      /\ pc'[t] = "draw" /\ \A u \in Threads \ {t} : pc'[u] = pc[u]
  BY <1>1, <1>3, GotoIs
<1>5. Origin(t)' /\ Placed(t)' /\ Published(t)' /\ Answered(t)'
  BY <1>1, <1>2, <1>4 DEF Origin, Placed, Published, Answered, Serving
<1>6. answer' \in [Threads -> [outcome : Outcomes, bytes : AnyBytes]]
  BY <1>1, <1>4 DEF Typed
<1> QED  BY <1>2, <1>4, <1>5, <1>6, QuietKept

\* rendering/api.py:73, :82: a request to draw.
LEMMA ReceiveKept ==
    ASSUME R!CallsAssumption, RenderInv, NEW t \in Threads, NEW r \in Renders, R!Receive(t, r)
    PROVE  RenderInv'
<1>1. Typed /\ pc[t] = "idle" /\ r # Unset /\ UNCHANGED <<scenario, bucket, links>>
  BY DEF R!Receive, RenderInv, R!CallsAssumption
<1>2. /\ drawing' \in [Threads -> Renders \cup {Unset}] /\ drawing'[t] = r
      /\ call' \in [Threads -> Asked \cup Drawn \cup {Unset}] /\ call'[t] = Unset
      /\ \A u \in Threads \ {t} : drawing'[u] = drawing[u] /\ call'[u] = call[u]
      /\ disturbed' = disturbed \ {t}
  BY <1>1 DEF R!Receive, Typed
<1>3. \/ \E outcome \in {"invalid", "unavailable"} : R!Return(t, outcome, Unset)
      \/ \E label \in {"draw", "verify"} :
            /\ pc' = [pc EXCEPT ![t] = label] /\ answer' = [answer EXCEPT ![t] = R!NoAnswer]
  <2>1. r.renderer \in {"plantuml", "diagrams"}
    BY DEF R!CallsAssumption, R!RenderOk
  <2> QED  BY <2>1 DEF R!Receive
<1>4. /\ {"invalid", "unavailable"} \subseteq Outcomes /\ Unset \in AnyBytes
      /\ {"draw", "verify"} \subseteq RenderPositions
      /\ R!NoAnswer \in [outcome : Outcomes, bytes : AnyBytes] /\ R!NoAnswer.outcome = "none"
  BY DEF Outcomes, AnyBytes, RenderPositions, R!NoAnswer
<1>5. /\ pc' \in [Threads -> RenderPositions]
      /\ answer' \in [Threads -> [outcome : Outcomes, bytes : AnyBytes]]
      /\ \A u \in Threads \ {t} : pc'[u] = pc[u] /\ answer'[u] = answer[u]
      /\ \/ pc'[t] = "idle" /\ answer'[t].outcome \in {"invalid", "unavailable"}
         \/ pc'[t] \in {"draw", "verify"} /\ answer'[t].outcome = "none"
  <2>1. CASE \E outcome \in {"invalid", "unavailable"} : R!Return(t, outcome, Unset)
    BY <1>1, <1>4, <2>1, ReturnIs
  <2>2. CASE \E label \in {"draw", "verify"} :
                /\ pc' = [pc EXCEPT ![t] = label] /\ answer' = [answer EXCEPT ![t] = R!NoAnswer]
    BY <1>1, <1>4, <2>2 DEF Typed
  <2> QED  BY <1>3, <2>1, <2>2
<1>6. Origin(t)' /\ Placed(t)' /\ Published(t)' /\ Answered(t)'
  BY <1>1, <1>2, <1>5 DEF Origin, Placed, Published, Answered, Serving
<1>7. Typed' /\ LeavesAlone(t)
  BY <1>1, <1>2, <1>5 DEF Typed, LeavesAlone
<1>8. AllLinks' /\ AllKeys'
  BY <1>1 DEF RenderInv, AllLinks, AllKeys, KeyTrue
<1> QED  BY <1>6, <1>7, <1>8, ThreadsKept DEF RenderInv

\* artifacts.py:517, ARTIFACT_PRESIGN_SECONDS, and a service that loses objects.
LEMMA OutsideKept ==
    ASSUME R!CallsAssumption, RenderInv, R!Outside, UNCHANGED drawing
    PROVE  RenderInv'
<1>1. Unset \notin Threads /\ Typed
  BY DEF R!CallsAssumption, RenderInv
<1>2. ASSUME NEW l \in links, R!Expire(l) PROVE RenderInv'
  <2>1. /\ UNCHANGED <<scenario, bucket, pc, call, answer, disturbed, drawing>>
        /\ links' \subseteq links
    BY <1>2 DEF R!Expire
  <2> QED  BY <2>1 DEF RenderInv, Typed, Threaded, Origin, Placed, AllPublished, Published,
                     AllAnswered, Answered, AllLinks, AllKeys, KeyTrue
<1>3. ASSUME NEW k \in Keys, NEW p \in AnyBytes, R!Change(k, p, Unset),
             UNCHANGED <<scenario, links, pc, call, answer>>,
             k.digest # Unset => p \in {Unset, Garbled, k.digest},
             k.folder = "renders" => p \in {Unset, Garbled}
      PROVE  RenderInv'
  <2>1. AllKeys'
    BY <1>1, <1>3, KeysChange DEF RenderInv
  <2>2. /\ bucket' \in [Keys -> AnyBytes] /\ disturbed \subseteq disturbed'
        /\ disturbed' \subseteq Threads
    BY <1>1, <1>3, ChangeIs
  <2>3. \A u \in Threads : call[u] # Unset =>
            u \in disturbed' \/ bucket'[R!KeyOf(call[u])] = bucket[R!KeyOf(call[u])]
    BY <1>1, <1>3, ChangeLeaves
  <2>4. LeavesAlone(Unset)
    BY <1>3, <2>2, <2>3 DEF LeavesAlone
  <2>5. Typed' /\ AllLinks'
    BY <1>1, <1>3, <2>2 DEF Typed, RenderInv, AllLinks
  <2> QED  BY <1>1, <2>1, <2>4, <2>5, ThreadsKept DEF RenderInv
<1>4. ASSUME NEW l \in links, NEW p \in Payloads, R!Upload(l, p) PROVE RenderInv'
  <2>1. /\ l.method = "PUT" /\ R!Change(l.key, p, Unset)
        /\ UNCHANGED <<scenario, links, pc, call, answer>>
    BY <1>4 DEF R!Upload
  <2>2. l.key \in Keys /\ l.key.digest = Unset /\ l.key.folder # "renders"
    BY <2>1 DEF RenderInv, AllLinks, LinkTrue
  <2>3. p \in AnyBytes
    BY DEF AnyBytes
  <2> QED  BY <1>3, <2>1, <2>2, <2>3
<1>5. ASSUME NEW k \in Keys, R!Lose(k) PROVE RenderInv'
  <2>1. /\ R!Change(k, Unset, Unset) /\ UNCHANGED <<scenario, links, pc, call, answer>>
        /\ Unset \in AnyBytes
    BY <1>5 DEF R!Lose, AnyBytes
  <2> QED  BY <1>3, <2>1
<1> QED  BY <1>2, <1>4, <1>5 DEF R!Outside

(***************************************************************************)
(* The theorems                                                            *)
(***************************************************************************)
\* Nothing is stored and nothing asked at first.
LEMMA IInvInit ==
    ASSUME R!Init
    PROVE  RenderInv
<1>1. /\ scenario \in RenderScenarios /\ pc = [t \in Threads |-> "idle"]
      /\ bucket = [k \in Keys |-> Unset] /\ links = {}
      /\ call = [t \in Threads |-> Unset] /\ answer = [t \in Threads |-> R!NoAnswer]
      /\ disturbed = {} /\ drawing = [t \in Threads |-> Unset]
  BY DEF R!Init, R!StoreInit, R!Fresh
<1>2. R!NoAnswer \in [outcome : Outcomes, bytes : AnyBytes] /\ R!NoAnswer.outcome = "none"
  BY DEF R!NoAnswer, Outcomes, AnyBytes
<1>3. "idle" \in RenderPositions /\ Unset \in AnyBytes
  BY DEF RenderPositions, AnyBytes
<1>4. Typed
  BY <1>1, <1>2, <1>3 DEF Typed
<1>5. ASSUME NEW t \in Threads
      PROVE  Origin(t) /\ Placed(t) /\ Published(t) /\ Answered(t)
  BY <1>1, <1>2 DEF Origin, Placed, Published, Answered, Serving
<1>6. AllLinks /\ AllKeys
  BY <1>1 DEF AllLinks, AllKeys, KeyTrue
<1> QED  BY <1>4, <1>5, <1>6 DEF RenderInv, Threaded, AllPublished, AllAnswered

\* The invariant is inductive.
LEMMA IInvNext ==
    ASSUME R!CallsAssumption, RenderInv, [R!Next]_<<R!vars, drawing>>
    PROVE  RenderInv'
<1>1. CASE UNCHANGED <<R!vars, drawing>>
  BY <1>1 DEF R!vars, RenderInv, Typed, Threaded, Origin, Placed, AllPublished, Published,
              AllAnswered, Answered, AllLinks, AllKeys, KeyTrue
<1>2. ASSUME NEW t \in Threads, R!StoreStep(t), UNCHANGED drawing PROVE RenderInv'
  BY <1>2, PutKept, ReadbackKept, GetKept, DeleteKept, LinkKept DEF R!StoreStep
<1>3. CASE R!Next
  BY <1>2, <1>3, ReceiveKept, VerifyKept, RunFailsKept, DrawKept, BeginKept, OutsideKept DEF R!Next
<1> QED  BY <1>1, <1>3

\* artifacts.py, rendering/service.py: the strengthening the other two rest on.
THEOREM RenderInvariant ==
    ASSUME R!CallsAssumption
    PROVE  R!Spec => []RenderInv
<1>1. R!Init => RenderInv
  BY IInvInit
<1>2. RenderInv /\ [R!Next]_<<R!vars, drawing>> => RenderInv'
  BY IInvNext
<1> QED  BY <1>1, <1>2, PTL DEF R!Spec

\* What the invariant says of the store.
LEMMA StoreFromInv ==
    ASSUME R!CallsAssumption, RenderInv
    PROVE  R!StoreSound
<1>1. R!NamedByDigest
  BY DEF RenderInv, AllKeys, KeyTrue, R!NamedByDigest
<1>2. R!LinksTrue
  BY DEF RenderInv, AllLinks, LinkTrue, R!LinksTrue
<1>3. ASSUME NEW t \in Threads, answer[t].outcome = "ok"
      PROVE  call[t] # Unset /\ R!Admissible(call[t]) /\ call[t].op \in Ops
  <2>1. call[t] # Unset /\ R!Admissible(call[t])
    BY <1>3 DEF RenderInv, Threaded, Placed
  <2> QED  BY <1>3, <2>1, CallIs DEF RenderInv, Typed
<1>4. R!ReadsTrue
  <2>1. ASSUME NEW t \in Threads, answer[t].outcome = "ok", call[t].op \in R!Reads
        PROVE  /\ R!KeyOf(call[t]).tenant = call[t].tenant
               /\ call[t].op # "refresh" => R!Matches(call[t], answer[t].bytes)
    BY <1>3, <2>1, TenantOfKey DEF RenderInv, AllAnswered, Answered
  <2> QED  BY <2>1 DEF R!ReadsTrue
<1>5. R!PublishedTrue
  BY <1>3 DEF RenderInv, AllPublished, Published, R!PublishedTrue
<1> QED  BY <1>1, <1>2, <1>4, <1>5 DEF R!StoreSound

\* artifacts.py: what is under a digest is the payload with that digest, what is
\* read is what its descriptor says, what was published is there until somebody
\* else is at it, and links open objects of their tenant, for any threads, keys,
\* calls and faults.
THEOREM StoreSoundHolds ==
    ASSUME R!CallsAssumption
    PROVE  R!Spec => []R!StoreSound
<1>1. RenderInv => R!StoreSound
  BY StoreFromInv
<1> QED  BY <1>1, RenderInvariant, PTL

\* What it says of drawings.
LEMMA RendersFromInv ==
    ASSUME R!CallsAssumption, RenderInv
    PROVE  R!RendersTrue
<1>1. ASSUME NEW t \in Threads, R!Status(t) = 200, drawing[t] # Unset
      PROVE  /\ R!Accepted(drawing[t], call[t].payload)
             /\ R!KeyOf(call[t]).tenant = drawing[t].tenant
             /\ R!KeyOf(call[t]).name = drawing[t].format
  <2>1. answer[t].outcome \in Outcomes
    BY <1>1 DEF RenderInv, Typed
  <2>2. answer[t].outcome = "ok"
    BY <1>1, <2>1 DEF R!Status, Outcomes
  <2>3. call[t] # Unset /\ Origin(t)
    BY <1>1, <2>2 DEF RenderInv, Threaded, Placed
  <2>4. PICK p \in Payloads : R!Accepted(drawing[t], p) /\ call[t] = R!RenderCall(drawing[t], p)
    BY <1>1, <2>3 DEF Origin
  <2>5. /\ call[t].op \in R!ContentWrites /\ call[t].payload = p
        /\ call[t].tenant = drawing[t].tenant /\ call[t].key.name = drawing[t].format
    BY <2>4, RenderCallIs, ContentOps
  <2> QED  BY <2>4, <2>5, ContentKeyIs
<1> QED  BY <1>1 DEF R!RendersTrue, RenderInv, AllKeys, KeyTrue

\* rendering/service.py:141, artifacts.py:286: only drawings are published, in
\* the format and for the tenant that were asked for, for any requests and
\* whatever the children draw.
THEOREM RendersTrueHolds ==
    ASSUME R!CallsAssumption
    PROVE  R!Spec => []R!RendersTrue
<1>1. RenderInv => R!RendersTrue
  BY RendersFromInv
<1> QED  BY <1>1, RenderInvariant, PTL

(***************************************************************************)
(* Part three: both in the same processes                                  *)
(***************************************************************************)
\* The service that runs keeps its invariant, the other one is as it was.
ServicesInv ==
    \/ scenario \in Scenarios /\ LayoutInv /\ RenderRests
    \/ scenario \in RenderScenarios /\ RenderInv /\ Fresh

LEMMA ServicesInvInit == ServicesInit => ServicesInv
<1>1. ASSUME Init, RenderRests PROVE ServicesInv
  BY <1>1, InitSound DEF Init, ServicesInv
<1>2. ASSUME R!Init, Fresh PROVE ServicesInv
  BY <1>2, IInvInit DEF ServicesInv, RenderInv, Typed
<1> QED  BY <1>1, <1>2 DEF ServicesInit

\* A step is one of the service that runs.
LEMMA ServicesInvNext ==
    ASSUME ServicesInv, [ServicesNext]_<<sharedVars, layoutVars, renderVars>>
    PROVE  ServicesInv'
<1>1. CASE scenario \in Scenarios /\ LayoutInv /\ RenderRests
  <2>1. [Next]_vars /\ UNCHANGED renderVars
    BY <1>1, ScenariosApart DEF ServicesNext, vars, sharedVars, layoutVars, renderVars
  <2>2. LayoutInv'
    BY <1>1, <2>1, ThreadsStep, CachesStep DEF LayoutInv
  <2>3. RenderRests'
    BY <1>1, <2>1 DEF RenderRests, renderVars, R!Fresh
  <2> QED  BY <2>2, <2>3 DEF ServicesInv, LayoutInv, ThreadsSound, ThreadTypes
<1>2. CASE scenario \in RenderScenarios /\ RenderInv /\ Fresh
  <2>1. [R!Next]_<<R!vars, drawing>> /\ UNCHANGED layoutVars
    BY <1>2, ScenariosApart DEF ServicesNext, R!vars, sharedVars, layoutVars, renderVars
  <2>2. RenderInv'
    BY <1>2, <2>1, IInvNext, CallsOk
  <2>3. Fresh'
    BY <1>2, <2>1 DEF Fresh, layoutVars
  <2> QED  BY <2>2, <2>3 DEF ServicesInv, RenderInv, Typed
<1> QED  BY <1>1, <1>2 DEF ServicesInv

LEMMA ServicesInvariant == ServicesSpec => []ServicesInv
<1>1. ServicesInv /\ [ServicesNext]_<<sharedVars, layoutVars, renderVars>> => ServicesInv'
  BY ServicesInvNext
<1> QED  BY <1>1, ServicesInvInit, PTL DEF ServicesSpec

\* A store nobody has used, and empty caches, are sound.
LEMMA RestSound ==
    /\ RenderRests => R!StoreSound /\ R!RendersTrue
    /\ Fresh => CachesSound
<1>1. ASSUME RenderRests PROVE R!StoreSound /\ R!RendersTrue
  <2>1. \A t \in Threads : answer[t].outcome = "none" /\ drawing[t] = Unset
    BY <1>1 DEF RenderRests, R!Fresh, R!NoAnswer
  <2>2. links = {} /\ \A k \in Keys : bucket[k] = Unset
    BY <1>1 DEF RenderRests, R!Fresh
  <2> QED  BY <2>1, <2>2 DEF R!StoreSound, R!NamedByDigest, R!ReadsTrue, R!PublishedTrue,
                             R!LinksTrue, R!RendersTrue
<1>2. ASSUME Fresh PROVE CachesSound
  <2>1. valkey = {} /\ \A p \in Procs : memory[p] = <<>>
    BY <1>2 DEF Fresh
  <2>2. valkey \cup (UNION {ToSet(memory[p]) : p \in Procs}) = {}
    BY <2>1 DEF ToSet
  <2> QED  BY <2>1, <2>2, ConstantsAssumption DEF CachesSound
<1> QED  BY <1>1, <1>2

\* layout/cache.py, artifacts.py, rendering/service.py: in the processes that run
\* both services, for any requests, calls and faults of either, the caches are
\* bounded and true to their keys, the store is true to its digests, readers and
\* links, and only drawings are published.
THEOREM ServicesSoundHolds == ServicesSpec => []ServicesSound
<1>1. ServicesInv => ServicesSound
  BY RestSound, CachesFromInv, StoreFromInv, RendersFromInv, CallsOk DEF ServicesInv, ServicesSound
<1> QED  BY <1>1, ServicesInvariant, PTL

\* Next to the rendering service too the layout service keeps its contract.
THEOREM ServicesServeContract == ServicesSpec => ServesContract
<1>1. ServicesInit => Contract!Init
  <2>1. ASSUME Fresh PROVE Contract!Init
    BY <2>1, FreshRefines
  <2> QED  BY <2>1 DEF ServicesInit, Init
<1>2. ServicesInv /\ [ServicesNext]_<<sharedVars, layoutVars, renderVars>>
      => [Contract!Next]_(Contract!vars)
  <2> SUFFICES ASSUME ServicesInv, [ServicesNext]_<<sharedVars, layoutVars, renderVars>>
               PROVE  [Contract!Next]_(Contract!vars)
    OBVIOUS
  <2>1. CASE scenario \in Scenarios /\ LayoutInv /\ RenderRests
    <3>1. [Next]_vars
      BY <2>1, ScenariosApart DEF ServicesNext, vars, sharedVars, layoutVars, renderVars
    <3> QED  BY <2>1, <3>1, StepRefines
  <2>2. CASE scenario \in RenderScenarios /\ RenderInv /\ Fresh
    <3>1. UNCHANGED layoutVars
      BY <2>2, ScenariosApart DEF ServicesNext, sharedVars, layoutVars, renderVars
    <3> QED  BY <3>1 DEF layoutVars, Contract!vars
  <2> QED  BY <2>1, <2>2 DEF ServicesInv
<1> QED
  BY <1>1, <1>2, ServicesInvariant, PTL DEF ServicesSpec, ServesContract, Contract!Spec

=============================================================================
