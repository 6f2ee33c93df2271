----------------------------- MODULE MCPrograms -----------------------------
(* Small instances of the programs. *)
EXTENDS Programs, SequencesExt

CONSTANTS p1, p2, x, y

(***************************************************************************)
(* Characters: 1 and 2 are letters, 11 is the capital of 1, and 9 folds to *)
(* two letters.  A table is its schema and rows.                           *)
(***************************************************************************)
const_CaseFold == 1 :> <<1>> @@ 2 :> <<2>> @@ 11 :> <<1>> @@ 9 :> <<1, 1>>
Bytes(schema, table) == [arrow |-> TRUE, schema |-> schema, table |-> table, size |-> Len(table)]
Ask(image, op, bytes) ==
    [image |-> image, op |-> op, proper |-> TRUE, max |-> 5, digest |-> bytes,
     schema |-> bytes.schema, rows |-> Len(bytes.table), hashes |-> TRUE]
Scenario(inputs, requests, replies, n, broken) ==
    [inputs |-> inputs, requests |-> requests, replies |-> replies, tries |-> n, faults |-> broken]
NoReply == [chunks |-> <<>>, concepts |-> <<>>, records |-> <<>>]
Lists(n, k) == UNION {[1..i -> (1..n) \X (1..n)] : i \in 0..k}
Graphs == {Bytes("edges", e) : e \in Lists(4, 2) \cup Lists(3, 3)}
Edge == Bytes("edges", <<<<1, 2>>>>)
NotArrow == [Edge EXCEPT !.arrow = FALSE]
Passage(id, text) == [id |-> id, text |-> text]
Passages == Bytes("passages", <<Passage("a", <<1, 2, 1, 2>>), Passage("b", <<11, 9, 2>>)>>)
Short == Bytes("passages", <<Passage("a", <<1, 2>>)>>)
Twin == Bytes("passages", <<Passage("a", <<2, 1>>)>>)
Doubled == Bytes("passages", <<Passage("a", <<1, 2>>), Passage("a", <<2, 1>>)>>)
Fact(stage, subject, object) == [stage |-> stage, subject |-> subject, object |-> object]
Chunk(id, text, facts) == [id |-> id, text |-> text, facts |-> facts]
Chunks ==
    {Chunk("a", t, <<Fact("entity_relation", s, "x")>>) :
        t \in {<<1, 2>>, <<2, 1>>, <<2, 2>>}, s \in {<<2>>, <<11>>}}
    \cup {Chunk("b", <<11, 9, 2>>, <<Fact("event_entity", <<1>>, "x"), Fact("event_entity", <<2>>, "x")>>),
          Chunk("c", <<1>>, <<>>)}
Concept(node) == [node |-> node, concept |-> "y"]
AtlasReplies ==
    {[NoReply EXCEPT !.chunks = c, !.concepts = k] :
        c \in UNION {[1..i -> Chunks] : i \in 0..2}, k \in {<<>>, <<Concept(<<1>>), Concept(<<11>>)>>}}
Record(label) == [label |-> label, body |-> "z"]
Records ==
    {<<>>, <<Record(<<1>>), Record(<<1>>)>>, <<Record(None)>>, <<Record(<<9>>)>>}
TypedReplies == {[NoReply EXCEPT !.records = <<r, s>>] : r, s \in Records}
Good == {Ask("contract", "community", Edge), Ask("extraction", "atlas", Short)}
Improper ==
    {[r EXCEPT !.proper = FALSE] : r \in Good} \cup {[r EXCEPT !.rows = None] : r \in Good}
    \cup {[r EXCEPT !.max = m] : r \in Good, m \in {None, 0}}
    \cup {[Ask("contract", "community", Edge) EXCEPT !.rows = 2],
          [Ask("contract", "community", Edge) EXCEPT !.schema = "passages"],
          [Ask("extraction", "typed", Short) EXCEPT !.hashes = FALSE],
          Ask("contract", "embed", Edge), Ask("extraction", "typed", Edge),
          Ask("contract", "community", Short)}
const_PodScenarios ==
    {Scenario({g}, {Ask("contract", "community", g)}, {NoReply}, 1, 0) : g \in Graphs}
    \cup {Scenario({b}, Improper, {NoReply}, 1, 0) : b \in {Edge, Short}}
    \cup {Scenario({NotArrow}, {Ask("contract", "community", NotArrow)}, {NoReply}, 1, 0),
          Scenario({Passages}, {Ask("extraction", "atlas", Passages)}, AtlasReplies, 1, 0),
          Scenario({Passages}, {Ask("extraction", "typed", Passages)}, TypedReplies, 1, 0),
          Scenario({Doubled}, {Ask("extraction", "typed", Doubled)}, TypedReplies, 1, 0),
          Scenario({Short, Twin, Passages}, {Ask("extraction", "typed", b) : b \in {Short, Passages}},
              {[NoReply EXCEPT !.records = <<<<Record(<<c>>)>>>>] : c \in {1, 2}}, 3, 2)}

(***************************************************************************)
(* Receipts of the two required tests, and downloads.                      *)
(***************************************************************************)
Case(test, ok) == [test |-> test, passed |-> ok]
Receipt(bad, cases) == [tests |-> Len(cases), skipped |-> 0, failures |-> bad, cases |-> cases]
const_Receipts ==
    {None, Receipt(0, <<Case(x, TRUE)>>), Receipt(1, <<Case(x, TRUE), Case(y, FALSE)>>)}
    \cup {Receipt(0, <<Case(x, TRUE), c>>) : c \in {Case(x, TRUE), Case(y, TRUE), Case(y, FALSE)}}
Body(declared, length, genuine) == [declared |-> declared, length |-> length, genuine |-> genuine]
const_Bodies ==
    {Body(None, 1, TRUE), Body(None, 1, FALSE), Body(2, 1, TRUE), Body(3, 3, TRUE)}

\* Hosts without and with a working Docker, local or not; declared files.
const_Hosts ==
    [docker : BOOLEAN, version : {"ok", "fails"}, endpoint : {"local", "remote"},
     info : {"ok", "fails", "raises"}]
const_Files == [docker : {TRUE}, requirements : BOOLEAN, ignore : {TRUE}, space : BOOLEAN]
=============================================================================
