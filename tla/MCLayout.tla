------------------------------ MODULE MCLayout ------------------------------
(* Small instances of LayoutService. *)
EXTENDS LayoutService
CONSTANTS a, b, t1, t2, t3, acme, other, None
const_ProcOf == [t \in {t1, t2, t3} |-> IF t = t3 THEN b ELSE a]
N(id, kind) == [id |-> id, kind |-> kind, cluster |-> None, sized |-> TRUE]
Edge(id, from, to, kind) == [id |-> id, from |-> from, to |-> to, kind |-> kind]
Graph(nodes, edges) ==
    [wire |-> "ok", tenant |-> acme, class |-> Unset, nodes |-> nodes, edges |-> edges,
     focus |-> Unset, big |-> FALSE]
Two == <<N(1, "work"), N(2, "verify")>>
Line == Graph(Two, <<Edge(1, 1, 2, "verifies")>>)
Turned == Graph(<<N(2, "verify"), N(1, "work")>>, <<Edge(1, 1, 2, "verifies")>>)
Ring == Graph(Two, <<Edge(1, 1, 2, "e"), Edge(2, 2, 1, "e")>>)
Dense == Graph(<<N(1, "n"), N(2, "n"), N(3, "n")>>,
               [i \in 1..6 |-> Edge(i, (i % 3) + 1, ((i + 1) % 3) + 1, "e")])
Tree == Graph(<<[N(1, "n") EXCEPT !.cluster = acme], N(2, "n")>>, <<Edge(1, 1, 2, "contains")>>)
Loop == Graph(Two, <<Edge(1, 1, 1, "e")>>)
OfClass(r, c) == [r EXCEPT !.class = c]
Classes == {"plan_dag", "derivation", "query_plan", "code_map_large", "neighborhood",
            "ego_radial", "cyclic_ring", "containment", "code_map_small"}
AllKinds ==
    {Line, Turned, Ring, Dense, Tree, Loop, [Line EXCEPT !.big = TRUE],
     [Line EXCEPT !.focus = 1], [OfClass(Line, "ego_radial") EXCEPT !.focus = 2],
     [OfClass(Line, "ego_radial") EXCEPT !.focus = 3],
     [Line EXCEPT !.nodes = <<N(1, "n"), N(1, "n")>>],
     [Line EXCEPT !.edges = @ \o @], [Line EXCEPT !.nodes = <<>>],
     [Line EXCEPT !.nodes = <<N(1, "work")>>],
     [Line EXCEPT !.nodes[1].sized = FALSE]}
    \cup {OfClass(Line, c) : c \in Classes} \cup {OfClass(Dense, "neighborhood")}
    \cup {[Line EXCEPT !.wire = w] : w \in {"length", "unread", "long", "mismatch"}}
Scenario(requests, threads, n, days, outages) ==
    [requests |-> requests, threads |-> threads, asks |-> n, days |-> days, faults |-> outages]
const_Scenarios ==
    {Scenario(AllKinds, {t1}, 1, 0, 0),
     Scenario({Line, OfClass(Line, "query_plan"), [Line EXCEPT !.tenant = other]}, {t1, t3}, 2, 0, 1),
     Scenario({Line, Turned}, {t1, t2}, 2, 1, 1),
     Scenario({Line, Ring}, {t1}, 3, 1, 1)}
=============================================================================
