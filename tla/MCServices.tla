---------------------------- MODULE MCServices ----------------------------
(* Small instances of LayoutService and RenderService. *)
EXTENDS Services, MCLayout

CONSTANT orders

Bytes(n, t, f) == [size |-> n, table |-> t, form |-> f]
Svg == Bytes(1, Unset, "svg")
Png == Bytes(1, Unset, "png")
Diagnostic == Bytes(1, Unset, "diagnostic")
Table(rows) == Bytes(2, [schema |-> orders, rows |-> rows], "none")
Huge == Bytes(3, Unset, "svg")
Empty == Bytes(0, Unset, "none")
Key(folder, name) ==
    [tenant |-> acme, folder |-> folder, name |-> name, digest |-> Unset, clean |-> TRUE]
Call(op, key, payload, expect) ==
    [op |-> op, tenant |-> acme, key |-> key, payload |-> payload, expect |-> expect,
     proper |-> TRUE]
Input == Key("inputs", "1")
Of(key, p) == [key EXCEPT !.digest = p]
Is(p) == [digest |-> p, table |-> Unset]
RenderKey(f, p) == Of(Key("renders", f), p)
Contents ==
    {Call("web", Key("web", "text"), Empty, Unset), Call("rl", Key("rl", "run"), Table(1), Unset),
     Call("competence", Key("competence", "prior_pack"), Png, Unset)}
TableCalls ==
    {Call("table", Input, Table(1), Unset), Call("table", Input, Table(2), Unset),
     Call("get", Input, Unset, [digest |-> Table(1), table |-> Table(1).table]),
     Call("get", Input, Unset, [digest |-> Unset, table |-> Table(2).table])}
Refresh(p, f) == Call("refresh", RenderKey(f, p), Unset, Is(p))
WebRead == Call("read_web", Of(Key("web", "text"), Empty), Unset, Is(Empty))
OtherCalls ==
    {Call("delete_competence", Of(Key("competence", "prior_pack"), Png), Unset, Unset),
     Call("delete", Of(Key("rl", "run"), Table(1)), Unset, Unset), WebRead,
     Call("presign_get", Input, Unset, Unset), Call("presign_put", Input, Unset, Unset)}
Dotted == [Key("rl", "..") EXCEPT !.clean = FALSE]
Improper ==
    {Call("rl", Dotted, Table(1), Unset)} \cup {[c EXCEPT !.proper = FALSE] : c \in Contents \cup {WebRead}}
    \cup {[c EXCEPT !.tenant = other] : c \in TableCalls \cup OtherCalls \cup {Refresh(Svg, "svg")}}
    \cup {[c EXCEPT !.key.clean = FALSE] : c \in OtherCalls}
    \cup {[c EXCEPT !.payload = Huge] : c \in {x \in Contents \cup TableCalls : x.payload # Unset}}
    \cup {[c EXCEPT !.payload = Empty] : c \in Contents}
    \cup {[WebRead EXCEPT !.expect = Is(Svg)], [Refresh(Svg, "svg") EXCEPT !.key = Input]}
Request(renderer, source, format, runtime) ==
    [renderer |-> renderer, source |-> source, format |-> format, tenant |-> acme,
     runtime |-> runtime]
const_Renders ==
    {Request("plantuml", s, "svg", r) : s \in {"blank", "refused", "fine"}, r \in BOOLEAN}
    \cup {Request("diagrams", s, f, TRUE) : s \in {"blank", "refused", "fine"}, f \in {"svg", "png"}}
const_Payloads == {Svg, Png, Diagnostic, Table(1), Huge, Empty}
const_Keys ==
    {Input, Of(Dotted, Table(1))} \cup {RenderKey(f, p) : f \in {"svg", "png"}, p \in const_Payloads}
    \cup {Of(c.key, p) : c \in Contents, p \in const_Payloads}
    \cup {[c.key EXCEPT !.clean = FALSE] : c \in OtherCalls}
RenderScenario(calls, renders, threads, n, broken) ==
    [calls |-> calls, renders |-> renders, threads |-> threads, asks |-> n, faults |-> broken]
const_RenderScenarios ==
    {RenderScenario(Contents \cup TableCalls \cup OtherCalls \cup Improper, const_Renders, {t1}, 1, 1),
     RenderScenario(TableCalls \cup {Call("presign_put", Input, Unset, Unset)}, {}, {t1, t2}, 3, 0),
     RenderScenario(Contents \cup OtherCalls, {}, {t1, t2}, 2, 1),
     RenderScenario({Refresh(Svg, "svg")}, {Request("plantuml", "fine", "svg", TRUE)}, {t1, t2}, 3, 1)}
=============================================================================
