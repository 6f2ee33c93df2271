------------------------- MODULE ControlPlaneProofs -------------------------
(***************************************************************************)
(* Proofs about ControlPlane: that the shadow rows follow WorkOS, that the *)
(* caches follow the rows, that no usage report is lost, and that a        *)
(* deletion removes its own membership.  What rows edited by hand leave    *)
(* standing is Typed, Fit, Locked and KeyDropped; the rest is Kept by      *)
(* every other step.                                                       *)
(***************************************************************************)
EXTENDS ControlPlane, TLAPS

(***************************************************************************)
(* The invariant                                                           *)
(***************************************************************************)
Labels == {"idle", "user", "org", "orgcreate", "orgcache", "member", "membersave",
           "memberfind", "memberdelete", "evict", "accumulate"}
AllSlugs == Slugs \cup {NoSlug, Taken}
Numbers == Nat \ {0}
UserEvents == [n : Numbers, kind : {"user"}, up : BOOLEAN, slug : {NoSlug}, member : {NoMember}]
OrgEvents == [n : Numbers, kind : {"org"}, up : {TRUE}, slug : Slugs, member : {NoMember}]
MemberEvents == [n : Numbers, kind : {"member"}, up : BOOLEAN, slug : {NoSlug},
                 member : [id : Numbers, role : Roles]]
Events == UserEvents \cup OrgEvents \cup MemberEvents
Memberships == [id : Numbers, role : Roles] \cup {NoMember}
StoredRows == [id : Numbers, role : {"viewer", "member"}] \cup {NoMember}
Locals == [event : Events \cup {NoEvent}, row : Rows \cup {0}, slug : AllSlugs, count : Nat]

\* Every variable keeps its range.
Typed ==
    /\ truth \in [user : {"none", "active", "deleted"}, slug : Slugs \cup {NoSlug},
                  member : Memberships]
    /\ sent \in Nat /\ events \subseteq Events
    /\ user \in {"none", "active", "inactive"}
    /\ tenant \in [Rows -> [slug : AllSlugs, org : BOOLEAN, active : BOOLEAN]]
    /\ member \in [Rows -> StoredRows]
    /\ valkey \in Slugs \cup {NoSlug} /\ memory \in Slugs \cup {NoSlug}
    /\ peers \subseteq AllSlugs \X {"viewer", "member"}
    /\ key \in {"none", "active", "revoked"}
    /\ form \in {"closed", "active", "revoked"}
    /\ peerKey \in BOOLEAN /\ revoking \in BOOLEAN
    /\ counter \in Nat /\ applied \in Nat
    /\ pc \in [Workers -> Labels]
    /\ loc \in [Workers -> Locals]
    /\ last \in [Kinds -> Nat] /\ irregular \subseteq Oddities

\* The steps on the counters of usage that an operator takes.
Counted == ResetUsage \/ EditUsage

Handling(w) == pc[w] \notin {"idle", "accumulate"}
InHand == {loc[w].event : w \in {v \in Workers : Handling(v)}}
Known == events \cup InHand

\* The event of a worker is one its position handles.
HandFits(w) ==
    /\ pc[w] = "user" => loc[w].event \in UserEvents
    /\ pc[w] \in {"org", "orgcreate", "orgcache"} => loc[w].event \in OrgEvents
    /\ pc[w] \in {"member", "membersave"} => loc[w].event \in MemberEvents /\ loc[w].event.up
    /\ pc[w] \in {"memberfind", "memberdelete"} =>
          loc[w].event \in MemberEvents /\ ~loc[w].event.up
    /\ pc[w] = "evict" => loc[w].event \in MemberEvents
Fit == \A w \in Workers : HandFits(w)

\* What the position of a worker says of its event and its row.
WorkerStands(w) ==
    /\ pc[w] = "user" => loc[w].event \in UserEvents
    /\ pc[w] \in {"org", "orgcreate", "orgcache"} => loc[w].event \in OrgEvents
    /\ pc[w] \in {"member", "membersave"} => loc[w].event \in MemberEvents /\ loc[w].event.up
    /\ pc[w] \in {"memberfind", "memberdelete"} =>
          loc[w].event \in MemberEvents /\ ~loc[w].event.up
    /\ pc[w] = "evict" => loc[w].event \in MemberEvents
    /\ pc[w] \in {"orgcache", "membersave", "memberdelete"} => loc[w].row \in Bound
Stands ==
    /\ \A w \in Workers : WorkerStands(w)
    /\ \A r \in Rows : member[r] # NoMember => r \in Bound

\* The organization's row is active: each of its events makes it so.
Active == \A r \in Bound : tenant[r].active

\* The row lock: what an accumulate has read is still there.
Locked ==
    /\ \A w \in Workers : pc[w] = "accumulate" => loc[w].count = counter
    /\ \A v, w \in Workers : pc[v] = "accumulate" /\ pc[w] = "accumulate" => v = w
    /\ UsageExact

\* A form that shows a revoked key was opened after the revocation.
KeyDropped ==
    /\ Never({"retyped"}) => (form = "revoked" => key = "revoked")
    /\ key = "revoked" /\ ~revoking /\ Never({"outage", "retyped"}) => ~peerKey

\* While handlers have not overlapped, one works at a time, on one row.
Alone ==
    /\ \A v, w \in Workers : Handling(v) /\ Handling(w) => v = w
    /\ \A q, r \in Bound : q = r
    /\ \A w \in Workers :
          /\ pc[w] = "orgcreate" => Bound = {}
          /\ pc[w] = "orgcache" =>
                tenant[loc[w].row] = [slug |-> loc[w].event.slug, org |-> TRUE, active |-> TRUE]
          /\ pc[w] = "memberdelete" => member[loc[w].row].id = loc[w].event.member.id
UnlessOverlap == Never({"overlap"}) => Alone

\* The slug in Valkey is the organization's, or about to be written.
SlugCached ==
    Never({"outage", "overlap", "lost"}) =>
        \/ valkey = NoSlug
        \/ \E r \in Bound : tenant[r].slug = valkey
        \/ \E w \in Workers : pc[w] = "orgcache"

\* The slug under which a membership is about to be evicted is its row's.
SlugHeld ==
    \A w \in Workers :
        pc[w] \in {"membersave", "memberdelete"} => tenant[loc[w].row].slug = loc[w].slug

\* A held membership is backed by a row, or by an eviction to come.
Backed(held) ==
    \/ \E r \in Rows : member[r] # NoMember /\ <<tenant[r].slug, member[r].role>> = held
    \/ \E w \in Workers : pc[w] = "evict" /\ loc[w].slug = held[1]

\* What a peer holds is a row, or about to be evicted.
PeersCached ==
    /\ Never({"renamed"}) => SlugHeld
    /\ Never({"outage", "lost", "renamed"}) => \A held \in peers : Backed(held)

\* m is the number of the latest event of each kind, and top the id of the
\* latest membership: what an event says of WorkOS, by its number.
Latest(m, top) ==
    /\ m \in [Kinds -> 0 .. sent] /\ top \in 0 .. sent /\ top <= m["member"]
    /\ \A k \in Kinds : last[k] <= m[k]
    /\ \A e \in Known : e.n <= m[e.kind]
UserNumbered(m) ==
    /\ m["user"] = 0 <=> truth.user = "none"
    /\ truth.user = "none" => user = "none" /\ m["member"] = 0
    /\ \A e \in Known : e.kind = "user" =>
          /\ e.n = m["user"] => (e.up <=> truth.user = "active")
          /\ e.n < m["user"] => e.up
OrgNumbered(m) ==
    /\ m["org"] = 0 <=> truth.slug = NoSlug
    /\ m["org"] = 0 => Bound = {}
    /\ \A e \in Known : e.kind = "org" /\ e.n = m["org"] => e.slug = truth.slug
MemberNumbered(m, top) ==
    /\ truth.member # NoMember => truth.member.id = top
    /\ m["member"] = 0 => truth.member = NoMember
    /\ top = 0 => \A r \in Rows : member[r] = NoMember
    /\ \A e \in Known : e.kind = "member" =>
          /\ e.member.id <= top /\ e.member.id <= e.n
          /\ e.up /\ e.n >= top => e.member.id = top
          /\ e.n = m["member"] =>
                /\ e.member.id = top
                /\ e.up => truth.member = e.member
                /\ ~e.up => truth.member = NoMember
          /\ ~e.up /\ truth.member # NoMember => e.member.id < top
Numbered(m, top) ==
    Latest(m, top) /\ UserNumbered(m) /\ OrgNumbered(m) /\ MemberNumbered(m, top)

\* Where an event is while nothing has been out of the ordinary.
Coming(k, n) == \E e \in events : e.kind = k /\ e.n = n
At(w, labels, n) == pc[w] \in labels /\ loc[w].event.n = n
Late(k) == \E e \in events : e.kind = k /\ e.up /\ e.n < last[k]
Ordered ==
    \A w \in Workers : Handling(w) =>
        /\ loc[w].event.n <= last[loc[w].event.kind]
        /\ loc[w].event.up => loc[w].event.n = last[loc[w].event.kind]
        /\ pc[w] = "member" => Bound # {}
UserMatches ==
    user = CASE truth.user = "none" -> "none"
             [] truth.user = "active" -> "active"
             [] truth.user = "deleted" -> "inactive"
UserFollows(m) ==
    m["user"] # 0 =>
        /\ \/ Coming("user", m["user"])
           \/ last["user"] = m["user"] /\
                 \/ \E w \in Workers : At(w, {"user"}, m["user"])
                 \/ UserMatches \/ Late("user")
        /\ user = "none" =>
              \/ \E e \in events : e.kind = "user" /\ e.up
              \/ \E w \in Workers : pc[w] = "user" /\ loc[w].event.up
OrgFollows(m) ==
    m["org"] # 0 =>
        \/ Coming("org", m["org"])
        \/ last["org"] = m["org"] /\
              \/ \E w \in Workers : At(w, {"org", "orgcreate"}, m["org"])
              \/ \E r \in Rows : Bound = {r} /\ tenant[r].slug = truth.slug
MemberMatches ==
    /\ truth.member # NoMember => Bound # {}
    /\ \A r \in Bound : member[r] = Stored(truth.member)
MemberFollows(m) ==
    m["member"] # 0 =>
        \/ Coming("member", m["member"])
        \/ last["member"] = m["member"] /\
              \/ \E w \in Workers :
                    At(w, {"member", "membersave", "memberfind", "memberdelete"}, m["member"])
              \/ MemberMatches \/ Late("member")
\* A membership reaches its row before its deletion does, or is late.
TopFollows(top) ==
    top # 0 =>
        \/ \E e \in events : e.kind = "member" /\ e.up /\ e.member.id = top
        \/ \E w \in Workers : pc[w] \in {"member", "membersave"} /\ loc[w].event.member.id = top
        \/ top <= last["member"] /\ \A r \in Rows : member[r] # NoMember => member[r].id = top
Follows(m, top) ==
    Ordered /\ UserFollows(m) /\ OrgFollows(m) /\ MemberFollows(m) /\ TopFollows(top)
Calm == Never({"late", "early", "overlap", "lost"})

Told(m, top) == Numbered(m, top) /\ (Calm => Follows(m, top))
Telling == \E m \in [Kinds -> 0 .. sent], top \in 0 .. sent : Told(m, top)

\* Until an operator edits a user, a tenant or a membership by hand.
Kept == Stands /\ Active /\ UnlessOverlap /\ SlugCached /\ PeersCached /\ Telling

IInv ==
    /\ Typed /\ Fit /\ Locked /\ KeyDropped
    /\ Never({"edited"}) => Kept

\* The empty database, WorkOS without a user, and idle workers are in range.
LEMMA TypedInit == Init => Typed
<1> SUFFICES ASSUME Init PROVE Typed
  OBVIOUS
<1>1. Idle \in Locals
  BY DEF Idle, AllSlugs, Locals
<1>2. NoTenant \in [slug : AllSlugs, org : BOOLEAN, active : BOOLEAN]
  BY DEF NoTenant, AllSlugs
<1>3. [slug |-> Taken, org |-> FALSE, active |-> TRUE] \in
         [slug : AllSlugs, org : BOOLEAN, active : BOOLEAN]
  BY DEF AllSlugs
<1>4. tenant \in [Rows -> [slug : AllSlugs, org : BOOLEAN, active : BOOLEAN]]
  BY <1>2, <1>3 DEF Init
<1>5. /\ pc \in [Workers -> Labels] /\ last \in [Kinds -> Nat] /\ irregular \subseteq Oddities
      /\ member \in [Rows -> StoredRows] /\ events \subseteq Events
      /\ peers \subseteq AllSlugs \X {"viewer", "member"}
  BY DEF Init, Labels, StoredRows
<1>6. truth \in [user : {"none", "active", "deleted"}, slug : Slugs \cup {NoSlug},
                 member : Memberships]
  BY DEF Init, Memberships
<1> QED
  BY <1>1, <1>4, <1>5, <1>6 DEF Init, Typed

\* A change at WorkOS keeps the ranges if what it says is in range.
LEMMA ChangeTyped ==
    ASSUME Typed, NEW now, NEW event, Change(now, event),
           now \in [user : {"none", "active", "deleted"}, slug : Slugs \cup {NoSlug},
                    member : Memberships],
           event \in Events
    PROVE  Typed'
  BY DEF Typed, Change, rowVars, cacheVars, keyVars, execVars

\* user.created, updated and deleted keep the ranges.
LEMMA UserChangeTyped == Typed /\ UserChange => Typed'
<1> SUFFICES ASSUME Typed, UserChange PROVE Typed'
  OBVIOUS
<1>1. ASSUME NEW up \in BOOLEAN PROVE About("user", up, NoSlug, NoMember) \in Events
  BY <1>1 DEF About, Events, UserEvents, Numbers, Typed
<1>2. ASSUME NEW u \in {"active", "deleted"}
      PROVE  [truth EXCEPT !.user = u] \in
                [user : {"none", "active", "deleted"}, slug : Slugs \cup {NoSlug}, member : Memberships]
  BY <1>2 DEF Typed
<1> QED
  BY <1>1, <1>2, ChangeTyped DEF UserChange

\* organization.created and updated keep the ranges.
LEMMA OrgChangeTyped == Typed /\ OrgChange => Typed'
<1> SUFFICES ASSUME Typed, NEW slug \in Slugs,
                    Change([truth EXCEPT !.slug = slug], About("org", TRUE, slug, NoMember))
             PROVE  Typed'
  BY DEF OrgChange
<1>1. About("org", TRUE, slug, NoMember) \in Events
  BY DEF About, Events, OrgEvents, Numbers, Typed
<1>2. [truth EXCEPT !.slug = slug] \in
         [user : {"none", "active", "deleted"}, slug : Slugs \cup {NoSlug}, member : Memberships]
  BY DEF Typed
<1> QED
  BY <1>1, <1>2, ChangeTyped

\* organization_membership.created, updated and deleted keep the ranges.
LEMMA MemberChangeTyped == Typed /\ MemberChange => Typed'
<1> SUFFICES ASSUME Typed, MemberChange PROVE Typed'
  OBVIOUS
<1>1. CASE \E role \in Roles :
              LET id == IF truth.member = NoMember THEN sent + 1 ELSE truth.member.id
                  now == [id |-> id, role |-> role] IN
              Change([truth EXCEPT !.member = now], About("member", TRUE, NoSlug, now))
  <2>1. PICK role \in Roles, id \in Numbers :
           Change([truth EXCEPT !.member = [id |-> id, role |-> role]],
                  About("member", TRUE, NoSlug, [id |-> id, role |-> role]))
    <3>1. (IF truth.member = NoMember THEN sent + 1 ELSE truth.member.id) \in Numbers
      BY DEF Typed, Memberships, Numbers
    <3> QED
      BY <1>1, <3>1
  <2>2. About("member", TRUE, NoSlug, [id |-> id, role |-> role]) \in Events
    BY DEF About, Events, MemberEvents, Numbers, Typed
  <2>3. [truth EXCEPT !.member = [id |-> id, role |-> role]] \in
           [user : {"none", "active", "deleted"}, slug : Slugs \cup {NoSlug}, member : Memberships]
    BY DEF Typed, Memberships
  <2> QED
    BY <2>1, <2>2, <2>3, ChangeTyped
<1>2. CASE /\ truth.member # NoMember
           /\ Change([truth EXCEPT !.member = NoMember],
                     About("member", FALSE, NoSlug, truth.member))
  <2>1. About("member", FALSE, NoSlug, truth.member) \in Events
    BY <1>2 DEF About, Events, MemberEvents, Numbers, Typed, Memberships
  <2>2. [truth EXCEPT !.member = NoMember] \in
           [user : {"none", "active", "deleted"}, slug : Slugs \cup {NoSlug}, member : Memberships]
    BY DEF Typed, Memberships
  <2> QED
    BY <1>2, <2>1, <2>2, ChangeTyped
<1> QED
  BY <1>1, <1>2 DEF MemberChange

\* The three kinds of change together.
LEMMA ChangesTyped == Typed /\ (UserChange \/ OrgChange \/ MemberChange) => Typed'
  BY UserChangeTyped, OrgChangeTyped, MemberChangeTyped

\* A worker that moves on keeps its position and locals in range.
LEMMA GotoTyped ==
    ASSUME Typed, NEW w \in Workers, NEW label \in Labels, NEW locals \in Locals,
           Goto(w, label, locals)
    PROVE  pc' \in [Workers -> Labels] /\ loc' \in [Workers -> Locals]
  BY DEF Typed, Goto, Locals

\* A worker that ends becomes idle.
LEMMA DoneTyped ==
    ASSUME Typed, NEW w \in Workers, Done(w)
    PROVE  pc' \in [Workers -> Labels] /\ loc' \in [Workers -> Locals]
<1>1. Idle \in Locals
  BY DEF Idle, Locals, AllSlugs
<1> QED
  BY <1>1, GotoTyped DEF Done, Labels

\* The start of _apply_event keeps the ranges.
LEMMA TakeTyped == ASSUME Typed, NEW w \in Workers, NEW e \in events, Take(w, e) PROVE Typed'
<1>1. e \in Events /\ e.kind \in Kinds /\ e.n \in Nat
  BY DEF Typed, Events, UserEvents, OrgEvents, MemberEvents, Kinds, Numbers
<1>2. [Idle EXCEPT !.event = e] \in Locals
  BY <1>1 DEF Idle, Locals, AllSlugs
<1>3. (IF e.kind = "member" /\ ~e.up THEN "memberfind" ELSE e.kind) \in Labels
  BY <1>1 DEF Kinds, Labels
<1>4. pc' \in [Workers -> Labels] /\ loc' \in [Workers -> Locals]
  BY <1>2, <1>3, GotoTyped DEF Take
<1>5. last' \in [Kinds -> Nat]
  BY <1>1 DEF Take, Typed
<1>6. irregular' \subseteq Oddities /\ events' \subseteq Events
  BY DEF Take, Typed
<1> QED
  BY <1>4, <1>5, <1>6 DEF Take, Typed, truthVars, rowVars, cacheVars, keyVars

\* The upsert or deactivation of a user keeps the ranges.
LEMMA UserEventTyped == ASSUME Typed, NEW w \in Workers, UserEvent(w) PROVE Typed'
<1>1. pc' \in [Workers -> Labels] /\ loc' \in [Workers -> Locals]
  BY DoneTyped DEF UserEvent
<1> QED
  BY <1>1 DEF UserEvent, Typed, truthVars, cacheVars, keyVars

\* An answer of 500 puts the event back.
LEMMA RefusedTyped ==
    ASSUME Typed, NEW w \in Workers, loc[w].event \in Events, Refused(w)
    PROVE  /\ events' \subseteq Events /\ irregular' \subseteq Oddities
           /\ tenant' \in [Rows -> [slug : AllSlugs, org : BOOLEAN, active : BOOLEAN]]
           /\ pc' \in [Workers -> Labels] /\ loc' \in [Workers -> Locals]
  BY DoneTyped DEF Refused, Typed

\* The save of the tenant's row writes a slug WorkOS has sent.
LEMMA SaveOrgTyped ==
    ASSUME Typed, NEW w \in Workers, NEW r \in Rows, loc[w].event \in OrgEvents, SaveOrg(w, r)
    PROVE  /\ events' \subseteq Events /\ irregular' \subseteq Oddities
           /\ tenant' \in [Rows -> [slug : AllSlugs, org : BOOLEAN, active : BOOLEAN]]
           /\ pc' \in [Workers -> Labels] /\ loc' \in [Workers -> Locals]
<1>1. [loc[w] EXCEPT !.row = r] \in Locals
  BY DEF Typed, Locals
<1>2. [slug |-> loc[w].event.slug, org |-> TRUE, active |-> TRUE] \in
         [slug : AllSlugs, org : BOOLEAN, active : BOOLEAN]
  BY DEF OrgEvents, AllSlugs
<1>3. irregular' \subseteq Oddities
  BY DEF SaveOrg, Renames, Typed, Oddities
<1> QED
  BY <1>1, <1>2, <1>3, GotoTyped DEF SaveOrg, Typed, Labels

\* The read of update_or_create keeps the ranges.
LEMMA OrgReadTyped == ASSUME Typed, Fit, NEW w \in Workers, OrgRead(w) PROVE Typed'
<1>1. loc[w].event \in OrgEvents /\ loc[w].event \in Events /\ loc[w] \in Locals
  BY DEF Fit, HandFits, OrgRead, Typed, Locals, Events
<1>2. /\ events' \subseteq Events /\ irregular' \subseteq Oddities
      /\ tenant' \in [Rows -> [slug : AllSlugs, org : BOOLEAN, active : BOOLEAN]]
      /\ pc' \in [Workers -> Labels] /\ loc' \in [Workers -> Locals]
  <2>1. CASE /\ Bound = {} /\ Goto(w, "orgcreate", loc[w])
             /\ UNCHANGED <<events, tenant, irregular>>
    BY <1>1, <2>1, GotoTyped DEF Labels, Typed
  <2>2. CASE Refused(w)
    BY <1>1, <2>2, RefusedTyped
  <2>3. CASE \E r \in Bound : SaveOrg(w, r)
    BY <1>1, <2>3, SaveOrgTyped DEF Bound
  <2> QED
    BY <2>1, <2>2, <2>3 DEF OrgRead
<1> QED
  BY <1>2 DEF OrgRead, Typed, truthVars, cacheVars, keyVars

\* The create of update_or_create keeps the ranges.
LEMMA OrgCreateTyped == ASSUME Typed, Fit, NEW w \in Workers, OrgCreate(w) PROVE Typed'
<1>1. loc[w].event \in OrgEvents /\ loc[w].event \in Events /\ loc[w] \in Locals
  BY DEF Fit, HandFits, OrgCreate, Typed, Locals, Events
<1>2. /\ events' \subseteq Events /\ irregular' \subseteq Oddities
      /\ tenant' \in [Rows -> [slug : AllSlugs, org : BOOLEAN, active : BOOLEAN]]
      /\ pc' \in [Workers -> Labels] /\ loc' \in [Workers -> Locals]
  <2>1. CASE Refused(w)
    BY <1>1, <2>1, RefusedTyped
  <2>2. CASE \E r \in Rows : SaveOrg(w, r)
    BY <1>1, <2>2, SaveOrgTyped
  <2> QED
    BY <2>1, <2>2 DEF OrgCreate, Bound, Free
<1> QED
  BY <1>2 DEF OrgCreate, Typed, truthVars, cacheVars, keyVars

\* set_tenant_slug_for_org keeps the ranges.
LEMMA SetSlugTyped == ASSUME Typed, Fit, NEW w \in Workers, SetSlug(w) PROVE Typed'
<1>1. loc[w].event.slug \in Slugs
  BY DEF SetSlug, Fit, HandFits, OrgEvents
<1>2. pc' \in [Workers -> Labels] /\ loc' \in [Workers -> Locals]
  BY DoneTyped DEF SetSlug
<1>3. irregular' \subseteq Oddities
  BY DEF SetSlug, Ordinary, Fault, Typed, Oddities
<1> QED
  BY <1>1, <1>2, <1>3 DEF SetSlug, Typed, truthVars, rowVars, keyVars

\* The lookup of a membership's tenant keeps the ranges.
LEMMA MemberReadTyped == ASSUME Typed, NEW w \in Workers, MemberRead(w) PROVE Typed'
<1>1. pc' \in [Workers -> Labels] /\ loc' \in [Workers -> Locals]
  <2>1. ASSUME NEW r \in Rows
        PROVE  [loc[w] EXCEPT !.row = r, !.slug = tenant[r].slug] \in Locals
    BY DEF Typed, Locals
  <2> QED
    BY <2>1, GotoTyped, DoneTyped DEF MemberRead, Bound, Labels
<1> QED
  BY <1>1 DEF MemberRead, Typed, truthVars, cacheVars, keyVars

\* The upsert of a membership stores a role the service knows.
LEMMA MemberSaveTyped == ASSUME Typed, Fit, NEW w \in Workers, MemberSave(w) PROVE Typed'
<1>1. pc' \in [Workers -> Labels] /\ loc' \in [Workers -> Locals]
  BY GotoTyped DEF MemberSave, Typed, Locals, Labels
<1>2. ASSUME NEW m \in [id : Numbers, role : Roles] PROVE Stored(m) \in StoredRows
  BY DEF Stored, StoredRows, Roles
<1>3. member' \in [Rows -> StoredRows]
  BY <1>2 DEF MemberSave, Fit, HandFits, Typed, MemberEvents
<1> QED
  BY <1>1, <1>3 DEF MemberSave, Typed, truthVars, cacheVars, keyVars

\* The lookup of a deleted membership keeps the ranges.
LEMMA MemberFindTyped == ASSUME Typed, NEW w \in Workers, MemberFind(w) PROVE Typed'
<1>1. pc' \in [Workers -> Labels] /\ loc' \in [Workers -> Locals]
  <2>1. ASSUME NEW r \in Rows
        PROVE  /\ [loc[w] EXCEPT !.row = r, !.slug = tenant[r].slug] \in Locals
               /\ [loc[w] EXCEPT !.slug = tenant[r].slug] \in Locals
    BY DEF Typed, Locals
  <2> QED
    BY <2>1, GotoTyped, DoneTyped DEF MemberFind, Bound, Labels
<1> QED
  BY <1>1 DEF MemberFind, Typed, truthVars, rowVars, cacheVars, keyVars

\* The delete of a membership keeps the ranges.
LEMMA MemberDeleteTyped == ASSUME Typed, NEW w \in Workers, MemberDelete(w) PROVE Typed'
<1>1. pc' \in [Workers -> Labels] /\ loc' \in [Workers -> Locals]
  BY GotoTyped DEF MemberDelete, Typed, Locals, Labels
<1>2. member' \in [Rows -> StoredRows]
  BY DEF MemberDelete, Typed, StoredRows
<1> QED
  BY <1>1, <1>2 DEF MemberDelete, Typed, truthVars, cacheVars, keyVars

\* invalidate_membership keeps the ranges.
LEMMA EvictTyped == ASSUME Typed, NEW w \in Workers, Evict(w) PROVE Typed'
<1>1. pc' \in [Workers -> Labels] /\ loc' \in [Workers -> Locals]
  BY DoneTyped DEF Evict
<1>2. irregular' \subseteq Oddities
  BY DEF Evict, Ordinary, Fault, Typed, Oddities
<1>3. peers' \subseteq AllSlugs \X {"viewer", "member"}
  BY DEF Evict, Typed
<1> QED
  BY <1>1, <1>2, <1>3 DEF Evict, Typed, truthVars, rowVars, keyVars

\* The read and the save of accumulate keep the ranges.
LEMMA AccumulateTyped ==
    ASSUME Typed, NEW w \in Workers, AccumulateRead(w) \/ Accumulate(w) PROVE Typed'
<1>1. [Idle EXCEPT !.count = counter] \in Locals
  BY DEF Typed, Locals, Idle, AllSlugs
<1>2. pc' \in [Workers -> Labels] /\ loc' \in [Workers -> Locals]
  BY <1>1, GotoTyped, DoneTyped DEF AccumulateRead, Accumulate, Labels
<1>3. counter' \in Nat /\ applied' \in Nat
  BY DEF AccumulateRead, Accumulate, Typed, Locals
<1> QED
  BY <1>2, <1>3 DEF AccumulateRead, Accumulate, Typed, truthVars, rowVars, cacheVars, keyVars

\* A peer reads rows and keys that are in range.
LEMMA PeerLoadTyped == Typed /\ PeerLoad => Typed'
<1> SUFFICES ASSUME Typed, PeerLoad PROVE Typed'
  OBVIOUS
<1>1. ASSUME NEW r \in Rows, member[r] # NoMember
      PROVE  <<tenant[r].slug, member[r].role>> \in AllSlugs \X {"viewer", "member"}
  BY <1>1 DEF Typed, StoredRows
<1>2. peers' \subseteq AllSlugs \X {"viewer", "member"}
  BY <1>1 DEF PeerLoad, Typed
<1>3. peerKey' \in BOOLEAN
  BY DEF PeerLoad, Typed
<1> QED
  BY <1>2, <1>3 DEF PeerLoad, Typed, truthVars, rowVars, execVars

\* Lost events, crashes, expiries and the steps of keys keep the ranges.
LEMMA OtherTyped ==
    ASSUME Typed,
           \/ \E e \in events : LoseEvent(e)
           \/ \E w \in Workers : Crash(w)
           \/ Expire \/ Mint \/ Revoke \/ Publish \/ FormOpen \/ FormSave \/ Counted
    PROVE  Typed'
<1>1. irregular' \subseteq Oddities
  BY DEF LoseEvent, Crash, Expire, Mint, Revoke, Publish, FormOpen, FormSave, KeyStep, Counted,
         ResetUsage, EditUsage, Counting, Ordinary, Fault, Typed, Oddities
<1>2. CASE \E e \in events : LoseEvent(e)
  BY <1>1, <1>2 DEF LoseEvent, Typed, truthVars, rowVars, cacheVars, keyVars, execVars
<1>3. CASE \E w \in Workers : Crash(w)
  BY <1>1, <1>3, DoneTyped DEF Crash, Typed, truthVars, rowVars, cacheVars, keyVars
<1>4. CASE Expire
  <2>1. /\ peers' \subseteq AllSlugs \X {"viewer", "member"} /\ peerKey' \in BOOLEAN
        /\ valkey' \in Slugs \cup {NoSlug}
    BY <1>4 DEF Expire, Typed
  <2> QED
    BY <1>1, <1>4, <2>1 DEF Expire, Typed, truthVars, rowVars, execVars
<1>5. CASE Mint \/ Revoke \/ Publish \/ FormOpen \/ FormSave
  BY <1>1, <1>5 DEF Mint, Revoke, Publish, FormOpen, FormSave, KeyStep, Typed, truthVars, rowVars,
                    cacheVars, execVars
<1>6. CASE Counted
  <2>1. counter' \in Nat /\ applied' \in Nat
    BY <1>6 DEF Counted, ResetUsage, EditUsage, Typed
  <2> QED
    BY <1>1, <1>6, <2>1 DEF Counted, ResetUsage, EditUsage, Counting, Typed, truthVars, rowVars,
                            cacheVars, keyVars, execVars
<1> QED
  BY <1>2, <1>3, <1>4, <1>5, <1>6

\* Every step keeps the ranges.
LEMMA TypedNext == Typed /\ Fit /\ [System]_vars => Typed'
<1> SUFFICES ASSUME Typed, Fit, [System]_vars PROVE Typed'
  OBVIOUS
<1>1. CASE UNCHANGED vars
  BY <1>1 DEF Typed, vars, truthVars, rowVars, cacheVars, keyVars, execVars
<1>2. ASSUME NEW w \in Workers, Step(w) PROVE Typed'
  BY <1>2, UserEventTyped, OrgReadTyped, OrgCreateTyped, SetSlugTyped, MemberReadTyped,
     MemberSaveTyped, MemberFindTyped, MemberDeleteTyped, EvictTyped, AccumulateTyped DEF Step
<1> QED
  BY <1>1, <1>2, ChangesTyped, TakeTyped, PeerLoadTyped, OtherTyped DEF System, Counted

\* What an operator may type into a form is in range.
LEMMA ByHandTyped == Typed /\ ByHand => Typed'
<1> SUFFICES ASSUME Typed, ByHand PROVE Typed'
  OBVIOUS
<1>1. Edit /\ irregular' \subseteq Oddities
  BY DEF ByHand, EditUser, EditTenant, EditMember, Edit, Fault, Typed, Oddities
<1>2. CASE EditUser
  BY <1>1, <1>2 DEF EditUser, Edit, Typed, truthVars, cacheVars, keyVars, execVars
<1>3. CASE EditTenant
  <2>1. tenant' \in [Rows -> [slug : AllSlugs, org : BOOLEAN, active : BOOLEAN]]
    BY <1>3 DEF EditTenant, Typed, AllSlugs
  <2> QED
    BY <1>1, <1>3, <2>1 DEF EditTenant, Edit, Typed, truthVars, cacheVars, keyVars, execVars
<1>4. CASE EditMember
  <2>1. ASSUME NEW id \in 1 .. sent + 1, NEW role \in Roles
        PROVE  Stored([id |-> id, role |-> role]) \in StoredRows
    BY DEF Stored, StoredRows, Roles, Numbers, Typed
  <2>2. NoMember \in StoredRows
    BY DEF StoredRows
  <2>3. PICK r \in Rows, m \in StoredRows : member' = [member EXCEPT ![r] = m]
    BY <1>4, <2>1, <2>2 DEF EditMember
  <2>4. member' \in [Rows -> StoredRows]
    BY <2>3 DEF Typed
  <2> QED
    BY <1>1, <1>4, <2>4 DEF EditMember, Edit, Typed, truthVars, cacheVars, keyVars, execVars
<1> QED
  BY <1>2, <1>3, <1>4 DEF ByHand

(***************************************************************************)
(* The event in hand                                                       *)
(***************************************************************************)

\* At the start nobody has an event.
LEMMA FitInit == Init => Fit
  BY DEF Init, Fit, HandFits

\* A worker that moves on leaves the others with their events.
LEMMA FitGoto ==
    ASSUME Typed, Fit, NEW w \in Workers, NEW label, NEW locals, Goto(w, label, locals),
           HandFits(w)'
    PROVE  Fit'
<1> SUFFICES ASSUME NEW v \in Workers, v # w PROVE HandFits(v)'
  BY DEF Fit
<1>1. pc'[v] = pc[v] /\ loc'[v] = loc[v]
  BY DEF Goto, Typed
<1> QED
  BY <1>1 DEF Fit, HandFits

\* A worker that ends, or goes to count, has no event that matters.
LEMMA FitEnds ==
    ASSUME Typed, Fit, NEW w \in Workers, NEW label, NEW locals, Goto(w, label, locals),
           label \in {"idle", "accumulate"}
    PROVE  Fit'
<1>1. HandFits(w)'
  BY DEF HandFits, Goto, Typed
<1> QED
  BY <1>1, FitGoto

\* A worker keeps its event from one position to the next of its kind.
LEMMA FitMoves ==
    ASSUME Typed, Fit, NEW w \in Workers, NEW label, NEW locals, Goto(w, label, locals),
           locals.event = loc[w].event,
           \/ pc[w] \in {"org", "orgcreate"} /\ label \in {"orgcreate", "orgcache"}
           \/ pc[w] = "member" /\ label = "membersave"
           \/ pc[w] = "memberfind" /\ label = "memberdelete"
           \/ pc[w] \in {"memberfind", "membersave", "memberdelete"} /\ label = "evict"
    PROVE  Fit'
<1>1. pc'[w] = label /\ loc'[w].event = loc[w].event
  BY DEF Goto, Typed
<1>2. HandFits(w)
  BY DEF Fit
<1>3. HandFits(w)'
  BY <1>1, <1>2 DEF HandFits
<1> QED
  BY <1>3, FitGoto

\* The steps of a worker.
LEMMA FitStep == ASSUME Typed, Fit, NEW w \in Workers, Step(w) PROVE Fit'
<1>1. CASE UserEvent(w) \/ SetSlug(w) \/ Evict(w) \/ Accumulate(w)
  BY <1>1, FitEnds DEF UserEvent, SetSlug, Evict, Accumulate, Done
<1>2. CASE AccumulateRead(w)
  BY <1>2, FitEnds DEF AccumulateRead
<1>3. ASSUME Refused(w) PROVE Fit'
  BY <1>3, FitEnds DEF Refused, Done
<1>4. ASSUME NEW r \in Rows, SaveOrg(w, r), pc[w] \in {"org", "orgcreate"} PROVE Fit'
  <2>1. [loc[w] EXCEPT !.row = r].event = loc[w].event
    BY DEF Typed
  <2> QED
    BY <1>4, <2>1, FitMoves DEF SaveOrg
<1>5. CASE OrgRead(w)
  BY <1>3, <1>4, <1>5, FitMoves DEF OrgRead, Bound
<1>6. CASE OrgCreate(w)
  BY <1>3, <1>4, <1>6 DEF OrgCreate, Bound, Free
<1>7. ASSUME NEW r \in Rows
      PROVE  /\ [loc[w] EXCEPT !.row = r, !.slug = tenant[r].slug].event = loc[w].event
             /\ [loc[w] EXCEPT !.slug = tenant[r].slug].event = loc[w].event
  BY DEF Typed
<1>8. CASE MemberRead(w)
  <2>1. CASE Done(w)
    BY <2>1, FitEnds DEF Done
  <2>2. ASSUME NEW r \in Rows,
               Goto(w, "membersave", [loc[w] EXCEPT !.row = r, !.slug = tenant[r].slug])
        PROVE  Fit'
    <3>1. pc[w] = "member"
      BY <1>8 DEF MemberRead
    <3> QED
      BY <1>7, <2>2, <3>1, FitMoves
  <2> QED
    BY <1>8, <2>1, <2>2 DEF MemberRead, Bound
<1>9. CASE MemberFind(w)
  <2>1. CASE Done(w)
    BY <2>1, FitEnds DEF Done
  <2>2. pc[w] = "memberfind"
    BY <1>9 DEF MemberFind
  <2>3. ASSUME NEW r \in Rows,
               Goto(w, "memberdelete", [loc[w] EXCEPT !.row = r, !.slug = tenant[r].slug])
        PROVE  Fit'
    BY <1>7, <2>2, <2>3, FitMoves
  <2>4. ASSUME NEW r \in Rows, Goto(w, "evict", [loc[w] EXCEPT !.slug = tenant[r].slug])
        PROVE  Fit'
    BY <1>7, <2>2, <2>4, FitMoves
  <2> QED
    BY <1>9, <2>1, <2>3, <2>4 DEF MemberFind, Bound
<1>10. CASE MemberSave(w) \/ MemberDelete(w)
  BY <1>10, FitMoves DEF MemberSave, MemberDelete
<1> QED
  BY <1>1, <1>2, <1>5, <1>6, <1>8, <1>9, <1>10 DEF Step

\* Every step leaves each worker an event that its position handles.
LEMMA FitNext == Typed /\ Fit /\ [Next]_vars => Fit'
<1> SUFFICES ASSUME Typed, Fit, [Next]_vars PROVE Fit'
  OBVIOUS
<1>1. ASSUME UNCHANGED <<pc, loc>> PROVE Fit'
  BY <1>1 DEF Fit, HandFits
<1>2. ASSUME NEW w \in Workers, NEW e \in events, Take(w, e) PROVE Fit'
  <2>1. e \in Events
    BY DEF Typed
  <2>2. pc'[w] = (IF e.kind = "member" /\ ~e.up THEN "memberfind" ELSE e.kind) /\ loc'[w].event = e
    BY <1>2 DEF Take, Goto, Typed, Idle
  <2>3. HandFits(w)'
    BY <2>1, <2>2 DEF HandFits, Events, UserEvents, OrgEvents, MemberEvents
  <2> QED
    BY <1>2, <2>3, FitGoto DEF Take
<1>3. ASSUME NEW w \in Workers, Crash(w) PROVE Fit'
  BY <1>3, FitEnds DEF Crash, Done
<1>4. CASE UserChange \/ OrgChange \/ MemberChange \/ PeerLoad \/ Expire
  BY <1>1, <1>4 DEF UserChange, OrgChange, MemberChange, Change, PeerLoad, Expire, execVars
<1>5. CASE Mint \/ Revoke \/ Publish \/ FormOpen \/ FormSave \/ Counted
  BY <1>1, <1>5 DEF Mint, Revoke, Publish, FormOpen, FormSave, KeyStep, Counted, ResetUsage,
                    EditUsage, Counting, execVars
<1>6. CASE UNCHANGED vars
  BY <1>1, <1>6 DEF vars, execVars
<1>7. CASE \E e \in events : LoseEvent(e)
  BY <1>1, <1>7 DEF LoseEvent, execVars
<1>8. CASE ByHand
  BY <1>1, <1>8 DEF ByHand, EditUser, EditTenant, EditMember, Edit, execVars
<1>9. ASSUME NEW w \in Workers, Step(w) PROVE Fit'
  BY <1>9, FitStep
<1> QED
  BY <1>2, <1>3, <1>4, <1>5, <1>6, <1>7, <1>8, <1>9 DEF Next, System, Counted

(***************************************************************************)
(* Who changes what                                                        *)
(***************************************************************************)

\* Only the save of an organization's event writes a tenant's row.
LEMMA TenantChanges ==
    ASSUME [System]_vars
    PROVE  tenant' = tenant \/ \E w \in Workers, r \in Rows : SaveOrg(w, r)
<1>1. ASSUME NEW w \in Workers, Step(w), tenant' # tenant PROVE \E r \in Rows : SaveOrg(w, r)
  BY <1>1 DEF Step, UserEvent, OrgRead, OrgCreate, SetSlug, MemberRead, MemberSave, MemberFind,
              MemberDelete, Evict, AccumulateRead, Accumulate, Refused, rowVars, Bound, Free
<1>2. ASSUME NEW w \in Workers, Crash(w) PROVE tenant' = tenant
  BY <1>2 DEF Crash, rowVars
<1>3. ASSUME NEW w \in Workers, NEW e \in events, Take(w, e) \/ LoseEvent(e) PROVE tenant' = tenant
  BY <1>3 DEF Take, LoseEvent, rowVars
<1>4. CASE UserChange \/ OrgChange \/ MemberChange \/ PeerLoad \/ Expire
  BY <1>4 DEF UserChange, OrgChange, MemberChange, Change, PeerLoad, Expire, rowVars
<1>5. CASE Mint \/ Revoke \/ Publish \/ FormOpen \/ FormSave \/ Counted
  BY <1>5 DEF Mint, Revoke, Publish, FormOpen, FormSave, KeyStep, Counted, ResetUsage, EditUsage,
              Counting, rowVars
<1>6. CASE UNCHANGED vars
  BY <1>6 DEF vars, rowVars
<1>7. CASE \E e \in events : LoseEvent(e)
  BY <1>7 DEF LoseEvent, rowVars
<1> QED
  BY <1>1, <1>2, <1>3, <1>4, <1>5, <1>6, <1>7 DEF System, Counted

\* No row is taken from its organization.
LEMMA BoundGrows == ASSUME Typed, [System]_vars PROVE Bound \subseteq Bound'
<1>1. CASE tenant' = tenant
  BY <1>1 DEF Bound
<1>2. ASSUME NEW w \in Workers, NEW r \in Rows, SaveOrg(w, r) PROVE Bound \subseteq Bound'
  BY <1>2 DEF SaveOrg, Bound, Typed
<1> QED
  BY <1>1, <1>2, TenantChanges

\* No row is bound yet.
LEMMA ActiveInit == Init => Active
  BY DEF Init, Active, Bound, NoTenant

\* An event that binds a row makes it active.
LEMMA ActiveNext == Typed /\ Active /\ [System]_vars => Active'
<1> SUFFICES ASSUME Typed, Active, [System]_vars PROVE Active'
  OBVIOUS
<1>1. ASSUME NEW w \in Workers, NEW r \in Rows, SaveOrg(w, r) PROVE Active'
  BY <1>1 DEF SaveOrg, Active, Bound, Typed
<1>2. CASE tenant' = tenant
  BY <1>2 DEF Active, Bound
<1> QED
  BY <1>1, <1>2, TenantChanges

\* A worker that moves on leaves the others at rows that are still bound.
LEMMA OthersStand ==
    ASSUME Typed, Stands, Bound \subseteq Bound',
           NEW w \in Workers, NEW label, NEW locals, Goto(w, label, locals), WorkerStands(w)'
    PROVE  \A v \in Workers : WorkerStands(v)'
<1> SUFFICES ASSUME NEW v \in Workers, v # w PROVE WorkerStands(v)'
  OBVIOUS
<1>1. pc'[v] = pc[v] /\ loc'[v] = loc[v]
  BY DEF Goto, Typed
<1>2. WorkerStands(v)
  BY DEF Stands
<1> QED
  BY <1>1, <1>2 DEF WorkerStands

\* An idle worker claims nothing.
LEMMA DoneStands == ASSUME Typed, NEW w \in Workers, Done(w) PROVE WorkerStands(w)'
  BY DEF Done, Goto, Typed, WorkerStands

\* A step that moves no worker and no membership leaves every claim.
LEMMA StandStill ==
    ASSUME Stands, UNCHANGED <<pc, loc, member>>, Bound \subseteq Bound' PROVE Stands'
  BY DEF Stands, WorkerStands

\* At the start there is neither a worker at work nor a membership.
LEMMA StandsInit == Init => Stands
  BY DEF Init, Stands, WorkerStands, NoMember

\* Each step of _apply_event brings its worker where its event belongs.
LEMMA StandsStep ==
    ASSUME Typed, Stands, NEW w \in Workers, Step(w), Bound \subseteq Bound',
           \A r \in Rows, e \in MemberEvents : member[r].id = e.member.id => member[r] # NoMember
    PROVE  Stands'
<1>1. ASSUME NEW label, NEW locals, Goto(w, label, locals), WorkerStands(w)' , member' = member
      PROVE  Stands'
  BY <1>1, OthersStand DEF Stands
<1>2. ASSUME Done(w), member' = member PROVE Stands'
  BY <1>1, <1>2, DoneStands DEF Done
<1>3. CASE UserEvent(w) \/ SetSlug(w) \/ Evict(w) \/ Accumulate(w)
  BY <1>2, <1>3 DEF UserEvent, SetSlug, Evict, Accumulate, rowVars
<1>4. CASE AccumulateRead(w)
  <2>1. WorkerStands(w)'
    BY <1>4 DEF AccumulateRead, Goto, WorkerStands, Typed
  <2> QED
    BY <1>1, <1>4, <2>1 DEF AccumulateRead, rowVars
<1>5. ASSUME NEW r \in Rows, SaveOrg(w, r), pc[w] \in {"org", "orgcreate"}, member' = member
      PROVE  Stands'
  <2>1. r \in Bound'
    BY <1>5 DEF SaveOrg, Bound, Typed
  <2>2. WorkerStands(w)
    BY DEF Stands
  <2>3. pc'[w] = "orgcache" /\ loc'[w].row = r /\ loc'[w].event = loc[w].event
    BY <1>5 DEF SaveOrg, Goto, Typed
  <2>4. WorkerStands(w)'
    BY <1>5, <2>1, <2>2, <2>3 DEF WorkerStands
  <2> QED
    BY <1>1, <1>5, <2>4 DEF SaveOrg
<1>6. CASE OrgRead(w)
  <2>1. CASE Goto(w, "orgcreate", loc[w])
    <3>1. WorkerStands(w)'
      BY <1>6, <2>1 DEF OrgRead, Goto, WorkerStands, Typed, Stands
    <3> QED
      BY <1>1, <1>6, <2>1, <3>1 DEF OrgRead
  <2>2. CASE \E r \in Rows : SaveOrg(w, r)
    BY <1>5, <1>6, <2>2 DEF OrgRead
  <2>3. CASE Refused(w)
    BY <1>2, <1>6, <2>3 DEF OrgRead, Refused
  <2> QED
    BY <1>6, <2>1, <2>2, <2>3 DEF OrgRead, Bound
<1>7. CASE OrgCreate(w)
  <2>2. CASE \E r \in Rows : SaveOrg(w, r)
    BY <1>5, <1>7, <2>2 DEF OrgCreate
  <2>3. CASE Refused(w)
    BY <1>2, <1>7, <2>3 DEF OrgCreate, Refused
  <2> QED
    BY <1>7, <2>2, <2>3 DEF OrgCreate, Bound, Free
<1>8. CASE MemberRead(w)
  <2>1. ASSUME NEW r \in Bound,
               Goto(w, "membersave", [loc[w] EXCEPT !.row = r, !.slug = tenant[r].slug])
        PROVE  WorkerStands(w)'
    <3>1. WorkerStands(w)
      BY DEF Stands
    <3>2. pc'[w] = "membersave" /\ loc'[w].row = r /\ loc'[w].event = loc[w].event
      BY <2>1 DEF Goto, Typed
    <3> QED
      BY <1>8, <3>1, <3>2 DEF MemberRead, WorkerStands
  <2> QED
    BY <1>1, <1>2, <1>8, <2>1 DEF MemberRead
<1>9. CASE MemberFind(w)
  <2>1. ASSUME NEW r \in Rows, member[r].id = loc[w].event.member.id,
               Goto(w, "memberdelete", [loc[w] EXCEPT !.row = r, !.slug = tenant[r].slug])
        PROVE  WorkerStands(w)'
    <3>1. WorkerStands(w) /\ loc[w].event \in MemberEvents
      BY <1>9 DEF Stands, WorkerStands, MemberFind
    <3>2. r \in Bound
      BY <2>1, <3>1 DEF Stands
    <3>3. pc'[w] = "memberdelete" /\ loc'[w].row = r /\ loc'[w].event = loc[w].event
      BY <2>1 DEF Goto, Typed
    <3> QED
      BY <1>9, <3>1, <3>2, <3>3 DEF MemberFind, WorkerStands
  <2>2. ASSUME NEW r \in Bound, Goto(w, "evict", [loc[w] EXCEPT !.slug = tenant[r].slug])
        PROVE  WorkerStands(w)'
    <3>1. WorkerStands(w)
      BY DEF Stands
    <3>2. pc'[w] = "evict" /\ loc'[w].event = loc[w].event
      BY <2>2 DEF Goto, Typed
    <3> QED
      BY <1>9, <3>1, <3>2 DEF MemberFind, WorkerStands
  <2> QED
    BY <1>1, <1>2, <1>9, <2>1, <2>2 DEF MemberFind, rowVars
<1>10. CASE MemberSave(w) \/ MemberDelete(w)
  <2>1. WorkerStands(w)
    BY DEF Stands
  <2>2. loc[w].row \in Bound /\ loc[w].event \in MemberEvents
    BY <1>10, <2>1 DEF MemberSave, MemberDelete, WorkerStands
  <2>3. pc'[w] = "evict" /\ loc'[w] = loc[w] /\ Goto(w, "evict", loc[w])
    BY <1>10 DEF MemberSave, MemberDelete, Goto, Typed
  <2>4. WorkerStands(w)'
    BY <2>2, <2>3 DEF WorkerStands
  <2>5. \A r \in Rows : member'[r] # NoMember => r \in Bound'
    BY <1>10, <2>2 DEF MemberSave, MemberDelete, Stands, Typed
  <2> QED
    BY <2>3, <2>4, <2>5, OthersStand DEF Stands
<1> QED
  BY <1>3, <1>4, <1>6, <1>7, <1>8, <1>9, <1>10 DEF Step

\* Positions fit the events in hand, and memberships stand in bound rows.
LEMMA StandsNext == Typed /\ Stands /\ [System]_vars => Stands'
<1> SUFFICES ASSUME Typed, Stands, [System]_vars PROVE Stands'
  OBVIOUS
<1>1. Bound \subseteq Bound'
  BY BoundGrows
<1>2. ASSUME NEW r \in Rows, NEW e \in MemberEvents, member[r].id = e.member.id
      PROVE  member[r] # NoMember
  BY <1>2 DEF MemberEvents, NoMember, Numbers
<1>3. ASSUME NEW w \in Workers, Step(w) PROVE Stands'
  BY <1>1, <1>2, <1>3, StandsStep
<1>4. ASSUME NEW w \in Workers, NEW e \in events, Take(w, e) PROVE Stands'
  <2>1. e \in Events /\ member' = member
    BY <1>4 DEF Typed, Take, rowVars
  <2>2. pc'[w] = (IF e.kind = "member" /\ ~e.up THEN "memberfind" ELSE e.kind) /\ loc'[w].event = e
    BY <1>4 DEF Take, Goto, Typed, Idle
  <2>3. WorkerStands(w)'
    BY <2>1, <2>2 DEF WorkerStands, Events, UserEvents, OrgEvents, MemberEvents
  <2> QED
    BY <1>1, <1>4, <2>1, <2>3, OthersStand DEF Take, Stands
<1>5. ASSUME NEW w \in Workers, Crash(w) PROVE Stands'
  BY <1>1, <1>5, DoneStands, OthersStand DEF Crash, Done, Stands, rowVars
<1>6. ASSUME UNCHANGED <<pc, loc, member>> PROVE Stands'
  BY <1>1, <1>6, StandStill
<1>7. CASE UserChange \/ OrgChange \/ MemberChange \/ PeerLoad \/ Expire
  BY <1>6, <1>7 DEF UserChange, OrgChange, MemberChange, Change, PeerLoad, Expire, rowVars, execVars
<1>8. CASE Mint \/ Revoke \/ Publish \/ FormOpen \/ FormSave \/ Counted
  BY <1>6, <1>8 DEF Mint, Revoke, Publish, FormOpen, FormSave, KeyStep, Counted, ResetUsage,
                    EditUsage, Counting, rowVars, execVars
<1>9. CASE UNCHANGED vars
  BY <1>6, <1>9 DEF vars, rowVars, execVars
<1>10. CASE \E e \in events : LoseEvent(e)
  BY <1>6, <1>10 DEF LoseEvent, rowVars, execVars
<1> QED
  BY <1>3, <1>4, <1>5, <1>7, <1>8, <1>9, <1>10 DEF System, Counted

(***************************************************************************)
(* Usage and keys                                                          *)
(***************************************************************************)

\* What has gone out of the ordinary is not forgotten.
LEMMA IrregularGrows == [Next]_vars => irregular \subseteq irregular'
<1> SUFFICES ASSUME [Next]_vars PROVE irregular \subseteq irregular'
  OBVIOUS
<1>1. ASSUME NEW w \in Workers, Step(w) \/ Crash(w) PROVE irregular \subseteq irregular'
  BY <1>1 DEF Step, UserEvent, OrgRead, OrgCreate, SaveOrg, Refused, Renames, SetSlug, MemberRead,
              MemberSave, MemberFind, MemberDelete, Evict, AccumulateRead, Accumulate, Crash,
              Ordinary, Fault
<1>2. ASSUME NEW w \in Workers, NEW e \in events, Take(w, e) PROVE irregular \subseteq irregular'
  BY <1>2 DEF Take
<1>3. ASSUME NEW e \in events, LoseEvent(e) PROVE irregular \subseteq irregular'
  BY <1>3 DEF LoseEvent, Fault
<1>4. CASE UserChange \/ OrgChange \/ MemberChange \/ PeerLoad \/ Expire
  BY <1>4 DEF UserChange, OrgChange, MemberChange, Change, PeerLoad, Expire
<1>5. CASE Mint \/ Revoke \/ Publish \/ FormOpen \/ FormSave \/ Counted
  BY <1>5 DEF Mint, Revoke, Publish, FormOpen, FormSave, KeyStep, Counted, ResetUsage, EditUsage,
              Counting, Ordinary, Fault
<1>6. CASE UNCHANGED vars
  BY <1>6 DEF vars
<1>7. CASE ByHand
  BY <1>7 DEF ByHand, EditUser, EditTenant, EditMember, Edit, Fault
<1> QED
  BY <1>1, <1>2, <1>3, <1>4, <1>5, <1>6, <1>7 DEF Next, System, Counted

\* A worker that moves on outside accumulate leaves the counters as they were
\* read.
LEMMA LockedGoto ==
    ASSUME Typed, Locked, NEW w \in Workers, NEW label, NEW locals, Goto(w, label, locals),
           label # "accumulate", UNCHANGED <<counter, applied>>, irregular \subseteq irregular'
    PROVE  Locked'
<1>1. \A v \in Workers : pc'[v] = "accumulate" => pc[v] = "accumulate" /\ loc'[v] = loc[v]
  BY DEF Goto, Typed
<1> QED
  BY <1>1 DEF Locked, UsageExact, Never

\* Nothing has been reported, and the counter is zero.
LEMMA LockedInit == Init => Locked
  BY DEF Init, Locked, UsageExact

\* While the tenant's row is locked, what accumulate has read is what is
\* stored.
LEMMA LockedNext == Typed /\ Locked /\ [Next]_vars => Locked'
<1> SUFFICES ASSUME Typed, Locked, [Next]_vars PROVE Locked'
  OBVIOUS
<1>0. irregular \subseteq irregular'
  BY IrregularGrows
<1>1. ASSUME UNCHANGED <<pc, loc, counter, applied>> PROVE Locked'
  BY <1>0, <1>1 DEF Locked, UsageExact, Never
<1>2. ASSUME NEW w \in Workers, NEW e \in events, Take(w, e) PROVE Locked'
  <2>1. e.kind # "accumulate"
    BY DEF Typed, Events, UserEvents, OrgEvents, MemberEvents
  <2> QED
    BY <1>2, <2>1, <1>0, LockedGoto DEF Take
<1>3. ASSUME NEW w \in Workers, Crash(w) PROVE Locked'
  BY <1>3, <1>0, LockedGoto DEF Crash, Done
<1>4. ASSUME NEW w \in Workers, AccumulateRead(w) PROVE Locked'
  <2>1. pc'[w] = "accumulate" /\ loc'[w].count = counter
    BY <1>4 DEF AccumulateRead, Goto, Typed, Idle
  <2>2. \A v \in Workers : v # w => pc'[v] = pc[v]
    BY <1>4 DEF AccumulateRead, Goto, Typed
  <2> QED
    BY <1>4, <2>1, <2>2 DEF AccumulateRead, CountersFree, Locked, UsageExact, Never
<1>5. ASSUME NEW w \in Workers, Accumulate(w) PROVE Locked'
  <2>1. \A v \in Workers : pc'[v] # "accumulate"
    BY <1>5 DEF Accumulate, Locked, Done, Goto, Typed
  <2> QED
    BY <1>5, <2>1 DEF Accumulate, Locked, UsageExact, Never, Typed
<1>6. ASSUME NEW w \in Workers, Step(w) PROVE Locked'
  <2>1. CASE UserEvent(w) \/ SetSlug(w) \/ Evict(w) \/ MemberSave(w) \/ MemberDelete(w)
    BY <2>1, <1>0, LockedGoto DEF UserEvent, SetSlug, Evict, MemberSave, MemberDelete, Done
  <2>2. CASE OrgRead(w) \/ OrgCreate(w)
    BY <2>2, <1>0, LockedGoto DEF OrgRead, OrgCreate, SaveOrg, Refused, Done
  <2>3. CASE MemberRead(w) \/ MemberFind(w)
    BY <2>3, <1>0, LockedGoto DEF MemberRead, MemberFind, Done
  <2> QED
    BY <1>4, <1>5, <1>6, <2>1, <2>2, <2>3 DEF Step
<1>7. CASE UserChange \/ OrgChange \/ MemberChange \/ PeerLoad \/ Expire
  BY <1>1, <1>7 DEF UserChange, OrgChange, MemberChange, Change, PeerLoad, Expire, execVars
<1>8. CASE Mint \/ Revoke \/ Publish \/ FormOpen \/ FormSave
  BY <1>1, <1>8 DEF Mint, Revoke, Publish, FormOpen, FormSave, KeyStep, execVars
<1>9. CASE UNCHANGED vars
  BY <1>1, <1>9 DEF vars, execVars
<1>10. CASE \E e \in events : LoseEvent(e)
  BY <1>1, <1>10 DEF LoseEvent, execVars
<1>11. CASE Counted
  <2>1. (\A w \in Workers : pc[w] # "accumulate") /\ pc' = pc
    BY <1>11 DEF Counted, ResetUsage, EditUsage, Counting, CountersFree, execVars
  <2>2. UsageExact'
    BY <1>11 DEF Counted, ResetUsage, EditUsage, UsageExact, Fault, Never
  <2> QED
    BY <2>1, <2>2 DEF Locked
<1>12. CASE ByHand
  BY <1>1, <1>12 DEF ByHand, EditUser, EditTenant, EditMember, Edit, execVars
<1> QED
  BY <1>2, <1>3, <1>6, <1>7, <1>8, <1>9, <1>10, <1>11, <1>12 DEF Next, System, Counted

\* No key has been minted.
LEMMA KeyDroppedInit == Init => KeyDropped
  BY DEF Init, KeyDropped

\* Peers drop a revoked key when told, and no open form brings it back
\* unnoticed.
LEMMA KeyDroppedNext == Typed /\ KeyDropped /\ [Next]_vars => KeyDropped'
<1> SUFFICES ASSUME Typed, KeyDropped, [Next]_vars PROVE KeyDropped'
  OBVIOUS
<1>1. irregular \subseteq irregular'
  BY IrregularGrows
<1>2. ASSUME UNCHANGED keyVars PROVE KeyDropped'
  BY <1>1, <1>2 DEF KeyDropped, keyVars, Never
<1>3. CASE Mint \/ Revoke \/ Publish \/ FormOpen \/ FormSave
  BY <1>1, <1>3 DEF Mint, Revoke, Publish, FormOpen, FormSave, KeyStep, Ordinary, Fault,
                    KeyDropped, Never, Typed
<1>4. CASE PeerLoad \/ Expire
  BY <1>1, <1>4 DEF PeerLoad, Expire, KeyDropped, Never
<1>5. CASE UserChange \/ OrgChange \/ MemberChange
  BY <1>2, <1>5 DEF UserChange, OrgChange, MemberChange, Change
<1>6. CASE UNCHANGED vars
  BY <1>2, <1>6 DEF vars
<1>7. ASSUME NEW w \in Workers, Step(w) \/ Crash(w) PROVE KeyDropped'
  BY <1>2, <1>7 DEF Step, UserEvent, OrgRead, OrgCreate, SetSlug, MemberRead, MemberSave,
                    MemberFind, MemberDelete, Evict, AccumulateRead, Accumulate, Crash
<1>8. ASSUME NEW w \in Workers, NEW e \in events, Take(w, e) PROVE KeyDropped'
  BY <1>2, <1>8 DEF Take
<1>9. ASSUME NEW e \in events, LoseEvent(e) PROVE KeyDropped'
  BY <1>2, <1>9 DEF LoseEvent
<1>10. CASE Counted
  BY <1>2, <1>10 DEF Counted, ResetUsage, EditUsage, Counting
<1>11. CASE ByHand
  BY <1>2, <1>11 DEF ByHand, EditUser, EditTenant, EditMember, Edit
<1> QED
  BY <1>3, <1>4, <1>5, <1>6, <1>7, <1>8, <1>9, <1>10, <1>11 DEF Next, System, Counted

(***************************************************************************)
(* One handler at a time                                                   *)
(***************************************************************************)

\* No handler is at work, and no row is bound.
LEMMA AloneInit == Init => UnlessOverlap
  BY DEF Init, UnlessOverlap, Alone, Handling, Bound, NoTenant

\* A worker that only moves on, with its event, leaves the others where they are.
LEMMA AloneMoves ==
    ASSUME Typed, Alone, NEW w \in Workers, NEW label, NEW locals, Goto(w, label, locals),
           Handling(w) \/ label \in {"idle", "accumulate"},
           UNCHANGED tenant,
           \A v \in Workers \ {w} : pc[v] = "memberdelete" => UNCHANGED member,
           label \notin {"orgcache"},
           label = "orgcreate" => Bound = {},
           label = "memberdelete" => member'[locals.row].id = locals.event.member.id
    PROVE  Alone'
<1>1. \A v \in Workers : v # w => pc'[v] = pc[v] /\ loc'[v] = loc[v]
  BY DEF Goto, Typed
<1>2. pc'[w] = label /\ loc'[w] = locals
  BY DEF Goto, Typed
<1>3. Bound' = Bound
  BY DEF Bound
<1>4. \A u, v \in Workers : Handling(u)' /\ Handling(v)' => u = v
  BY <1>1, <1>2 DEF Alone, Handling
<1> QED
  BY <1>1, <1>2, <1>3, <1>4 DEF Alone

\* A handler that ends leaves the others alone.
LEMMA AloneDone ==
    ASSUME Typed, Alone, NEW w \in Workers, Done(w), UNCHANGED <<tenant, member>>
    PROVE  Alone'
  BY AloneMoves DEF Done

\* The save of the organization's only row leaves it the only one.
LEMMA AloneSave ==
    ASSUME Typed, Stands, Alone, NEW w \in Workers, NEW r \in Rows, SaveOrg(w, r), UNCHANGED member,
           pc[w] \in {"org", "orgcreate"}, Bound \subseteq {r}
    PROVE  Alone'
<1>1. \A v \in Workers : v # w => ~Handling(v)
  BY DEF Alone, Handling
<1>2. \A v \in Workers : v # w => ~Handling(v)'
  BY <1>1 DEF SaveOrg, Goto, Typed, Handling
<1>3. pc'[w] = "orgcache" /\ loc'[w].row = r /\ loc'[w].event = loc[w].event
  BY DEF SaveOrg, Goto, Typed
<1>4. tenant'[r] = [slug |-> loc[w].event.slug, org |-> TRUE, active |-> TRUE] /\ Bound' = {r}
  BY DEF SaveOrg, Typed, Bound
<1> QED
  BY <1>2, <1>3, <1>4 DEF Alone, Handling

\* While one handler works at a time, its reads are still true when it writes.
LEMMA AloneStep ==
    ASSUME Typed, Stands, Alone, NEW w \in Workers, Step(w)
    PROVE  Alone'
<1>1. CASE UserEvent(w) \/ SetSlug(w) \/ Evict(w) \/ Accumulate(w)
  BY <1>1, AloneDone DEF UserEvent, SetSlug, Evict, Accumulate, rowVars
<1>2. CASE AccumulateRead(w)
  BY <1>2, AloneMoves DEF AccumulateRead, rowVars
<1>3. CASE OrgRead(w)
  <2>1. CASE Bound = {} /\ Goto(w, "orgcreate", loc[w]) /\ UNCHANGED tenant
    BY <1>3, <2>1, AloneMoves DEF OrgRead, Handling
  <2>2. CASE Refused(w)
    BY <1>3, <2>2, AloneDone DEF OrgRead, Refused
  <2>3. CASE \E r \in Bound : Bound = {r} /\ SaveOrg(w, r)
    BY <1>3, <2>3, AloneSave DEF OrgRead, Bound
  <2> QED
    BY <1>3, <2>1, <2>2, <2>3 DEF OrgRead
<1>4. CASE OrgCreate(w)
  <2>1. Bound = {}
    BY <1>4 DEF OrgCreate, Alone
  <2>2. CASE Refused(w)
    BY <1>4, <2>2, AloneDone DEF OrgCreate, Refused
  <2>3. CASE \E r \in Rows : SaveOrg(w, r)
    BY <1>4, <2>1, <2>3, AloneSave DEF OrgCreate
  <2> QED
    BY <1>4, <2>1, <2>2, <2>3 DEF OrgCreate, Free
<1>5. CASE MemberRead(w)
  <2>1. ASSUME NEW r \in Rows,
               Goto(w, "membersave", [loc[w] EXCEPT !.row = r, !.slug = tenant[r].slug])
        PROVE  Alone'
    <3>1. Handling(w) /\ tenant' = tenant /\ member' = member
      BY <1>5 DEF MemberRead, Handling
    <3> QED
      BY <2>1, <3>1, AloneMoves
  <2> QED
    BY <1>5, <2>1, AloneDone DEF MemberRead, Bound
<1>6. CASE MemberFind(w)
  <2>1. ASSUME NEW r \in Rows, member[r].id = loc[w].event.member.id,
               Goto(w, "memberdelete", [loc[w] EXCEPT !.row = r, !.slug = tenant[r].slug])
        PROVE  Alone'
    <3>1. [loc[w] EXCEPT !.row = r, !.slug = tenant[r].slug].row = r
          /\ [loc[w] EXCEPT !.row = r, !.slug = tenant[r].slug].event = loc[w].event
      BY DEF Typed
    <3> DEFINE locals == [loc[w] EXCEPT !.row = r, !.slug = tenant[r].slug]
    <3>2. member'[locals.row].id = locals.event.member.id
      BY <1>6, <2>1, <3>1 DEF MemberFind, rowVars
    <3> HIDE DEF locals
    <3>3. Goto(w, "memberdelete", locals)
      BY <2>1 DEF locals
    <3>4. Handling(w) /\ tenant' = tenant /\ member' = member
      BY <1>6 DEF MemberFind, Handling, rowVars
    <3> QED
      BY <3>2, <3>3, <3>4, AloneMoves
  <2>2. ASSUME NEW r \in Rows, Goto(w, "evict", [loc[w] EXCEPT !.slug = tenant[r].slug])
        PROVE  Alone'
    <3>1. Handling(w) /\ tenant' = tenant /\ member' = member
      BY <1>6 DEF MemberFind, Handling, rowVars
    <3> QED
      BY <2>2, <3>1, AloneMoves
  <2> QED
    BY <1>6, <2>1, <2>2, AloneDone DEF MemberFind, Bound, rowVars
<1>7. CASE MemberSave(w) \/ MemberDelete(w)
  <2>1. Handling(w) /\ tenant' = tenant /\ Goto(w, "evict", loc[w])
    BY <1>7 DEF MemberSave, MemberDelete, Handling
  <2>2. \A v \in Workers \ {w} : pc[v] # "memberdelete"
    BY <2>1 DEF Alone, Handling
  <2> QED
    BY <2>1, <2>2, AloneMoves
<1> QED
  BY <1>1, <1>2, <1>3, <1>4, <1>5, <1>6, <1>7 DEF Step

\* Until two handlers overlap, one works at a time, on one row.
LEMMA AloneNext == Typed /\ Stands /\ UnlessOverlap /\ [System]_vars => UnlessOverlap'
<1> SUFFICES ASSUME Typed, Stands, UnlessOverlap, [System]_vars, Never({"overlap"})' PROVE Alone'
  BY DEF UnlessOverlap
<1>1. Alone
  BY IrregularGrows DEF Next, UnlessOverlap, Never
<1>2. ASSUME UNCHANGED <<pc, loc, tenant, member>> PROVE Alone'
  BY <1>1, <1>2 DEF Alone, Handling, Bound
<1>3. ASSUME NEW w \in Workers, NEW e \in events, Take(w, e) PROVE Alone'
  <2>1. \A v \in Workers : ~Busy(v)
    BY <1>3 DEF Take, Never, Oddities
  <2>2. \A v \in Workers : v # w => pc'[v] = "idle"
    BY <1>3, <2>1 DEF Take, Goto, Typed, Busy
  <2>3. e \in Events /\ pc'[w] = (IF e.kind = "member" /\ ~e.up THEN "memberfind" ELSE e.kind)
    BY <1>3 DEF Take, Goto, Typed
  <2>4. pc'[w] \in {"user", "org", "member", "memberfind"}
    BY <2>3 DEF Events, UserEvents, OrgEvents, MemberEvents
  <2>5. tenant' = tenant /\ Bound' = Bound
    BY <1>3 DEF Take, rowVars, Bound
  <2> QED
    BY <1>1, <2>2, <2>4, <2>5 DEF Alone, Handling
<1>4. ASSUME NEW w \in Workers, Step(w) PROVE Alone'
  BY <1>1, <1>4, AloneStep
<1>5. ASSUME NEW w \in Workers, Crash(w) PROVE Alone'
  BY <1>1, <1>5, AloneDone DEF Crash, rowVars
<1>6. CASE UserChange \/ OrgChange \/ MemberChange \/ PeerLoad \/ Expire
  BY <1>2, <1>6 DEF UserChange, OrgChange, MemberChange, Change, PeerLoad, Expire, execVars, rowVars
<1>7. CASE Mint \/ Revoke \/ Publish \/ FormOpen \/ FormSave \/ Counted
  BY <1>2, <1>7 DEF Mint, Revoke, Publish, FormOpen, FormSave, KeyStep, Counted, ResetUsage,
                    EditUsage, Counting, execVars, rowVars
<1>8. CASE UNCHANGED vars
  BY <1>2, <1>8 DEF vars, execVars, rowVars
<1>9. ASSUME NEW e \in events, LoseEvent(e) PROVE Alone'
  BY <1>2, <1>9 DEF LoseEvent, execVars, rowVars
<1> QED
  BY <1>3, <1>4, <1>5, <1>6, <1>7, <1>8, <1>9 DEF System, Counted

(***************************************************************************)
(* Caches                                                                  *)
(***************************************************************************)

\* Valkey is empty.
LEMMA SlugCachedInit == Init => SlugCached
  BY DEF Init, SlugCached

\* set_tenant_slug_for_org follows every save, with the slug that was saved.
LEMMA SlugCachedNext ==
    Typed /\ Stands /\ UnlessOverlap /\ SlugCached /\ [System]_vars => SlugCached'
<1> SUFFICES ASSUME Typed, Stands, UnlessOverlap, SlugCached, [System]_vars,
                    Never({"outage", "overlap", "lost"})',
                    valkey' # NoSlug
             PROVE  \/ \E r \in Bound' : tenant'[r].slug = valkey'
                    \/ \E v \in Workers : pc'[v] = "orgcache"
  BY DEF SlugCached
<1>1. Never({"outage", "overlap", "lost"}) /\ Alone
  BY IrregularGrows DEF Next, UnlessOverlap, Never
<1> DEFINE Is == valkey = NoSlug \/ \E r \in Bound : tenant[r].slug = valkey
           Goal == \/ \E r \in Bound' : tenant'[r].slug = valkey'
                   \/ \E v \in Workers : pc'[v] = "orgcache"
<1> SUFFICES Goal
  OBVIOUS
<1>2. Is \/ \E v \in Workers : pc[v] = "orgcache"
  BY <1>1 DEF SlugCached
<1>3. ASSUME UNCHANGED <<tenant, valkey>>, Is PROVE Goal
  BY <1>3 DEF Bound
<1>4. ASSUME UNCHANGED <<tenant, valkey, pc>> PROVE Goal
  BY <1>2, <1>4 DEF Bound
<1>5. ASSUME NEW w \in Workers, NEW label, NEW locals, Goto(w, label, locals),
             pc[w] # "orgcache", UNCHANGED <<tenant, valkey>>
      PROVE  Goal
  <2>1. \A v \in Workers : v # w => pc'[v] = pc[v]
    BY <1>5 DEF Goto, Typed
  <2> QED
    BY <1>2, <1>3, <1>5, <2>1
<1>6. ASSUME NEW w \in Workers, NEW r \in Rows, SaveOrg(w, r) PROVE Goal
  BY <1>6 DEF SaveOrg, Goto, Typed
<1>7. ASSUME NEW w \in Workers, SetSlug(w) PROVE Goal
  <2>1. valkey' = loc[w].event.slug /\ tenant' = tenant
    BY <1>7 DEF SetSlug, Fault, Never, rowVars
  <2>2. loc[w].row \in Bound /\ tenant[loc[w].row].slug = loc[w].event.slug
    <3>1. pc[w] = "orgcache" /\ WorkerStands(w)
      BY <1>7 DEF SetSlug, Stands
    <3>2. tenant[loc[w].row] = [slug |-> loc[w].event.slug, org |-> TRUE, active |-> TRUE]
      BY <1>1, <3>1 DEF Alone
    <3> QED
      BY <3>1, <3>2 DEF WorkerStands
  <2> QED
    BY <2>1, <2>2 DEF Bound
<1> HIDE DEF Is, Goal
<1>8. ASSUME NEW w \in Workers, Step(w) PROVE Goal
  <2>1. CASE UserEvent(w) \/ AccumulateRead(w) \/ Accumulate(w) \/ Evict(w) \/ MemberSave(w)
             \/ MemberDelete(w)
    BY <1>5, <2>1 DEF UserEvent, AccumulateRead, Accumulate, Evict, MemberSave, MemberDelete, Done,
                      cacheVars, rowVars, Busy
  <2>2. CASE MemberRead(w) \/ MemberFind(w)
    BY <1>5, <2>2 DEF MemberRead, MemberFind, Done, cacheVars, rowVars
  <2>3. CASE OrgRead(w) \/ OrgCreate(w)
    <3>1. CASE \E r \in Rows : SaveOrg(w, r)
      BY <1>6, <3>1
    <3>2. CASE Goto(w, "orgcreate", loc[w]) /\ tenant' = tenant
      BY <1>5, <2>3, <3>2 DEF OrgRead, OrgCreate, cacheVars
    <3>3. CASE Refused(w)
      BY <1>5, <2>3, <3>3 DEF OrgRead, OrgCreate, cacheVars, Refused, Done
    <3> QED
      BY <2>3, <3>1, <3>2, <3>3 DEF OrgRead, OrgCreate, Bound, Free
  <2> QED
    BY <1>7, <1>8, <2>1, <2>2, <2>3 DEF Step
<1>9. ASSUME NEW w \in Workers, NEW e \in events, Take(w, e) PROVE Goal
  BY <1>5, <1>9 DEF Take, Busy, rowVars, cacheVars
<1>10. ASSUME NEW w \in Workers PROVE ~Crash(w)
  BY DEF Crash, Fault, Never
<1>11. CASE Expire
  <2>1. CASE valkey' = NoSlug
    BY <2>1
  <2>2. CASE valkey' = valkey
    BY <1>4, <1>11, <2>2 DEF Expire, rowVars, execVars
  <2> QED
    BY <1>11, <2>1, <2>2 DEF Expire
<1>12. CASE UserChange \/ OrgChange \/ MemberChange \/ PeerLoad
  BY <1>4, <1>12 DEF UserChange, OrgChange, MemberChange, Change, PeerLoad, rowVars, cacheVars, execVars
<1>13. CASE Mint \/ Revoke \/ Publish \/ FormOpen \/ FormSave \/ Counted
  BY <1>4, <1>13 DEF Mint, Revoke, Publish, FormOpen, FormSave, KeyStep, Counted, ResetUsage,
                     EditUsage, Counting, rowVars, cacheVars, execVars
<1>14. CASE UNCHANGED vars
  BY <1>4, <1>14 DEF vars, rowVars, cacheVars, execVars
<1>15. ASSUME NEW e \in events, LoseEvent(e) PROVE Goal
  BY <1>4, <1>15 DEF LoseEvent, rowVars, cacheVars, execVars
<1> QED
  BY <1>8, <1>9, <1>10, <1>11, <1>12, <1>13, <1>14, <1>15 DEF System, Counted

\* The peers hold nothing.
LEMMA PeersCachedInit == Init => PeersCached
  BY DEF Init, PeersCached, SlugHeld

\* A row of the organization keeps its slug, unless it is renamed.
LEMMA SlugKept ==
    ASSUME Typed, [System]_vars, Never({"renamed"})', NEW r \in Bound
    PROVE  tenant'[r].slug = tenant[r].slug
<1>1. CASE tenant' = tenant
  BY <1>1
<1>2. ASSUME NEW w \in Workers, NEW q \in Rows, SaveOrg(w, q)
      PROVE  tenant'[r].slug = tenant[r].slug
  <2>1. CASE q = r
    <3>1. "renamed" \notin irregular'
      BY DEF Never
    <3>2. tenant[r].slug = loc[w].event.slug
      BY <1>2, <2>1, <3>1 DEF SaveOrg, Renames
    <3> QED
      BY <1>2, <2>1, <3>2 DEF SaveOrg, Typed, Bound
  <2>2. CASE q # r
    BY <1>2, <2>2 DEF SaveOrg, Typed, Bound
  <2> QED
    BY <2>1, <2>2
<1> QED
  BY <1>1, <1>2, TenantChanges

\* Without a rename the slug a handler has read is still its row's.
LEMMA SlugHeldNext ==
    ASSUME Typed, Stands, SlugHeld, [System]_vars, Never({"renamed"})'
    PROVE  SlugHeld'
<1>1. ASSUME NEW v \in Workers, pc'[v] = pc[v], loc'[v] = loc[v],
             pc[v] \in {"membersave", "memberdelete"}
      PROVE  tenant'[loc'[v].row].slug = loc'[v].slug
  BY <1>1, SlugKept DEF SlugHeld, Stands, WorkerStands
<1>2. ASSUME UNCHANGED <<pc, loc>> PROVE SlugHeld'
  BY <1>1, <1>2 DEF SlugHeld
<1>3. ASSUME NEW w \in Workers, NEW label, NEW locals, Goto(w, label, locals),
             label \in {"membersave", "memberdelete"} => tenant'[locals.row].slug = locals.slug
      PROVE  SlugHeld'
  <2>1. pc'[w] = label /\ loc'[w] = locals
    BY <1>3 DEF Goto, Typed
  <2>2. \A v \in Workers : v # w => pc'[v] = pc[v] /\ loc'[v] = loc[v]
    BY <1>3 DEF Goto, Typed
  <2> QED
    BY <1>1, <1>3, <2>1, <2>2 DEF SlugHeld
<1>4. ASSUME NEW w \in Workers, NEW r \in Rows, NEW label, tenant' = tenant,
             Goto(w, label, [loc[w] EXCEPT !.row = r, !.slug = tenant[r].slug])
      PROVE  SlugHeld'
  <2> DEFINE locals == [loc[w] EXCEPT !.row = r, !.slug = tenant[r].slug]
  <2>1. tenant'[locals.row].slug = locals.slug
    BY <1>4 DEF Typed
  <2> HIDE DEF locals
  <2>2. Goto(w, label, locals)
    BY <1>4 DEF locals
  <2> QED
    BY <1>3, <2>1, <2>2
<1>5. ASSUME NEW w \in Workers, Step(w) PROVE SlugHeld'
  <2>1. CASE UserEvent(w) \/ AccumulateRead(w) \/ Accumulate(w) \/ Evict(w) \/ SetSlug(w)
             \/ MemberSave(w) \/ MemberDelete(w)
    BY <1>3, <2>1 DEF UserEvent, AccumulateRead, Accumulate, Evict, SetSlug, MemberSave,
                      MemberDelete, Done
  <2>2. CASE MemberRead(w)
    BY <1>3, <1>4, <2>2 DEF MemberRead, Done, Bound
  <2>3. CASE MemberFind(w)
    BY <1>3, <1>4, <2>3 DEF MemberFind, Done, rowVars
  <2>4. CASE OrgRead(w) \/ OrgCreate(w)
    BY <1>3, <2>4 DEF OrgRead, OrgCreate, SaveOrg, Refused, Done
  <2> QED
    BY <1>5, <2>1, <2>2, <2>3, <2>4 DEF Step
<1>6. ASSUME NEW w \in Workers, NEW e \in events, Take(w, e) PROVE SlugHeld'
  <2>1. e \in Events
    BY DEF Typed
  <2>2. (IF e.kind = "member" /\ ~e.up THEN "memberfind" ELSE e.kind)
           \notin {"membersave", "memberdelete"}
    BY <2>1 DEF Events, UserEvents, OrgEvents, MemberEvents
  <2> QED
    BY <1>3, <1>6, <2>2 DEF Take
<1>7. ASSUME NEW w \in Workers, Crash(w) PROVE SlugHeld'
  BY <1>3, <1>7 DEF Crash, Done
<1>8. CASE UserChange \/ OrgChange \/ MemberChange \/ PeerLoad \/ Expire
  BY <1>2, <1>8 DEF UserChange, OrgChange, MemberChange, Change, PeerLoad, Expire, execVars
<1>9. CASE Mint \/ Revoke \/ Publish \/ FormOpen \/ FormSave \/ Counted
  BY <1>2, <1>9 DEF Mint, Revoke, Publish, FormOpen, FormSave, KeyStep, Counted, ResetUsage,
                    EditUsage, Counting, execVars
<1>10. CASE UNCHANGED vars
  BY <1>2, <1>10 DEF vars, execVars
<1>11. ASSUME NEW e \in events, LoseEvent(e) PROVE SlugHeld'
  BY <1>2, <1>11 DEF LoseEvent, execVars
<1> QED
  BY <1>5, <1>6, <1>7, <1>8, <1>9, <1>10, <1>11 DEF System, Counted

\* A membership that changes is evicted before its handler ends.
LEMMA BackedNext ==
    ASSUME Typed, Stands, SlugHeld, [System]_vars, Never({"outage", "lost", "renamed"})',
           NEW held \in peers', held \in peers => Backed(held)
    PROVE  Backed(held)'
<1>0. /\ "outage" \notin irregular' /\ "lost" \notin irregular' /\ Never({"renamed"})'
  BY DEF Never
<1>1. ASSUME NEW r \in Rows, member'[r] = member[r], member[r] # NoMember,
             <<tenant[r].slug, member[r].role>> = held
      PROVE  Backed(held)'
  <2>1. tenant'[r].slug = tenant[r].slug
    BY <1>0, <1>1, SlugKept DEF Stands
  <2> QED
    BY <1>1, <2>1 DEF Backed
<1>2. ASSUME Backed(held), UNCHANGED member,
             \A w \in Workers : pc[w] = "evict" => pc'[w] = "evict" /\ loc'[w] = loc[w]
      PROVE  Backed(held)'
  BY <1>1, <1>2 DEF Backed
<1>3. ASSUME Backed(held), NEW w \in Workers, NEW label, NEW locals, Goto(w, label, locals),
             pc[w] # "evict", UNCHANGED member
      PROVE  Backed(held)'
  <2>1. \A v \in Workers : v # w => pc'[v] = pc[v] /\ loc'[v] = loc[v]
    BY <1>3 DEF Goto, Typed
  <2> QED
    BY <1>2, <1>3, <2>1
<1>4. ASSUME NEW w \in Workers, Evict(w) PROVE Backed(held)'
  <2>1. held \in peers /\ held[1] # loc[w].slug /\ member' = member
    BY <1>0, <1>4 DEF Evict, Fault, rowVars
  <2>2. \A v \in Workers : v # w => pc'[v] = pc[v] /\ loc'[v] = loc[v]
    BY <1>4 DEF Evict, Done, Goto, Typed
  <2> QED
    BY <1>1, <2>1, <2>2 DEF Backed
<1>5. ASSUME NEW w \in Workers, MemberSave(w) \/ MemberDelete(w) PROVE Backed(held)'
  <2>1. /\ pc'[w] = "evict" /\ loc'[w] = loc[w] /\ peers' = peers
        /\ \A r \in Rows : r # loc[w].row => member'[r] = member[r]
    BY <1>5 DEF MemberSave, MemberDelete, Goto, Typed, cacheVars
  <2>2. tenant[loc[w].row].slug = loc[w].slug
    BY <1>5 DEF MemberSave, MemberDelete, SlugHeld
  <2>3. \A v \in Workers : v # w => pc'[v] = pc[v] /\ loc'[v] = loc[v]
    BY <1>5 DEF MemberSave, MemberDelete, Goto, Typed
  <2>4. CASE held[1] = loc[w].slug
    BY <2>1, <2>4 DEF Backed
  <2>5. CASE held[1] # loc[w].slug
    <3>1. CASE \E v \in Workers : pc[v] = "evict" /\ loc[v].slug = held[1]
      BY <2>1, <2>3, <2>5, <3>1 DEF Backed
    <3>2. ASSUME NEW r \in Rows, member[r] # NoMember, <<tenant[r].slug, member[r].role>> = held
          PROVE  Backed(held)'
      <4>1. r # loc[w].row
        BY <2>2, <2>5, <3>2
      <4> QED
        BY <1>1, <2>1, <3>2, <4>1
    <3> QED
      BY <2>1, <3>1, <3>2 DEF Backed
  <2> QED
    BY <2>4, <2>5
<1>6. ASSUME NEW w \in Workers, Step(w) PROVE Backed(held)'
  <2>1. CASE UserEvent(w) \/ AccumulateRead(w) \/ Accumulate(w) \/ SetSlug(w)
    BY <1>3, <2>1 DEF UserEvent, AccumulateRead, Accumulate, SetSlug, Done, Busy, rowVars, cacheVars
  <2>2. CASE MemberRead(w) \/ MemberFind(w)
    BY <1>3, <2>2 DEF MemberRead, MemberFind, Done, rowVars, cacheVars
  <2>3. CASE OrgRead(w) \/ OrgCreate(w)
    <3>1. member' = member /\ peers' = peers /\ pc[w] # "evict"
      BY <2>3 DEF OrgRead, OrgCreate, cacheVars
    <3>2. \E label, locals : Goto(w, label, locals)
      BY <2>3 DEF OrgRead, OrgCreate, SaveOrg, Refused, Done
    <3> QED
      BY <1>3, <3>1, <3>2
  <2> QED
    BY <1>4, <1>5, <1>6, <2>1, <2>2, <2>3 DEF Step
<1>7. ASSUME NEW w \in Workers, NEW e \in events, Take(w, e) PROVE Backed(held)'
  BY <1>3, <1>7 DEF Take, Busy, rowVars, cacheVars
<1>8. ASSUME NEW w \in Workers PROVE ~Crash(w)
  BY <1>0 DEF Crash, Fault
<1>9. ASSUME UNCHANGED <<pc, loc, member>>, held \in peers PROVE Backed(held)'
  BY <1>2, <1>9
<1>10. CASE PeerLoad
  <2>1. CASE held \in peers
    BY <1>9, <1>10, <2>1 DEF PeerLoad, rowVars, execVars
  <2>2. CASE \E r \in Rows : member[r] # NoMember /\ held = <<tenant[r].slug, member[r].role>>
    BY <1>1, <1>10, <2>2 DEF PeerLoad, rowVars
  <2> QED
    BY <1>10, <2>1, <2>2 DEF PeerLoad
<1>11. CASE Expire
  <2>1. held \in peers
    BY <1>11 DEF Expire
  <2> QED
    BY <1>9, <1>11, <2>1 DEF Expire, rowVars, execVars
<1>12. CASE UserChange \/ OrgChange \/ MemberChange
  BY <1>9, <1>12 DEF UserChange, OrgChange, MemberChange, Change, rowVars, cacheVars, execVars
<1>13. CASE Mint \/ Revoke \/ Publish \/ FormOpen \/ FormSave \/ Counted
  BY <1>9, <1>13 DEF Mint, Revoke, Publish, FormOpen, FormSave, KeyStep, Counted, ResetUsage,
                     EditUsage, Counting, rowVars, cacheVars, execVars
<1>14. CASE UNCHANGED vars
  BY <1>9, <1>14 DEF vars, rowVars, cacheVars, execVars
<1>15. ASSUME NEW e \in events, LoseEvent(e) PROVE Backed(held)'
  BY <1>9, <1>15 DEF LoseEvent, rowVars, cacheVars, execVars
<1> QED
  BY <1>6, <1>7, <1>8, <1>10, <1>11, <1>12, <1>13, <1>14, <1>15 DEF System, Counted

\* What the peers hold is a row, or about to be evicted.
LEMMA PeersCachedNext == Typed /\ Stands /\ PeersCached /\ [System]_vars => PeersCached'
<1> SUFFICES ASSUME Typed, Stands, PeersCached, [System]_vars PROVE PeersCached'
  OBVIOUS
<1>1. irregular \subseteq irregular'
  BY IrregularGrows DEF Next
<1>2. ASSUME Never({"renamed"})' PROVE SlugHeld /\ SlugHeld'
  BY <1>1, <1>2, SlugHeldNext DEF PeersCached, Never
<1>3. ASSUME Never({"outage", "lost", "renamed"})', NEW held \in peers' PROVE Backed(held)'
  <2>1. Never({"renamed"})' /\ Never({"outage", "lost", "renamed"})
    BY <1>1, <1>3 DEF Never
  <2>2. held \in peers => Backed(held)
    BY <2>1 DEF PeersCached
  <2> QED
    BY <1>2, <1>3, <2>1, <2>2, BackedNext
<1> QED
  BY <1>2, <1>3 DEF PeersCached

(***************************************************************************)
(* The numbers of events                                                   *)
(***************************************************************************)

\* Every event in flight or in hand is one WorkOS sends.
LEMMA KnownTyped == ASSUME Typed, Stands PROVE Known \subseteq Events
<1>1. ASSUME NEW w \in Workers, Handling(w) PROVE loc[w].event \in Events
  <2>1. pc[w] \in Labels /\ WorkerStands(w)
    BY DEF Typed, Stands
  <2> QED
    BY <1>1, <2>1 DEF Handling, Labels, WorkerStands, Events
<1> QED
  BY <1>1 DEF Known, InHand, Typed

\* The event of a handler is known.
LEMMA HandledKnown == ASSUME NEW w \in Workers, Handling(w) PROVE loc[w].event \in Known
  BY DEF Known, InHand

\* Who is handed what is known, or more, knows no more than that.
LEMMA KnownGoto ==
    ASSUME Typed, NEW more, NEW w \in Workers, NEW label, NEW locals, Goto(w, label, locals),
           events' \subseteq Known \cup more,
           label \in {"idle", "accumulate"} \/ locals.event \in Known \cup more
    PROVE  Known' \subseteq Known \cup more
<1>1. \A v \in Workers : v # w => pc'[v] = pc[v] /\ loc'[v] = loc[v]
  BY DEF Goto, Typed
<1>2. pc'[w] = label /\ loc'[w] = locals
  BY DEF Goto, Typed
<1>3. ASSUME NEW v \in Workers, Handling(v)' PROVE loc'[v].event \in Known \cup more
  BY <1>1, <1>2, <1>3 DEF Handling, Known, InHand
<1> QED
  BY <1>3 DEF Known, InHand

\* A handler that ends brings nothing new.
LEMMA KnownDone ==
    ASSUME Typed, NEW w \in Workers, Done(w), events' \subseteq Known
    PROVE  Known' \subseteq Known
<1>1. Known' \subseteq Known \cup {}
  BY KnownGoto DEF Done
<1> QED
  BY <1>1

\* A handler that keeps its event brings nothing new.
LEMMA KnownMoves ==
    ASSUME Typed, NEW w \in Workers, NEW label, NEW locals, Goto(w, label, locals),
           Handling(w), locals.event = loc[w].event, events' = events
    PROVE  Known' \subseteq Known
<1>1. Known' \subseteq Known \cup {}
  BY KnownGoto, HandledKnown DEF Known
<1> QED
  BY <1>1

\* No step of a worker makes up an event; a refused one is put back.
LEMMA KnownStep == ASSUME Typed, NEW w \in Workers, Step(w) PROVE Known' \subseteq Known
<1>1. CASE UserEvent(w) \/ SetSlug(w) \/ Evict(w) \/ Accumulate(w)
  BY <1>1, KnownDone DEF UserEvent, SetSlug, Evict, Accumulate, Known
<1>2. CASE AccumulateRead(w)
  <2>1. Known' \subseteq Known \cup {}
    BY <1>2, KnownGoto DEF AccumulateRead, Known
  <2> QED
    BY <2>1
<1>3. CASE Refused(w) /\ Handling(w)
  BY <1>3, KnownDone, HandledKnown DEF Refused, Known
<1>4. ASSUME NEW r \in Rows, SaveOrg(w, r), Handling(w) PROVE Known' \subseteq Known
  <2>1. [loc[w] EXCEPT !.row = r].event = loc[w].event
    BY DEF Typed
  <2> QED
    BY <1>4, <2>1, KnownMoves DEF SaveOrg
<1>5. CASE OrgRead(w)
  BY <1>3, <1>4, <1>5, KnownMoves DEF OrgRead, Handling, Bound
<1>6. CASE OrgCreate(w)
  BY <1>3, <1>4, <1>6 DEF OrgCreate, Handling, Bound, Free
<1>7. ASSUME NEW r \in Rows, NEW label, Handling(w), events' = events,
             \/ Goto(w, label, [loc[w] EXCEPT !.row = r, !.slug = tenant[r].slug])
             \/ Goto(w, label, [loc[w] EXCEPT !.slug = tenant[r].slug])
      PROVE  Known' \subseteq Known
  <2>1. /\ [loc[w] EXCEPT !.row = r, !.slug = tenant[r].slug].event = loc[w].event
        /\ [loc[w] EXCEPT !.slug = tenant[r].slug].event = loc[w].event
    BY DEF Typed
  <2> QED
    BY <1>7, <2>1, KnownMoves
<1>8. CASE MemberRead(w)
  BY <1>7, <1>8, KnownDone DEF MemberRead, Handling, Bound, Known
<1>9. CASE MemberFind(w)
  BY <1>7, <1>9, KnownDone DEF MemberFind, Handling, Bound, Known
<1>10. CASE MemberSave(w) \/ MemberDelete(w)
  BY <1>10, KnownMoves DEF MemberSave, MemberDelete, Handling
<1> QED
  BY <1>1, <1>2, <1>5, <1>6, <1>8, <1>9, <1>10 DEF Step

\* A handler takes up an event that is in flight.
LEMMA KnownTake == ASSUME Typed, NEW w \in Workers, NEW e \in events, Take(w, e) PROVE Known' \subseteq Known
<1> DEFINE locals == [Idle EXCEPT !.event = e]
<1>1. locals.event = e
  BY DEF Idle
<1> HIDE DEF locals
<1>2. PICK label : Goto(w, label, locals)
  BY DEF Take, locals
<1>3. events' \subseteq Known /\ e \in Known
  BY DEF Take, Known
<1>4. Known' \subseteq Known \cup {}
  BY <1>1, <1>2, <1>3, KnownGoto
<1> QED
  BY <1>4

\* A change at WorkOS makes one event known.
LEMMA KnownChange ==
    ASSUME Typed, NEW now, NEW event, Change(now, event)
    PROVE  Known' = Known \cup {event}
<1>1. InHand' = InHand
  BY DEF Change, InHand, Handling, execVars
<1> QED
  BY <1>1 DEF Known, Change

\* Nothing is known of WorkOS that it has not said.
LEMMA KnownNext ==
    ASSUME Typed, [System]_vars
    PROVE  \/ Known' \subseteq Known /\ UNCHANGED <<truth, sent>>
           \/ UserChange \/ OrgChange \/ MemberChange
<1>1. ASSUME UNCHANGED <<pc, loc, events>> PROVE Known' \subseteq Known
  BY <1>1 DEF Known, InHand, Handling
<1>2. ASSUME NEW w \in Workers, Step(w) PROVE Known' \subseteq Known /\ UNCHANGED <<truth, sent>>
  BY <1>2, KnownStep DEF Step, UserEvent, OrgRead, OrgCreate, SetSlug, MemberRead, MemberSave,
     MemberFind, MemberDelete, Evict, AccumulateRead, Accumulate, truthVars
<1>3. ASSUME NEW w \in Workers, Crash(w) PROVE Known' \subseteq Known /\ UNCHANGED <<truth, sent>>
  BY <1>3, KnownDone DEF Crash, truthVars, Known
<1>4. ASSUME NEW w \in Workers, NEW e \in events, Take(w, e)
      PROVE  Known' \subseteq Known /\ UNCHANGED <<truth, sent>>
  BY <1>4, KnownTake DEF Take, truthVars
<1>5. ASSUME NEW e \in events, LoseEvent(e) PROVE Known' \subseteq Known /\ UNCHANGED <<truth, sent>>
  <2>1. InHand' = InHand
    BY <1>5 DEF LoseEvent, InHand, Handling, execVars
  <2> QED
    BY <1>5, <2>1 DEF LoseEvent, truthVars, Known
<1>6. CASE PeerLoad \/ Expire
  BY <1>1, <1>6 DEF PeerLoad, Expire, truthVars, execVars
<1>7. CASE Mint \/ Revoke \/ Publish \/ FormOpen \/ FormSave \/ Counted
  BY <1>1, <1>7 DEF Mint, Revoke, Publish, FormOpen, FormSave, KeyStep, Counted, ResetUsage,
                    EditUsage, Counting, truthVars, execVars
<1>8. CASE UNCHANGED vars
  BY <1>1, <1>8 DEF vars, truthVars, execVars
<1> QED
  BY <1>2, <1>3, <1>4, <1>5, <1>6, <1>7, <1>8 DEF System, Counted

\* Which steps write the rows, and what for.
LEMMA RowsChange ==
    ASSUME Typed, Stands, [System]_vars
    PROVE  /\ user' # user => \E e \in Known : e.kind \in {"user", "member"}
           /\ Bound' # Bound => \E e \in Known : e.kind = "org"
           /\ \A r \in Rows : member'[r] # member[r] =>
                 member'[r] = NoMember \/ \E e \in Known : e.kind = "member"
<1>1. ASSUME NEW w \in Workers, Step(w), user' # user
      PROVE  \E e \in Known : e.kind \in {"user", "member"}
  <2>1. pc[w] \in {"user", "member"}
    BY <1>1 DEF Step, UserEvent, OrgRead, OrgCreate, SetSlug, MemberRead, MemberSave, MemberFind,
                MemberDelete, Evict, AccumulateRead, Accumulate, rowVars
  <2>2. Handling(w) /\ loc[w].event.kind \in {"user", "member"}
    BY <2>1 DEF Handling, Stands, WorkerStands, UserEvents, MemberEvents
  <2> QED
    BY <2>2, HandledKnown
<1>2. ASSUME NEW w \in Workers, Step(w), Bound' # Bound PROVE \E e \in Known : e.kind = "org"
  <2>1. pc[w] \in {"org", "orgcreate"}
    BY <1>2 DEF Step, UserEvent, OrgRead, OrgCreate, SetSlug, MemberRead, MemberSave, MemberFind,
                MemberDelete, Evict, AccumulateRead, Accumulate, rowVars, Bound
  <2>2. Handling(w) /\ loc[w].event.kind = "org"
    BY <2>1 DEF Handling, Stands, WorkerStands, OrgEvents
  <2> QED
    BY <2>2, HandledKnown
<1>3. ASSUME NEW w \in Workers, Step(w), NEW r \in Rows, member'[r] # member[r]
      PROVE  member'[r] = NoMember \/ \E e \in Known : e.kind = "member"
  <2>1. pc[w] \in {"membersave", "memberdelete"}
    BY <1>3 DEF Step, UserEvent, OrgRead, OrgCreate, SetSlug, MemberRead, MemberSave, MemberFind,
                MemberDelete, Evict, AccumulateRead, Accumulate, rowVars
  <2>2. Handling(w) /\ loc[w].event.kind = "member"
    BY <2>1 DEF Handling, Stands, WorkerStands, MemberEvents
  <2> QED
    BY <2>2, HandledKnown
<1>4. ASSUME UNCHANGED rowVars PROVE user' = user /\ Bound' = Bound /\ member' = member
  BY <1>4 DEF rowVars, Bound
<1>5. ASSUME ~\E w \in Workers : Step(w) PROVE UNCHANGED rowVars
  <2>1. CASE UserChange \/ OrgChange \/ MemberChange \/ PeerLoad \/ Expire
    BY <2>1 DEF UserChange, OrgChange, MemberChange, Change, PeerLoad, Expire
  <2>2. CASE Mint \/ Revoke \/ Publish \/ FormOpen \/ FormSave \/ Counted
    BY <2>2 DEF Mint, Revoke, Publish, FormOpen, FormSave, KeyStep, Counted, ResetUsage,
                EditUsage, Counting
  <2>3. CASE UNCHANGED vars
    BY <2>3 DEF vars
  <2>4. ASSUME NEW w \in Workers, Crash(w) PROVE UNCHANGED rowVars
    BY <2>4 DEF Crash
  <2>5. ASSUME NEW w \in Workers, NEW e \in events, Take(w, e) PROVE UNCHANGED rowVars
    BY <2>5 DEF Take
  <2>6. ASSUME NEW e \in events, LoseEvent(e) PROVE UNCHANGED rowVars
    BY <2>6 DEF LoseEvent
  <2> QED
    BY <1>5, <2>1, <2>2, <2>3, <2>4, <2>5, <2>6 DEF System, Counted
<1> QED
  BY <1>1, <1>2, <1>3, <1>4, <1>5

\* What an event of each kind carries.
LEMMA EventFacts ==
    ASSUME NEW e \in Events
    PROVE  /\ e.n \in Nat \ {0} /\ e.kind \in Kinds /\ e.up \in BOOLEAN
           /\ e.kind = "user" => e \in UserEvents
           /\ e.kind = "org" => e \in OrgEvents /\ e.up
           /\ e.kind = "member" => e \in MemberEvents /\ e.member.id \in Nat \ {0} /\ e.member # NoMember
<1>1. CASE e \in UserEvents
  BY <1>1 DEF UserEvents, Kinds, Numbers
<1>2. CASE e \in OrgEvents
  BY <1>2 DEF OrgEvents, Kinds, Numbers
<1>3. CASE e \in MemberEvents
  <2>1. e.member.id \in Nat \ {0} /\ e.member # NoMember
    BY <1>3 DEF MemberEvents, Numbers, NoMember
  <2> QED
    BY <1>3, <2>1 DEF MemberEvents, Kinds, Numbers
<1> QED
  BY <1>1, <1>2, <1>3 DEF Events

\* Nothing is known, and nothing was sent.
LEMMA NumberedInit ==
    ASSUME Init, NEW m, m = [k \in Kinds |-> 0]
    PROVE  Numbered(m, 0)
<1>1. Known = {}
  BY DEF Init, Known, InHand, Handling
<1>2. Bound = {}
  BY DEF Init, Bound, NoTenant
<1>3. m["user"] = 0 /\ m["org"] = 0 /\ m["member"] = 0 /\ m \in [Kinds -> 0 .. sent]
  BY DEF Kinds, Init
<1>4. Latest(m, 0)
  BY <1>1, <1>3 DEF Latest, Init
<1>5. UserNumbered(m) /\ OrgNumbered(m)
  BY <1>1, <1>2, <1>3 DEF UserNumbered, OrgNumbered, Init
<1>6. MemberNumbered(m, 0)
  BY <1>1, <1>3 DEF MemberNumbered, Init, NoMember
<1> QED
  BY <1>4, <1>5, <1>6 DEF Numbered

\* Only the start of a handler notes the number of its event.
LEMMA LastChanges ==
    ASSUME Typed, [System]_vars
    PROVE  \/ last' = last
           \/ \E e \in events : last' = [last EXCEPT ![e.kind] = IF @ > e.n THEN @ ELSE e.n]
<1>1. ASSUME NEW w \in Workers, Step(w) \/ Crash(w) PROVE last' = last
  BY <1>1 DEF Step, UserEvent, OrgRead, OrgCreate, SetSlug, MemberRead, MemberSave, MemberFind,
              MemberDelete, Evict, AccumulateRead, Accumulate, Crash
<1>2. CASE UserChange \/ OrgChange \/ MemberChange \/ PeerLoad \/ Expire
  BY <1>2 DEF UserChange, OrgChange, MemberChange, Change, PeerLoad, Expire
<1>3. CASE Mint \/ Revoke \/ Publish \/ FormOpen \/ FormSave \/ Counted
  BY <1>3 DEF Mint, Revoke, Publish, FormOpen, FormSave, KeyStep, Counted, ResetUsage, EditUsage,
              Counting
<1>4. CASE UNCHANGED vars
  BY <1>4 DEF vars
<1>5. CASE \E e \in events : LoseEvent(e)
  BY <1>5 DEF LoseEvent
<1>6. CASE \E e \in events : \E w \in Workers : Take(w, e)
  BY <1>6 DEF Take
<1> QED
  BY <1>1, <1>2, <1>3, <1>4, <1>5, <1>6 DEF System, Counted

\* What the numbers say stays true while WorkOS says nothing new.
LEMMA NumberedStill ==
    ASSUME Typed, Stands, NEW m, NEW top, Numbered(m, top), [System]_vars,
           Known' \subseteq Known, UNCHANGED <<truth, sent>>
    PROVE  Numbered(m, top)'
<1>1. Known \subseteq Events
  BY KnownTyped
<1>2. ASSUME NEW e \in Known
      PROVE  e.kind \in Kinds /\ e.n \in Nat \ {0} /\ e.n <= m[e.kind] /\ m[e.kind] \in Nat /\ m[e.kind] # 0
  BY <1>1, EventFacts DEF Numbered, Latest, Typed
<1>3. Latest(m, top)'
  <2>1. ASSUME NEW k \in Kinds PROVE last'[k] <= m[k]
    <3>1. last[k] <= m[k]
      BY DEF Numbered, Latest
    <3>2. CASE last' = last
      BY <3>1, <3>2
    <3>3. ASSUME NEW e \in events, last' = [last EXCEPT ![e.kind] = IF @ > e.n THEN @ ELSE e.n]
          PROVE  last'[k] <= m[k]
      <4>1. e.kind \in Kinds /\ e.n <= m[e.kind]
        BY <1>2 DEF Known
      <4> QED
        BY <3>1, <3>3, <4>1 DEF Typed
    <3> QED
      BY <3>2, <3>3, LastChanges
  <2> QED
    BY <2>1 DEF Numbered, Latest
<1>4. UserNumbered(m)'
  <2>1. truth.user = "none" => user' = "none"
    <3>1. ASSUME NEW e \in Known, e.kind \in {"user", "member"} PROVE truth.user # "none"
      BY <1>2, <3>1 DEF Numbered, UserNumbered
    <3>2. user' # user => \E e \in Known : e.kind \in {"user", "member"}
      BY RowsChange
    <3> QED
      BY <3>1, <3>2 DEF Numbered, UserNumbered
  <2> QED
    BY <2>1 DEF Numbered, UserNumbered
<1>5. OrgNumbered(m)'
  <2>1. m["org"] = 0 => Bound' = {}
    <3>1. ASSUME NEW e \in Known, e.kind = "org" PROVE m["org"] # 0
      BY <1>2, <3>1
    <3>2. Bound' # Bound => \E e \in Known : e.kind = "org"
      BY RowsChange
    <3> QED
      BY <3>1, <3>2 DEF Numbered, OrgNumbered
  <2> QED
    BY <2>1 DEF Numbered, OrgNumbered
<1>6. MemberNumbered(m, top)'
  <2>1. top = 0 => \A r \in Rows : member'[r] = NoMember
    <3>1. ASSUME NEW e \in Known, e.kind = "member" PROVE top # 0
      <4>1. e.member.id \in Nat \ {0} /\ e.member.id <= top
        BY <1>1, <3>1, EventFacts DEF Numbered, MemberNumbered
      <4> QED
        BY <4>1 DEF Numbered, Latest
    <3>2. \A r \in Rows : member'[r] # member[r] =>
             member'[r] = NoMember \/ \E e \in Known : e.kind = "member"
      BY RowsChange
    <3> QED
      BY <3>1, <3>2 DEF Numbered, MemberNumbered
  <2> QED
    BY <2>1 DEF Numbered, MemberNumbered
<1> QED
  BY <1>3, <1>4, <1>5, <1>6 DEF Numbered

\* A new event is younger than everything of its kind.
LEMMA LatestChange ==
    ASSUME Typed, Stands, NEW m, NEW top, Latest(m, top), NEW m2, NEW top2, NEW now, NEW event,
           Change(now, event), event.n = sent + 1, event.kind \in Kinds,
           m2 = [m EXCEPT ![event.kind] = sent + 1],
           top2 = top \/ (top2 = sent + 1 /\ event.kind = "member")
    PROVE  Latest(m2, top2)'
<1>1. Known' = Known \cup {event} /\ Known \subseteq Events
  BY KnownChange, KnownTyped
<1>2. sent \in Nat /\ sent' = sent + 1 /\ last' = last /\ last \in [Kinds -> Nat]
  BY DEF Typed, Change
<1>3. m2 \in [Kinds -> 0 .. sent'] /\ \A k \in Kinds : m[k] <= m2[k] /\ m[k] \in Nat /\ m2[k] \in Nat
  BY <1>2 DEF Latest
<1>4. top2 \in 0 .. sent' /\ top2 <= m2["member"]
  BY <1>2, <1>3 DEF Latest, Kinds
<1>5. \A k \in Kinds : last'[k] <= m2[k]
  BY <1>2, <1>3 DEF Latest
<1>6. ASSUME NEW e \in Known' PROVE e.n <= m2[e.kind]
  <2>1. CASE e = event
    BY <1>2, <2>1 DEF Latest
  <2>2. CASE e \in Known
    <3>1. e.n \in Nat /\ e.kind \in Kinds /\ e.n <= m[e.kind]
      BY <1>1, <2>2, EventFacts DEF Latest
    <3> QED
      BY <1>3, <3>1
  <2> QED
    BY <1>1, <2>1, <2>2
<1> QED
  BY <1>3, <1>4, <1>5, <1>6 DEF Latest

\* A new event of the user is the youngest, and says what the user is now.
LEMMA UserNumberedChange ==
    ASSUME Typed, Stands, NEW m, NEW top, Numbered(m, top), UserChange, NEW m2,
           m2 = [m EXCEPT !["user"] = sent + 1]
    PROVE  Numbered(m2, top)'
<1>1. PICK up \in BOOLEAN :
         /\ up => truth.user # "deleted"
         /\ ~up => truth.user = "active" /\ truth.member = NoMember
         /\ Change([truth EXCEPT !.user = IF up THEN "active" ELSE "deleted"],
                   About("user", up, NoSlug, NoMember))
  BY DEF UserChange
<1> DEFINE event == About("user", up, NoSlug, NoMember)
<1>2. event.n = sent + 1 /\ event.kind = "user" /\ event.up = up
  BY DEF About
<1>3. /\ truth'.user = (IF up THEN "active" ELSE "deleted")
      /\ truth'.slug = truth.slug /\ truth'.member = truth.member
      /\ Known' = Known \cup {event} /\ UNCHANGED <<user, tenant, member>> /\ Bound' = Bound
  BY <1>1, KnownChange DEF Change, Typed, rowVars, Bound
<1> HIDE DEF event
<1>4. /\ m2["user"] = sent + 1 /\ m2["org"] = m["org"] /\ m2["member"] = m["member"] /\ sent \in Nat
      /\ m["user"] \in 0 .. sent
  BY DEF Numbered, Latest, Kinds, Typed
<1>5. \A e \in Known : e \in Events /\ e.n \in Nat /\ e.up \in BOOLEAN /\ (e.kind = "user" => e.n <= m["user"])
  BY KnownTyped, EventFacts DEF Numbered, Latest
<1>6. Latest(m2, top)'
  <2>1. Change([truth EXCEPT !.user = IF up THEN "active" ELSE "deleted"], event)
    BY <1>1 DEF event
  <2> QED
    BY <1>2, <2>1, LatestChange DEF Numbered, Kinds
<1>7. UserNumbered(m2)'
  <2>1. truth'.user # "none" /\ m2["user"] # 0
    BY <1>3, <1>4
  <2>2. ASSUME NEW e \in Known, e.kind = "user" PROVE e.n < m2["user"] /\ e.up
    <3>1. e.n < m2["user"]
      BY <1>4, <1>5, <2>2
    <3>2. e.n = m["user"] => e.up
      <4>1. e.n # 0 /\ (e.n = m["user"] => (e.up <=> truth.user = "active"))
        BY <1>5, <2>2, EventFacts DEF Numbered, UserNumbered
      <4>2. e.n = m["user"] => truth.user # "none"
        BY <4>1 DEF Numbered, UserNumbered
      <4>3. truth.user \in {"none", "active", "deleted"}
        BY DEF Typed
      <4>4. truth.user # "deleted"
        BY <1>1
      <4> QED
        BY <4>1, <4>2, <4>3, <4>4
    <3> QED
      BY <1>4, <1>5, <2>2, <3>1, <3>2 DEF Numbered, UserNumbered
  <2>3. ASSUME NEW e \in Known', e.kind = "user"
        PROVE  /\ e.n = m2["user"] => (e.up <=> truth'.user = "active")
               /\ e.n < m2["user"] => e.up
    <3>1. CASE e = event
      BY <1>2, <1>3, <1>4, <3>1
    <3>2. CASE e \in Known
      BY <1>4, <1>5, <2>2, <2>3, <3>2
    <3> QED
      BY <1>3, <3>1, <3>2
  <2> QED
    BY <2>1, <2>3 DEF UserNumbered
<1>8. OrgNumbered(m2)'
  BY <1>2, <1>3, <1>4 DEF Numbered, OrgNumbered
<1>9. MemberNumbered(m2, top)'
  <2>1. \A e \in Known' : e.kind = "member" => e \in Known
    BY <1>2, <1>3
  <2> QED
    BY <1>3, <1>4, <2>1 DEF Numbered, MemberNumbered
<1> QED
  BY <1>6, <1>7, <1>8, <1>9 DEF Numbered

\* A new event of the organization is the youngest, and carries its slug.
LEMMA OrgNumberedChange ==
    ASSUME Typed, Stands, NEW m, NEW top, Numbered(m, top), OrgChange, NEW m2,
           m2 = [m EXCEPT !["org"] = sent + 1]
    PROVE  Numbered(m2, top)'
<1>1. PICK slug \in Slugs : Change([truth EXCEPT !.slug = slug], About("org", TRUE, slug, NoMember))
  BY DEF OrgChange
<1> DEFINE event == About("org", TRUE, slug, NoMember)
<1>2. event.n = sent + 1 /\ event.kind = "org" /\ event.slug = slug
  BY DEF About
<1>3. /\ truth'.slug = slug /\ truth'.user = truth.user /\ truth'.member = truth.member
      /\ Known' = Known \cup {event} /\ UNCHANGED <<user, tenant, member>> /\ Bound' = Bound
  BY <1>1, KnownChange DEF Change, Typed, rowVars, Bound
<1> HIDE DEF event
<1>4. /\ m2["org"] = sent + 1 /\ m2["user"] = m["user"] /\ m2["member"] = m["member"] /\ sent \in Nat
      /\ m["org"] \in 0 .. sent
  BY DEF Numbered, Latest, Kinds, Typed
<1>5. \A e \in Known : e \in Events /\ e.n \in Nat /\ (e.kind = "org" => e.n <= m["org"])
  BY KnownTyped, EventFacts DEF Numbered, Latest
<1>6. Latest(m2, top)'
  <2>1. Change([truth EXCEPT !.slug = slug], event)
    BY <1>1 DEF event
  <2> QED
    BY <1>2, <2>1, LatestChange DEF Numbered, Kinds
<1>7. OrgNumbered(m2)'
  <2>1. truth'.slug # NoSlug /\ m2["org"] # 0
    BY <1>3, <1>4, SlugAssumption
  <2>2. ASSUME NEW e \in Known', e.kind = "org", e.n = m2["org"] PROVE e.slug = truth'.slug
    <3>1. e \notin Known
      BY <1>4, <1>5, <2>2
    <3> QED
      BY <1>2, <1>3, <3>1
  <2> QED
    BY <2>1, <2>2 DEF OrgNumbered
<1>8. UserNumbered(m2)'
  BY <1>2, <1>3, <1>4 DEF Numbered, UserNumbered
<1>9. MemberNumbered(m2, top)'
  <2>1. \A e \in Known' : e.kind = "member" => e \in Known
    BY <1>2, <1>3
  <2> QED
    BY <1>3, <1>4, <2>1 DEF Numbered, MemberNumbered
<1> QED
  BY <1>6, <1>7, <1>8, <1>9 DEF Numbered

\* A membership keeps its id, and a new one is younger than all before.
LEMMA MemberChangeFacts ==
    ASSUME Typed, MemberChange
    PROVE  \E up \in BOOLEAN, mem \in [id : Numbers, role : Roles] :
              /\ Change([truth EXCEPT !.member = IF up THEN mem ELSE NoMember],
                        About("member", up, NoSlug, mem))
              /\ truth.member # NoMember => mem.id = truth.member.id
              /\ truth.member = NoMember => up /\ mem.id = sent + 1
              /\ up => truth.user = "active" /\ truth.slug # NoSlug
<1>1. ASSUME NEW role \in Roles, truth.user = "active", truth.slug # NoSlug,
             LET id == IF truth.member = NoMember THEN sent + 1 ELSE truth.member.id
                 now == [id |-> id, role |-> role] IN
             Change([truth EXCEPT !.member = now], About("member", TRUE, NoSlug, now))
      PROVE  \E mem \in [id : Numbers, role : Roles] :
                /\ Change([truth EXCEPT !.member = mem], About("member", TRUE, NoSlug, mem))
                /\ truth.member # NoMember => mem.id = truth.member.id
                /\ truth.member = NoMember => mem.id = sent + 1
  <2> DEFINE id == IF truth.member = NoMember THEN sent + 1 ELSE truth.member.id
  <2>1. id \in Numbers
    BY DEF Typed, Memberships, Numbers
  <2>2. [id |-> id, role |-> role] \in [id : Numbers, role : Roles]
    BY <2>1
  <2> WITNESS [id |-> id, role |-> role] \in [id : Numbers, role : Roles]
  <2> QED
    BY <1>1
<1>2. ASSUME truth.member # NoMember PROVE truth.member \in [id : Numbers, role : Roles]
  BY <1>2 DEF Typed, Memberships
<1> QED
  BY <1>1, <1>2 DEF MemberChange

\* A new event of the membership is the youngest; deletions name memberships
\* that have ended.
LEMMA MemberNumberedChange ==
    ASSUME Typed, Stands, NEW m, NEW top, Numbered(m, top), NEW m2, NEW up \in BOOLEAN,
           NEW mem \in [id : Numbers, role : Roles],
           m2 = [m EXCEPT !["member"] = sent + 1],
           Change([truth EXCEPT !.member = IF up THEN mem ELSE NoMember],
                  About("member", up, NoSlug, mem)),
           truth.member # NoMember => mem.id = truth.member.id,
           truth.member = NoMember => up /\ mem.id = sent + 1,
           up => truth.user = "active" /\ truth.slug # NoSlug
    PROVE  Numbered(m2, mem.id)'
<1> DEFINE event == About("member", up, NoSlug, mem)
<1>2. event.n = sent + 1 /\ event.kind = "member" /\ event.member = mem /\ event.up = up
  BY DEF About
<1>3. /\ truth'.slug = truth.slug /\ truth'.user = truth.user
      /\ truth'.member = (IF up THEN mem ELSE NoMember)
      /\ Known' = Known \cup {event} /\ UNCHANGED <<user, tenant, member>> /\ Bound' = Bound
  BY KnownChange DEF Change, Typed, rowVars, Bound
<1>0. Change([truth EXCEPT !.member = IF up THEN mem ELSE NoMember], event)
  OBVIOUS
<1> HIDE DEF event
<1>4. /\ m2["member"] = sent + 1 /\ m2["user"] = m["user"] /\ m2["org"] = m["org"] /\ sent \in Nat
      /\ m["member"] \in 0 .. sent
  BY DEF Numbered, Latest, Kinds, Typed
<1>5. \A e \in Known : e \in Events /\ e.n \in Nat /\ (e.kind = "member" => e.n <= m["member"])
  BY KnownTyped, EventFacts DEF Numbered, Latest
<1>6. /\ mem.id \in Nat /\ mem.id # 0 /\ mem.id <= sent + 1 /\ top \in Nat /\ top <= sent
      /\ top <= mem.id /\ (mem.id = top \/ mem.id = sent + 1) /\ mem # NoMember
  BY DEF Numbered, Latest, MemberNumbered, Numbers, Typed, NoMember
<1>7. Latest(m2, mem.id)'
  <2>1. \A top2 : top2 = top \/ (top2 = sent + 1 /\ event.kind = "member") => Latest(m2, top2)'
    BY <1>0, <1>2, LatestChange DEF Numbered, Kinds
  <2> QED
    BY <1>2, <1>6, <2>1
<1>8. UserNumbered(m2)'
  <2>1. truth'.user # "none"
    BY <1>3 DEF Numbered, MemberNumbered, UserNumbered
  <2> QED
    BY <1>2, <1>3, <1>4, <2>1 DEF Numbered, UserNumbered
<1>9. OrgNumbered(m2)'
  BY <1>2, <1>3, <1>4 DEF Numbered, OrgNumbered
<1>10. MemberNumbered(m2, mem.id)'
  <2>1. truth'.member # NoMember => truth'.member.id = mem.id
    BY <1>3
  <2>2. ASSUME NEW e \in Known, e.kind = "member"
        PROVE  /\ e.member.id \in Nat /\ e.member.id <= top /\ e.member.id <= e.n /\ e.n < sent + 1
               /\ e.up /\ e.n >= top => e.member.id = top
               /\ ~e.up /\ truth.member # NoMember => e.member.id < top
    BY <1>4, <1>5, <2>2, EventFacts DEF Numbered, MemberNumbered
  <2>3. ASSUME NEW e \in Known, e.kind = "member"
        PROVE  /\ e.member.id <= mem.id /\ e.member.id <= e.n
               /\ e.up /\ e.n >= mem.id => e.member.id = mem.id
               /\ e.n # m2["member"]
               /\ ~e.up /\ truth'.member # NoMember => e.member.id < mem.id
    <3>1. e.n \in Nat /\ e.n # m2["member"] /\ e.member.id <= mem.id /\ e.member.id <= e.n
      BY <1>4, <1>5, <1>6, <2>2, <2>3
    <3>2. e.up /\ e.n >= mem.id => e.member.id = mem.id
      BY <1>4, <1>5, <1>6, <2>2, <2>3
    <3>3. ASSUME ~e.up, truth'.member # NoMember PROVE e.member.id < mem.id
      <4>1. CASE truth.member # NoMember
        BY <1>6, <2>2, <2>3, <3>3, <4>1 DEF Numbered, MemberNumbered
      <4>2. CASE truth.member = NoMember
        BY <1>6, <2>2, <2>3, <4>2, <1>4
      <4> QED
        BY <4>1, <4>2
    <3> QED
      BY <3>1, <3>2, <3>3
  <2>4. ASSUME NEW e \in Known', e.kind = "member"
        PROVE  /\ e.member.id <= mem.id /\ e.member.id <= e.n
               /\ e.up /\ e.n >= mem.id => e.member.id = mem.id
               /\ e.n = m2["member"] =>
                     /\ e.member.id = mem.id
                     /\ e.up => truth'.member = e.member
                     /\ ~e.up => truth'.member = NoMember
               /\ ~e.up /\ truth'.member # NoMember => e.member.id < mem.id
    <3>1. CASE e = event
      BY <1>2, <1>3, <1>6, <3>1
    <3>2. CASE e \in Known
      BY <2>3, <2>4, <3>2
    <3> QED
      BY <1>3, <3>1, <3>2
  <2> QED
    BY <1>4, <1>6, <2>1, <2>4 DEF MemberNumbered
<1> QED
  BY <1>7, <1>8, <1>9, <1>10 DEF Numbered

(***************************************************************************)
(* While nothing has been out of the ordinary                              *)
(***************************************************************************)

\* What is calm after a step was calm before it.
LEMMA CalmBefore == ASSUME [System]_vars, Calm' PROVE Calm
  BY IrregularGrows DEF Next, Calm, Never

\* What a calm step of a worker leaves alone.
LEMMA StepLeaves ==
    ASSUME Typed, NEW w \in Workers, Step(w)
    PROVE  /\ events \subseteq events' /\ last' = last /\ truth' = truth
           /\ \A v \in Workers : v # w => pc'[v] = pc[v] /\ loc'[v] = loc[v]
           /\ Handling(w)' => Handling(w) /\ loc'[w].event = loc[w].event
           /\ pc'[w] \notin {"user", "org", "member"}
<1>1. events \subseteq events' /\ last' = last /\ truth' = truth
  BY DEF Step, UserEvent, OrgRead, OrgCreate, SaveOrg, Refused, SetSlug, MemberRead, MemberSave,
         MemberFind, MemberDelete, Evict, AccumulateRead, Accumulate, truthVars
<1> DEFINE Ends(label, locals) ==
        /\ Goto(w, label, locals)
        /\ label \notin {"user", "org", "member"}
        /\ label \in {"idle", "accumulate"} \/ (Handling(w) /\ locals.event = loc[w].event)
<1>2. \E label, locals : Ends(label, locals)
  <2> DEFINE Ended == \E label, locals : Ends(label, locals)
  <2> SUFFICES Ended
    OBVIOUS
  <2>1. CASE UserEvent(w) \/ SetSlug(w) \/ Evict(w) \/ Accumulate(w)
    BY <2>1 DEF UserEvent, SetSlug, Evict, Accumulate, Done
  <2>2. CASE AccumulateRead(w)
    BY <2>2 DEF AccumulateRead
  <2>3. ASSUME NEW r \in Rows, SaveOrg(w, r), Handling(w) PROVE Ended
    <3> DEFINE locals == [loc[w] EXCEPT !.row = r]
    <3>1. locals.event = loc[w].event
      BY DEF Typed
    <3> HIDE DEF locals
    <3>2. Goto(w, "orgcache", locals)
      BY <2>3 DEF SaveOrg, locals
    <3> QED
      BY <2>3, <3>1, <3>2
  <2>4. CASE OrgRead(w)
    BY <2>3, <2>4 DEF OrgRead, Refused, Done, Handling, Bound
  <2>5. CASE OrgCreate(w)
    BY <2>3, <2>5 DEF OrgCreate, Refused, Done, Handling, Bound, Free
  <2>6. ASSUME NEW r \in Rows, NEW label, Handling(w), label \in {"membersave", "memberdelete", "evict"},
               \/ Goto(w, label, [loc[w] EXCEPT !.row = r, !.slug = tenant[r].slug])
               \/ Goto(w, label, [loc[w] EXCEPT !.slug = tenant[r].slug])
        PROVE  Ended
    <3>1. /\ [loc[w] EXCEPT !.row = r, !.slug = tenant[r].slug].event = loc[w].event
          /\ [loc[w] EXCEPT !.slug = tenant[r].slug].event = loc[w].event
      BY DEF Typed
    <3> QED
      BY <2>6, <3>1
  <2>7. CASE Done(w)
    BY <2>7 DEF Done
  <2> HIDE DEF Ended
  <2>8. CASE MemberRead(w)
    <3>1. Handling(w)
      BY <2>8 DEF MemberRead, Handling
    <3>2. ASSUME NEW r \in Rows,
                 Goto(w, "membersave", [loc[w] EXCEPT !.row = r, !.slug = tenant[r].slug])
          PROVE  Ended
      BY <2>6, <3>1, <3>2
    <3> QED
      BY <2>7, <2>8, <3>2 DEF MemberRead, Bound
  <2>9. CASE MemberFind(w)
    <3>1. Handling(w)
      BY <2>9 DEF MemberFind, Handling
    <3>2. ASSUME NEW r \in Rows,
                 \/ Goto(w, "memberdelete", [loc[w] EXCEPT !.row = r, !.slug = tenant[r].slug])
                 \/ Goto(w, "evict", [loc[w] EXCEPT !.slug = tenant[r].slug])
          PROVE  Ended
      BY <2>6, <3>1, <3>2
    <3> QED
      BY <2>7, <2>9, <3>2 DEF MemberFind, Bound
  <2>10. CASE MemberSave(w) \/ MemberDelete(w)
    BY <2>10 DEF MemberSave, MemberDelete, Handling, Ended
  <2> QED
    BY <2>1, <2>2, <2>4, <2>5, <2>8, <2>9, <2>10 DEF Step
<1>3. PICK label, locals : Ends(label, locals)
  BY <1>2
<1>4. pc'[w] = label /\ loc'[w] = locals /\ \A v \in Workers : v # w => pc'[v] = pc[v] /\ loc'[v] = loc[v]
  BY <1>3 DEF Goto, Typed
<1> QED
  BY <1>1, <1>3, <1>4 DEF Handling

\* A calm take finds every worker idle, and an event that is not late.
LEMMA TakeCalm ==
    ASSUME Typed, NEW w \in Workers, NEW e \in events, Take(w, e), Calm'
    PROVE  /\ \A v \in Workers : ~Handling(v)
           /\ e.up => last[e.kind] <= e.n
           /\ e.kind = "member" /\ e.up => Bound # {}
           /\ e.kind \in Kinds /\ e.n \in Nat /\ e.up \in BOOLEAN
           /\ last' = [last EXCEPT ![e.kind] = IF @ > e.n THEN @ ELSE e.n]
           /\ \A v \in Workers : v # w => ~Handling(v)'
           /\ pc'[w] = (IF e.kind = "member" /\ ~e.up THEN "memberfind" ELSE e.kind)
           /\ Handling(w)' /\ loc'[w].event = e
           /\ \A x \in events : x # e => x \in events'
           /\ truth' = truth /\ user' = user /\ member' = member /\ tenant' = tenant /\ Bound' = Bound
<1>1. "late" \notin irregular' /\ "early" \notin irregular' /\ "overlap" \notin irregular'
  BY DEF Calm, Never
<1>2. e.kind \in Kinds /\ e.n \in Nat /\ e.up \in BOOLEAN
  BY EventFacts DEF Typed
<1>3. \A v \in Workers : ~Busy(v)
  BY <1>1 DEF Take, Oddities
<1>4. ~(e.up /\ e.n < last[e.kind])
  BY <1>1 DEF Take, Oddities
<1>5. ~(e.kind = "member" /\ e.up /\ Bound = {})
  BY <1>1 DEF Take, Oddities
<1>6. last[e.kind] \in Nat
  BY <1>2 DEF Typed
<1>7. e.up => last[e.kind] <= e.n
  BY <1>2, <1>4, <1>6
<1>8. pc'[w] = (IF e.kind = "member" /\ ~e.up THEN "memberfind" ELSE e.kind) /\ loc'[w].event = e
  BY DEF Take, Goto, Typed, Idle
<1>9. \A v \in Workers : v # w => pc'[v] = "idle"
  BY <1>3 DEF Take, Goto, Typed, Busy
<1>10. /\ last' = [last EXCEPT ![e.kind] = IF @ > e.n THEN @ ELSE e.n]
       /\ \A x \in events : x # e => x \in events'
       /\ truth' = truth /\ user' = user /\ member' = member /\ tenant' = tenant /\ Bound' = Bound
  BY DEF Take, truthVars, rowVars, Bound
<1> QED
  BY <1>2, <1>3, <1>5, <1>7, <1>8, <1>9, <1>10 DEF Handling, Busy, Kinds

\* Numbers after a take.
LEMMA TakeNumbers ==
    ASSUME Typed, Stands, NEW m, NEW top, Numbered(m, top), NEW w \in Workers, NEW e \in events,
           last' = [last EXCEPT ![e.kind] = IF @ > e.n THEN @ ELSE e.n], NEW k \in Kinds
    PROVE  /\ last[k] \in Nat /\ last'[k] \in Nat /\ m[k] \in Nat
           /\ last[k] <= last'[k] /\ last'[k] <= m[k]
           /\ e.kind = k => e.n <= last'[k] /\ (last[k] <= e.n => last'[k] = e.n)
<1>1. e.n \in Nat /\ e.kind \in Kinds /\ e.n <= m[e.kind]
  BY KnownTyped, EventFacts DEF Known, Numbered, Latest
<1>2. last[k] \in Nat /\ m[k] \in Nat /\ last[k] <= m[k]
  BY DEF Typed, Numbered, Latest
<1>3. last'[k] = IF k = e.kind THEN (IF last[k] > e.n THEN last[k] ELSE e.n) ELSE last[k]
  BY <1>1 DEF Typed
<1> QED
  BY <1>1, <1>2, <1>3

\* A handler starts with an event that is not late, and finds its tenant.
LEMMA OrderedTake ==
    ASSUME Typed, Stands, NEW m, NEW top, Numbered(m, top), NEW w \in Workers, NEW e \in events,
           Take(w, e), Calm'
    PROVE  Ordered'
<1>1. \A v \in Workers : Handling(v)' => v = w
  BY TakeCalm
<1>2. loc'[w].event = e /\ e.kind \in Kinds
  BY TakeCalm
<1>3. e.n <= last'[e.kind] /\ (e.up => e.n = last'[e.kind])
  BY <1>2, TakeCalm, TakeNumbers
<1>4. pc'[w] = "member" => Bound' # {}
  <2>1. pc'[w] = "member" => e.kind = "member" /\ e.up
    BY <1>2, TakeCalm DEF Kinds
  <2> QED
    BY <2>1, TakeCalm
<1> QED
  BY <1>1, <1>2, <1>3, <1>4 DEF Ordered

\* The newest event of a kind is taken, or stays; a late one stays.
LEMMA TakeComing ==
    ASSUME Typed, Stands, NEW m, NEW top, Numbered(m, top), NEW w \in Workers, NEW e \in events,
           Take(w, e), Calm', NEW k \in Kinds
    PROVE  /\ Coming(k, m[k]) =>
                 Coming(k, m[k])' \/ (e.kind = k /\ e.n = m[k] /\ last'[k] = m[k])
           /\ last[k] = m[k] => last'[k] = m[k]
           /\ Late(k) => Late(k)'
<1>1. /\ last[k] \in Nat /\ last'[k] \in Nat /\ m[k] \in Nat
      /\ last[k] <= last'[k] /\ last'[k] <= m[k]
      /\ e.kind = k => e.n <= last'[k]
  BY TakeCalm, TakeNumbers
<1>2. /\ \A x \in events : x # e => x \in events'
      /\ e.up => last[e.kind] <= e.n
      /\ e.n \in Nat
  BY TakeCalm
<1>3. ASSUME Coming(k, m[k])
      PROVE  Coming(k, m[k])' \/ (e.kind = k /\ e.n = m[k] /\ last'[k] = m[k])
  <2>1. PICK x \in events : x.kind = k /\ x.n = m[k]
    BY <1>3 DEF Coming
  <2>2. CASE x = e
    BY <1>1, <2>1, <2>2
  <2> QED
    BY <1>2, <2>1, <2>2 DEF Coming
<1>4. ASSUME Late(k) PROVE Late(k)'
  <2>1. PICK x \in events : x.kind = k /\ x.up /\ x.n < last[k]
    BY <1>4 DEF Late
  <2>2. x.n \in Nat
    BY EventFacts DEF Typed
  <2>3. x # e
    BY <1>1, <1>2, <2>1, <2>2
  <2>4. x \in events' /\ x.n < last'[k]
    BY <1>1, <1>2, <2>1, <2>2, <2>3
  <2> QED
    BY <2>1, <2>4 DEF Late
<1> QED
  BY <1>1, <1>3, <1>4

\* Taking an event keeps the user's row following, or about to.
LEMMA UserTake ==
    ASSUME Typed, Stands, NEW m, NEW top, Numbered(m, top), UserFollows(m),
           NEW w \in Workers, NEW e \in events, Take(w, e), Calm'
    PROVE  UserFollows(m)'
<1> SUFFICES ASSUME m["user"] # 0 PROVE UserFollows(m)'
  BY DEF UserFollows
<1>1. /\ Coming("user", m["user"]) =>
             Coming("user", m["user"])' \/ (e.kind = "user" /\ e.n = m["user"] /\ last'["user"] = m["user"])
      /\ last["user"] = m["user"] => last'["user"] = m["user"]
      /\ Late("user") => Late("user")'
  BY TakeComing DEF Kinds
<1>2. e.kind = "user" => pc'[w] = "user" /\ loc'[w].event = e
  BY TakeCalm
<1>3. /\ \A x \in events : x # e => x \in events'
      /\ \A v \in Workers : pc[v] # "user"
      /\ user' = user /\ truth' = truth
  BY TakeCalm DEF Handling
<1>4. user = "none" => \E x \in events : x.kind = "user" /\ x.up
  BY <1>3 DEF UserFollows
<1>5. \/ Coming("user", m["user"])
      \/ last["user"] = m["user"] /\ (UserMatches \/ Late("user"))
  BY <1>3 DEF UserFollows, At
<1>6. user' = "none" =>
         \/ \E x \in events' : x.kind = "user" /\ x.up
         \/ \E v \in Workers : pc'[v] = "user" /\ loc'[v].event.up
  BY <1>2, <1>3, <1>4
<1>7. e.kind = "user" /\ e.n = m["user"] => \E v \in Workers : At(v, {"user"}, m["user"])'
  BY <1>2 DEF At
<1>8. UserMatches => UserMatches'
  BY <1>3 DEF UserMatches
<1> QED
  BY <1>1, <1>5, <1>6, <1>7, <1>8 DEF UserFollows

\* Taking an event keeps the tenant's row following, or about to.
LEMMA OrgTake ==
    ASSUME Typed, Stands, NEW m, NEW top, Numbered(m, top), OrgFollows(m),
           NEW w \in Workers, NEW e \in events, Take(w, e), Calm'
    PROVE  OrgFollows(m)'
<1> SUFFICES ASSUME m["org"] # 0 PROVE OrgFollows(m)'
  BY DEF OrgFollows
<1>1. /\ Coming("org", m["org"]) =>
             Coming("org", m["org"])' \/ (e.kind = "org" /\ e.n = m["org"] /\ last'["org"] = m["org"])
      /\ last["org"] = m["org"] => last'["org"] = m["org"]
  BY TakeComing DEF Kinds
<1>2. e.kind = "org" => pc'[w] = "org" /\ loc'[w].event = e
  BY TakeCalm
<1>3. /\ \A v \in Workers : pc[v] \notin {"org", "orgcreate"}
      /\ tenant' = tenant /\ truth' = truth /\ Bound' = Bound
  BY TakeCalm DEF Handling
<1>4. \/ Coming("org", m["org"])
      \/ last["org"] = m["org"] /\ \E r \in Rows : Bound = {r} /\ tenant[r].slug = truth.slug
  BY <1>3 DEF OrgFollows, At
<1>5. e.kind = "org" /\ e.n = m["org"] => \E v \in Workers : At(v, {"org", "orgcreate"}, m["org"])'
  BY <1>2 DEF At
<1> QED
  BY <1>1, <1>3, <1>4, <1>5 DEF OrgFollows

\* Taking an event keeps the membership's row following, or about to.
LEMMA MemberTake ==
    ASSUME Typed, Stands, NEW m, NEW top, Numbered(m, top), MemberFollows(m),
           NEW w \in Workers, NEW e \in events, Take(w, e), Calm'
    PROVE  MemberFollows(m)'
<1> SUFFICES ASSUME m["member"] # 0 PROVE MemberFollows(m)'
  BY DEF MemberFollows
<1> DEFINE labels == {"member", "membersave", "memberfind", "memberdelete"}
<1>1. /\ Coming("member", m["member"]) =>
             \/ Coming("member", m["member"])'
             \/ e.kind = "member" /\ e.n = m["member"] /\ last'["member"] = m["member"]
      /\ last["member"] = m["member"] => last'["member"] = m["member"]
      /\ Late("member") => Late("member")'
  BY TakeComing DEF Kinds
<1>2. e.kind = "member" => pc'[w] \in {"member", "memberfind"} /\ loc'[w].event = e
  BY TakeCalm
<1>3. /\ \A v \in Workers : pc[v] \notin labels
      /\ member' = member /\ truth' = truth /\ Bound' = Bound
  BY TakeCalm DEF Handling
<1>4. \/ Coming("member", m["member"])
      \/ last["member"] = m["member"] /\ (MemberMatches \/ Late("member"))
  BY <1>3 DEF MemberFollows, At
<1>5. e.kind = "member" /\ e.n = m["member"] => \E v \in Workers : At(v, labels, m["member"])'
  BY <1>2 DEF At
<1>6. MemberMatches => MemberMatches'
  BY <1>3 DEF MemberMatches
<1> QED
  BY <1>1, <1>4, <1>5, <1>6 DEF MemberFollows

\* Taking an event keeps the latest membership from being passed over.
LEMMA TopTake ==
    ASSUME Typed, Stands, NEW m, NEW top, Numbered(m, top), TopFollows(top),
           NEW w \in Workers, NEW e \in events, Take(w, e), Calm'
    PROVE  TopFollows(top)'
<1> SUFFICES ASSUME top # 0 PROVE TopFollows(top)'
  BY DEF TopFollows
<1>1. /\ \A x \in events : x # e => x \in events'
      /\ \A v \in Workers : pc[v] \notin {"member", "membersave"}
      /\ member' = member
      /\ e.kind = "member" /\ e.up => pc'[w] = "member" /\ loc'[w].event = e
  BY TakeCalm DEF Handling
<1>2. CASE \E x \in events : x.kind = "member" /\ x.up /\ x.member.id = top
  BY <1>1, <1>2 DEF TopFollows
<1>3. CASE top <= last["member"] /\ \A r \in Rows : member[r] # NoMember => member[r].id = top
  <2>1. last["member"] \in Nat /\ last'["member"] \in Nat /\ last["member"] <= last'["member"] /\ top \in Nat
    BY TakeCalm, TakeNumbers DEF Kinds, Numbered, Latest, Typed
  <2>2. top <= last'["member"]
    BY <1>3, <2>1
  <2> QED
    BY <1>1, <1>3, <2>2 DEF TopFollows
<1> QED
  BY <1>1, <1>2, <1>3 DEF TopFollows

\* An event that comes, or is late, stays so while none is taken.
LEMMA ComingStays ==
    ASSUME events \subseteq events', last' = last, NEW k, NEW n
    PROVE  (Coming(k, n) => Coming(k, n)') /\ (Late(k) => Late(k)')
  BY DEF Coming, Late

\* A handler keeps its event, and its tenant stays bound.
LEMMA OrderedStep ==
    ASSUME Typed, Stands, Ordered, NEW w \in Workers, Step(w)
    PROVE  Ordered'
<1>1. \A v \in Workers : Handling(v)' =>
         Handling(v) /\ loc'[v].event = loc[v].event /\ (pc'[v] = "member" => pc[v] = "member")
  BY StepLeaves DEF Handling
<1>2. Bound \subseteq Bound'
  BY BoundGrows DEF System, Counted
<1>3. last' = last
  BY StepLeaves
<1> QED
  BY <1>1, <1>2, <1>3 DEF Ordered

\* The upsert of the youngest user event makes the row say what WorkOS says; a
\* deletion ahead of its creation leaves a late event behind.
LEMMA UserStep ==
    ASSUME Typed, Stands, Alone, NEW m, NEW top, Numbered(m, top), Ordered, UserFollows(m),
           NEW w \in Workers, Step(w)
    PROVE  UserFollows(m)'
<1> SUFFICES ASSUME m["user"] # 0 PROVE UserFollows(m)'
  BY DEF UserFollows
<1>1. /\ events \subseteq events' /\ last' = last /\ truth' = truth
      /\ \A v \in Workers : v # w => pc'[v] = pc[v] /\ loc'[v] = loc[v]
  BY StepLeaves
<1>2. /\ Coming("user", m["user"]) => Coming("user", m["user"])'
      /\ Late("user") => Late("user")'
  BY <1>1, ComingStays
<1>3. truth.user # "none" /\ truth.user \in {"none", "active", "deleted"}
  BY DEF Numbered, UserNumbered, Typed
<1>4. CASE UserEvent(w)
  <2> DEFINE e == loc[w].event
  <2>1. /\ e \in Known /\ e.kind = "user" /\ e.up \in BOOLEAN /\ e.n \in Nat /\ pc[w] = "user"
        /\ e.n <= m["user"] /\ e.n <= last["user"] /\ (e.up => e.n = last["user"])
        /\ last["user"] <= m["user"] /\ last["user"] \in Nat /\ m["user"] \in Nat
    <3>1. Handling(w) /\ pc[w] = "user" /\ e \in UserEvents
      BY <1>4 DEF UserEvent, Handling, Stands, WorkerStands
    <3>2. e \in Known /\ e.kind = "user" /\ e.up \in BOOLEAN /\ e.n \in Nat
      BY <3>1, HandledKnown DEF UserEvents, Numbers
    <3>3. last["user"] <= m["user"] /\ last["user"] \in Nat /\ m["user"] \in Nat /\ e.n <= m["user"]
      BY <3>2 DEF Numbered, Latest, Typed, Kinds
    <3> QED
      BY <3>1, <3>2, <3>3 DEF Ordered
  <2>2. \A v \in Workers : pc[v] = "user" => v = w
    BY <2>1 DEF Alone, Handling
  <2>3. user' = (IF e.up THEN "active" ELSE IF user = "none" THEN "none" ELSE "inactive")
    BY <1>4 DEF UserEvent
  <2>4. /\ e.n = m["user"] => (e.up <=> truth.user = "active")
        /\ e.n < m["user"] => e.up
    BY <2>1 DEF Numbered, UserNumbered
  <2> HIDE DEF e
  <2>5. user' = "none" => \E x \in events' : x.kind = "user" /\ x.up
    <3>1. ASSUME user' = "none" PROVE \E x \in events : x.kind = "user" /\ x.up
      <4>1. user = "none" /\ ~e.up
        BY <2>1, <2>3, <3>1
      <4> QED
        BY <2>2, <4>1 DEF UserFollows, e
    <3> QED
      BY <1>1, <3>1
  <2>6. ASSUME last["user"] = m["user"] PROVE UserMatches' \/ Late("user")'
    <3>1. e.n = m["user"]
      BY <2>1, <2>4, <2>6
    <3>2. CASE e.up
      BY <1>1, <2>3, <2>4, <3>1, <3>2 DEF UserMatches
    <3>3. CASE ~e.up /\ user # "none"
      <4>1. truth.user = "deleted"
        BY <1>3, <2>4, <3>1, <3>3
      <4> QED
        BY <1>1, <2>3, <3>3, <4>1 DEF UserMatches
    <3>4. CASE ~e.up /\ user = "none"
      <4>1. PICK x \in events : x.kind = "user" /\ x.up
        BY <2>2, <3>4 DEF UserFollows, e
      <4>2. x \in Known /\ x.n \in Nat /\ x.n <= m["user"]
        <5>1. x \in Known /\ x.n \in Nat
          BY EventFacts DEF Known, Typed
        <5> QED
          BY <4>1, <5>1 DEF Numbered, Latest
      <4>3. truth.user # "active"
        BY <2>4, <3>1, <3>4
      <4>4. x.n # m["user"]
        BY <4>1, <4>2, <4>3 DEF Numbered, UserNumbered
      <4>5. Late("user")
        BY <2>1, <2>6, <4>1, <4>2, <4>4 DEF Late
      <4> QED
        BY <1>2, <4>5
    <3> QED
      BY <2>1, <3>2, <3>3, <3>4
  <2>7. Coming("user", m["user"]) \/ last["user"] = m["user"]
    BY DEF UserFollows
  <2> QED
    BY <1>1, <1>2, <2>5, <2>6, <2>7 DEF UserFollows
<1>5. CASE ~UserEvent(w) /\ pc[w] # "user"
  <2>1. user' = user \/ (user = "none" /\ user' = "active")
    BY <1>5 DEF Step, OrgRead, OrgCreate, SetSlug, MemberRead, MemberSave, MemberFind,
                MemberDelete, Evict, AccumulateRead, Accumulate, rowVars
  <2>2. \A v \in Workers : pc[v] = "user" => pc'[v] = "user" /\ loc'[v] = loc[v]
    BY <1>1, <1>5
  <2>3. UserMatches => UserMatches'
    BY <1>1, <1>3, <2>1 DEF UserMatches
  <2> QED
    BY <1>1, <1>2, <2>1, <2>2, <2>3 DEF UserFollows, At
<1>6. pc[w] = "user" => UserEvent(w)
  BY DEF Step, OrgRead, OrgCreate, SetSlug, MemberRead, MemberSave, MemberFind,
         MemberDelete, Evict, AccumulateRead, Accumulate, Busy
<1>7. UserEvent(w) \/ (~UserEvent(w) /\ pc[w] # "user")
  BY <1>6
<1> QED
  BY <1>4, <1>5, <1>7

\* The save of the youngest organization event gives the tenant its slug; a
\* refused one comes again.
LEMMA OrgStep ==
    ASSUME Typed, Stands, Alone, NEW m, NEW top, Numbered(m, top), Ordered, OrgFollows(m),
           NEW w \in Workers, Step(w)
    PROVE  OrgFollows(m)'
<1> SUFFICES ASSUME m["org"] # 0 PROVE OrgFollows(m)'
  BY DEF OrgFollows
<1>1. /\ events \subseteq events' /\ last' = last /\ truth' = truth
      /\ \A v \in Workers : v # w => pc'[v] = pc[v] /\ loc'[v] = loc[v]
  BY StepLeaves
<1>2. Coming("org", m["org"]) => Coming("org", m["org"])'
  BY <1>1, ComingStays
<1>3. CASE pc[w] \notin {"org", "orgcreate"}
  <2>1. tenant' = tenant /\ Bound' = Bound
    BY <1>3 DEF Step, UserEvent, OrgRead, OrgCreate, SetSlug, MemberRead, MemberSave, MemberFind,
                MemberDelete, Evict, AccumulateRead, Accumulate, rowVars, Bound
  <2>2. \A v \in Workers : pc[v] \in {"org", "orgcreate"} => pc'[v] = pc[v] /\ loc'[v] = loc[v]
    BY <1>1, <1>3
  <2> QED
    BY <1>1, <1>2, <2>1, <2>2 DEF OrgFollows, At
<1>4. CASE pc[w] \in {"org", "orgcreate"}
  <2> DEFINE e == loc[w].event
  <2>1. /\ e \in Known /\ e.kind = "org" /\ e.n = last["org"]
        /\ e.n = m["org"] => e.slug = truth.slug
    <3>1. Handling(w) /\ e \in OrgEvents
      BY <1>4 DEF Handling, Stands, WorkerStands
    <3>2. e \in Known /\ e.kind = "org" /\ e.up
      BY <3>1, HandledKnown DEF OrgEvents
    <3> QED
      BY <3>1, <3>2 DEF Ordered, Numbered, OrgNumbered
  <2>2. Coming("org", m["org"]) \/ last["org"] = m["org"]
    BY DEF OrgFollows
  <2>3. CASE Refused(w)
    <3>1. e \in events'
      BY <2>3 DEF Refused
    <3>2. last["org"] = m["org"] => Coming("org", m["org"])'
      BY <2>1, <3>1 DEF Coming
    <3> QED
      BY <1>2, <2>2, <3>2 DEF OrgFollows
  <2>4. CASE Goto(w, "orgcreate", loc[w])
    <3>1. pc'[w] = "orgcreate" /\ loc'[w].event = e
      BY <2>4 DEF Goto, Typed
    <3>2. last["org"] = m["org"] => At(w, {"org", "orgcreate"}, m["org"])'
      BY <2>1, <3>1 DEF At
    <3> QED
      BY <1>1, <1>2, <2>2, <3>2 DEF OrgFollows
  <2>5. ASSUME NEW r \in Rows, SaveOrg(w, r), Bound \subseteq {r} PROVE OrgFollows(m)'
    <3>1. Bound' = {r} /\ tenant'[r].slug = e.slug
      BY <2>5 DEF SaveOrg, Typed, Bound
    <3>2. last["org"] = m["org"] => tenant'[r].slug = truth'.slug
      BY <1>1, <2>1, <3>1
    <3> QED
      BY <1>1, <1>2, <2>2, <3>1, <3>2 DEF OrgFollows
  <2> HIDE DEF e
  <2>6. CASE OrgRead(w)
    BY <2>3, <2>4, <2>5, <2>6 DEF OrgRead, Bound
  <2>7. CASE OrgCreate(w)
    <3>1. Bound = {}
      BY <2>7 DEF OrgCreate, Alone
    <3> QED
      BY <2>3, <2>5, <2>7, <3>1 DEF OrgCreate, Free
  <2>8. OrgRead(w) \/ OrgCreate(w)
    BY <1>4 DEF Step, UserEvent, SetSlug, MemberRead, MemberSave, MemberFind,
                MemberDelete, Evict, AccumulateRead, Accumulate, Busy
  <2> QED
    BY <2>6, <2>7, <2>8
<1> QED
  BY <1>3, <1>4

\* What a worker at a membership event holds.
LEMMA MemberInHand ==
    ASSUME Typed, Stands, NEW m, NEW top, Numbered(m, top), Ordered, NEW w \in Workers,
           pc[w] \in {"member", "membersave", "memberfind", "memberdelete"}
    PROVE  LET e == loc[w].event IN
           /\ e \in Known /\ e.kind = "member" /\ e.n \in Nat /\ e.up \in BOOLEAN
           /\ e.member \in [id : Numbers, role : Roles] /\ e.member # NoMember
           /\ e.member.id \in Nat /\ e.member.id # 0 /\ e.member.id <= top /\ e.member.id <= e.n
           /\ top \in Nat /\ m["member"] \in Nat /\ last["member"] \in Nat /\ last["member"] <= m["member"]
           /\ e.n <= m["member"] /\ e.n <= last["member"]
           /\ e.up <=> pc[w] \in {"member", "membersave"}
           /\ e.up => e.n = last["member"]
           /\ e.up /\ e.n >= top => e.member.id = top
           /\ e.n = m["member"] => e.member.id = top
           /\ e.n = m["member"] /\ e.up => truth.member = e.member
           /\ e.n = m["member"] /\ ~e.up => truth.member = NoMember
           /\ ~e.up /\ truth.member # NoMember => e.member.id < top
<1> DEFINE e == loc[w].event
<1>1. /\ Handling(w) /\ e \in MemberEvents
      /\ e.up <=> pc[w] \in {"member", "membersave"}
  BY DEF Handling, Stands, WorkerStands
<1>2. /\ e.kind = "member" /\ e.n \in Nat /\ e.up \in BOOLEAN /\ e.member \in [id : Numbers, role : Roles]
      /\ e.member.id \in Nat /\ e.member.id # 0 /\ e.member # NoMember
  BY <1>1, EventFacts DEF MemberEvents, Events, Numbers
<1>3. e \in Known /\ e.n <= last["member"] /\ (e.up => e.n = last["member"])
  BY <1>1, <1>2, HandledKnown DEF Ordered
<1>4. /\ top \in Nat /\ m["member"] \in Nat /\ last["member"] \in Nat /\ last["member"] <= m["member"]
      /\ e.n <= m["member"]
  BY <1>2, <1>3 DEF Numbered, Latest, Typed, Kinds
<1>5. /\ e.member.id <= top /\ e.member.id <= e.n
      /\ e.up /\ e.n >= top => e.member.id = top
      /\ e.n = m["member"] => e.member.id = top
      /\ e.n = m["member"] /\ e.up => truth.member = e.member
      /\ e.n = m["member"] /\ ~e.up => truth.member = NoMember
      /\ ~e.up /\ truth.member # NoMember => e.member.id < top
  BY <1>2, <1>3 DEF Numbered, MemberNumbered
<1> QED
  BY <1>1, <1>2, <1>3, <1>4, <1>5

\* The row keeps the id of its membership.
LEMMA StoredFacts ==
    ASSUME NEW x \in Memberships
    PROVE  Stored(x).id = x.id /\ Stored(NoMember) = NoMember
  BY DEF Stored, Memberships, NoMember

\* The latest deletion finds its row, or there is none to find, or the
\* membership itself is still to come.
LEMMA DeletionFinds ==
    ASSUME Typed, Stands, Alone, NEW m, NEW top, Numbered(m, top), Ordered, TopFollows(top),
           NEW w \in Workers, pc[w] = "memberfind", loc[w].event.n = m["member"],
           last["member"] = m["member"],
           \A r \in Rows : member[r].id # loc[w].event.member.id
    PROVE  MemberMatches \/ Late("member")
<1> DEFINE e == loc[w].event
<1>1. /\ ~e.up /\ e.member.id = top /\ top # 0 /\ truth.member = NoMember
      /\ m["member"] \in Nat
  BY MemberInHand
<1>2. CASE \E x \in events : x.kind = "member" /\ x.up /\ x.member.id = top
  <2>1. PICK x \in events : x.kind = "member" /\ x.up /\ x.member.id = top
    BY <1>2
  <2>2. x \in Known /\ x.n \in Nat /\ x.member # NoMember
    BY <2>1, EventFacts DEF Known, Typed
  <2>3. x.n <= m["member"] /\ x.n # m["member"]
    BY <1>1, <2>1, <2>2 DEF Numbered, Latest, MemberNumbered
  <2> QED
    BY <1>1, <2>1, <2>2, <2>3 DEF Late
<1>3. ASSUME NEW v \in Workers, pc[v] \in {"member", "membersave"} PROVE FALSE
  <2>1. Handling(v) /\ Handling(w) /\ v # w
    BY <1>3 DEF Handling
  <2> QED
    BY <2>1 DEF Alone
<1>4. CASE \A r \in Rows : member[r] # NoMember => member[r].id = top
  <2>1. \A r \in Rows : member[r] = NoMember
    BY <1>1, <1>4
  <2>2. Stored(NoMember) = NoMember
    BY StoredFacts DEF Memberships
  <2> QED
    BY <1>1, <2>1, <2>2 DEF MemberMatches, Bound
<1> QED
  BY <1>1, <1>2, <1>3, <1>4 DEF TopFollows

\* A membership's row that says what WorkOS says is not disturbed by older
\* events.
LEMMA MatchesStep ==
    ASSUME Typed, Stands, Alone, Alone', NEW m, NEW top, Numbered(m, top), Ordered,
           NEW w \in Workers, Step(w), last["member"] = m["member"], MemberMatches
    PROVE  MemberMatches'
<1>1. truth' = truth /\ Bound \subseteq Bound'
  BY StepLeaves, BoundGrows DEF System, Counted
<1>2. Stored(NoMember) = NoMember /\ Stored(truth.member).id = truth.member.id
  BY StoredFacts DEF Typed, Memberships
<1>3. CASE UNCHANGED member
  <2>1. ASSUME NEW r \in Bound' PROVE member[r] = Stored(truth.member)
    <3>1. CASE r \in Bound
      BY <3>1 DEF MemberMatches
    <3>2. CASE r \notin Bound
      <4>1. Bound = {}
        BY <1>1, <3>2 DEF Alone
      <4>2. member[r] = NoMember /\ truth.member = NoMember
        BY <3>2, <4>1 DEF Stands, MemberMatches, Bound
      <4> QED
        BY <1>2, <4>2
    <3> QED
      BY <3>1, <3>2
  <2> QED
    BY <1>1, <1>3, <2>1 DEF MemberMatches
<1>4. CASE MemberSave(w)
  <2>1. /\ loc[w].row \in Bound /\ truth.member = loc[w].event.member
        /\ tenant' = tenant /\ Bound' = Bound
        /\ member' = [member EXCEPT ![loc[w].row] = Stored(loc[w].event.member)]
    BY <1>4, MemberInHand DEF MemberSave, Stands, WorkerStands, Bound
  <2> QED
    BY <1>1, <2>1 DEF MemberMatches, Typed
<1>5. CASE MemberDelete(w)
  <2>1. loc[w].row \in Bound /\ member[loc[w].row].id = loc[w].event.member.id /\ pc[w] = "memberdelete"
    BY <1>5 DEF MemberDelete, Stands, WorkerStands, Alone
  <2>2. truth.member.id = loc[w].event.member.id
    BY <1>2, <2>1 DEF MemberMatches
  <2>3. /\ truth.member # NoMember => loc[w].event.member.id < top
        /\ loc[w].event.member.id \in Nat /\ loc[w].event.member.id # 0 /\ top \in Nat
    BY <2>1, MemberInHand
  <2>4. truth.member # NoMember /\ truth.member.id = top
    BY <2>2, <2>3 DEF NoMember, Numbered, MemberNumbered
  <2> QED
    BY <2>2, <2>3, <2>4
<1>6. UNCHANGED member \/ MemberSave(w) \/ MemberDelete(w)
  BY DEF Step, UserEvent, OrgRead, OrgCreate, SetSlug, MemberRead, MemberFind,
         Evict, AccumulateRead, Accumulate, rowVars
<1> QED
  BY <1>3, <1>4, <1>5, <1>6

\* The upsert or delete of the youngest membership event makes the row follow.
LEMMA MemberStep ==
    ASSUME Typed, Stands, Alone, Alone', NEW m, NEW top, Numbered(m, top), Ordered,
           MemberFollows(m), TopFollows(top), NEW w \in Workers, Step(w)
    PROVE  MemberFollows(m)'
<1> SUFFICES ASSUME m["member"] # 0 PROVE MemberFollows(m)'
  BY DEF MemberFollows
<1> DEFINE labels == {"member", "membersave", "memberfind", "memberdelete"}
<1>1. /\ events \subseteq events' /\ last' = last /\ truth' = truth
      /\ \A v \in Workers : v # w => pc'[v] = pc[v] /\ loc'[v] = loc[v]
  BY StepLeaves
<1>2. /\ Coming("member", m["member"]) => Coming("member", m["member"])'
      /\ Late("member") => Late("member")'
  BY <1>1, ComingStays
<1>3. CASE Coming("member", m["member"])
  BY <1>2, <1>3 DEF MemberFollows
<1>4. ASSUME last["member"] = m["member"], MemberMatches \/ Late("member") PROVE MemberFollows(m)'
  BY <1>1, <1>2, <1>4, MatchesStep DEF MemberFollows
<1>5. ASSUME last["member"] = m["member"], NEW v \in Workers, v # w, At(v, labels, m["member"])
      PROVE  MemberFollows(m)'
  BY <1>1, <1>5 DEF MemberFollows, At
<1>6. ASSUME last["member"] = m["member"], At(w, labels, m["member"]) PROVE MemberFollows(m)'
  <2> DEFINE e == loc[w].event
  <2>1. /\ pc[w] \in labels /\ e.n = m["member"]
        /\ e.up => truth.member = e.member
        /\ ~e.up => truth.member = NoMember
        /\ e.up <=> pc[w] \in {"member", "membersave"}
    BY <1>6, MemberInHand DEF At
  <2>2. ASSUME pc'[w] \in labels PROVE MemberFollows(m)'
    <3>1. loc'[w].event = e
      BY <2>2, StepLeaves DEF Handling
    <3> QED
      BY <1>1, <1>6, <2>1, <2>2, <3>1 DEF MemberFollows, At
  <2>3. CASE MemberRead(w)
    <3>1. Bound # {}
      BY <2>3 DEF MemberRead, Ordered, Handling
    <3>2. pc'[w] = "membersave"
      BY <2>3, <3>1 DEF MemberRead, Goto, Typed
    <3> QED
      BY <2>2, <3>2
  <2>4. CASE MemberFind(w)
    <3>1. CASE pc'[w] = "memberdelete"
      BY <2>2, <3>1
    <3>2. CASE \A r \in Rows : member[r].id # e.member.id
      <4>1. MemberMatches \/ Late("member")
        BY <1>6, <2>1, <2>4, <3>2, DeletionFinds DEF MemberFind
      <4> QED
        BY <1>4, <1>6, <4>1
    <3>3. pc'[w] = "memberdelete" \/ \A r \in Rows : member[r].id # e.member.id
      BY <2>4 DEF MemberFind, Goto, Typed
    <3> QED
      BY <3>1, <3>2, <3>3
  <2>5. CASE MemberSave(w) \/ MemberDelete(w)
    <3>1. loc[w].row \in Bound /\ tenant' = tenant /\ Bound' = Bound /\ Bound = {loc[w].row}
      BY <2>5 DEF MemberSave, MemberDelete, Stands, WorkerStands, Bound, Alone
    <3>2. member'[loc[w].row] = Stored(truth.member)
      <4>1. CASE MemberSave(w)
        BY <2>1, <3>1, <4>1 DEF MemberSave, Typed, Bound
      <4>2. CASE MemberDelete(w)
        <5>1. member'[loc[w].row] = NoMember /\ truth.member = NoMember
          BY <2>1, <3>1, <4>2 DEF MemberDelete, Typed, Bound
        <5> QED
          BY <5>1, StoredFacts DEF Memberships
      <4> QED
        BY <2>5, <4>1, <4>2
    <3>3. MemberMatches'
      BY <1>1, <3>1, <3>2 DEF MemberMatches
    <3> QED
      BY <1>1, <1>6, <3>3 DEF MemberFollows
  <2>6. MemberRead(w) \/ MemberFind(w) \/ MemberSave(w) \/ MemberDelete(w)
    BY <2>1 DEF Step, UserEvent, OrgRead, OrgCreate, SetSlug, Evict, AccumulateRead, Accumulate, Busy
  <2> QED
    BY <2>3, <2>4, <2>5, <2>6
<1> HIDE DEF labels
<1>7. \/ Coming("member", m["member"])
      \/ last["member"] = m["member"] /\
            (MemberMatches \/ Late("member") \/ \E v \in Workers : At(v, labels, m["member"]))
  BY DEF MemberFollows, labels
<1> QED
  BY <1>3, <1>4, <1>5, <1>6, <1>7

\* The latest membership reaches its row, or its event is still to come.
LEMMA TopStep ==
    ASSUME Typed, Stands, Alone, NEW m, NEW top, Numbered(m, top), Ordered, TopFollows(top),
           NEW w \in Workers, Step(w)
    PROVE  TopFollows(top)'
<1> SUFFICES ASSUME top # 0 PROVE TopFollows(top)'
  BY DEF TopFollows
<1>1. /\ events \subseteq events' /\ last' = last
      /\ \A v \in Workers : v # w => pc'[v] = pc[v] /\ loc'[v] = loc[v]
  BY StepLeaves
<1>2. CASE \E x \in events : x.kind = "member" /\ x.up /\ x.member.id = top
  BY <1>1, <1>2 DEF TopFollows
<1>3. CASE MemberSave(w)
  <2>1. /\ loc[w].row \in Bound /\ Bound = {loc[w].row} /\ loc[w].row \in Rows
        /\ pc[w] = "membersave"
        /\ member' = [member EXCEPT ![loc[w].row] = Stored(loc[w].event.member)]
        /\ Stored(loc[w].event.member).id = loc[w].event.member.id
    BY <1>3, StoredFacts DEF MemberSave, Stands, WorkerStands, Bound, Alone, MemberEvents, Memberships
  <2>2. /\ loc[w].event.n = last["member"] /\ loc[w].event.member.id <= loc[w].event.n
        /\ loc[w].event.n >= top => loc[w].event.member.id = top
        /\ loc[w].event.n \in Nat /\ top \in Nat /\ loc[w].event.member.id \in Nat
    BY <2>1, MemberInHand
  <2>3. ASSUME loc[w].event.member.id = top PROVE TopFollows(top)'
    <3>1. \A r \in Rows : r # loc[w].row => member'[r] = NoMember
      BY <2>1 DEF Stands, Typed
    <3>2. member'[loc[w].row].id = top /\ top <= last'["member"]
      BY <1>1, <2>1, <2>2, <2>3 DEF Typed
    <3> QED
      BY <3>1, <3>2 DEF TopFollows
  <2>4. ASSUME NEW v \in Workers, pc[v] \in {"member", "membersave"}, loc[v].event.member.id = top
        PROVE  TopFollows(top)'
    <3>1. v = w
      BY <2>1, <2>4 DEF Alone, Handling
    <3> QED
      BY <2>3, <2>4, <3>1
  <2>5. ASSUME top <= last["member"] PROVE TopFollows(top)'
    BY <2>2, <2>3, <2>5
  <2> QED
    BY <1>2, <2>4, <2>5 DEF TopFollows
<1>4. CASE ~MemberSave(w)
  <2>1. ASSUME NEW v \in Workers, pc[v] \in {"member", "membersave"}, loc[v].event.member.id = top
        PROVE  TopFollows(top)'
    <3>1. CASE v # w
      BY <1>1, <2>1, <3>1 DEF TopFollows
    <3>2. CASE v = w
      <4>1. MemberRead(w)
        BY <1>4, <2>1, <3>2 DEF Step, UserEvent, OrgRead, OrgCreate, SetSlug, MemberFind,
           MemberDelete, Evict, AccumulateRead, Accumulate, Busy
      <4>2. Bound # {}
        BY <4>1 DEF MemberRead, Ordered, Handling
      <4>3. pc'[w] = "membersave"
        BY <4>1, <4>2 DEF MemberRead, Goto, Typed
      <4>4. loc'[w].event = loc[w].event
        BY <4>3, StepLeaves DEF Handling
      <4> QED
        BY <2>1, <3>2, <4>3, <4>4 DEF TopFollows
    <3> QED
      BY <3>1, <3>2
  <2>2. \A r \in Rows : member'[r] = member[r] \/ member'[r] = NoMember
    BY <1>4 DEF Step, UserEvent, OrgRead, OrgCreate, SetSlug, MemberRead, MemberFind, MemberDelete,
                Evict, AccumulateRead, Accumulate, rowVars, Typed
  <2> QED
    BY <1>1, <1>2, <2>1, <2>2 DEF TopFollows
<1> QED
  BY <1>3, <1>4

\* The peers, the keys and time leave everything of this as it is.
LEMMA FollowsStill ==
    ASSUME NEW m, NEW top, Follows(m, top), events \subseteq events',
           UNCHANGED <<truth, user, tenant, member, last, pc, loc>>
    PROVE  Follows(m, top)'
<1>1. Bound' = Bound
  BY DEF Bound
<1>2. \A k, n : Coming(k, n) => Coming(k, n)'
  BY DEF Coming
<1>3. \A k : Late(k) => Late(k)'
  BY DEF Late
<1>4. \A w, labels, n : At(w, labels, n)' <=> At(w, labels, n)
  BY DEF At
<1>5. Ordered'
  BY <1>1 DEF Follows, Ordered, Handling
<1>6. UserFollows(m)'
  <2>1. UserMatches' <=> UserMatches
    BY DEF UserMatches
  <2> QED
    BY <1>2, <1>3, <1>4, <2>1 DEF Follows, UserFollows
<1>7. OrgFollows(m)'
  BY <1>1, <1>2, <1>4 DEF Follows, OrgFollows
<1>8. MemberFollows(m)'
  <2>1. MemberMatches' <=> MemberMatches
    BY <1>1 DEF MemberMatches
  <2> QED
    BY <1>2, <1>3, <1>4, <2>1 DEF Follows, MemberFollows
<1>9. TopFollows(top)'
  BY DEF Follows, TopFollows
<1> QED
  BY <1>5, <1>6, <1>7, <1>8, <1>9 DEF Follows

\* Every step of a worker keeps the rows following.
LEMMA FollowsStep ==
    ASSUME Typed, Stands, Alone, Alone', NEW m, NEW top, Numbered(m, top), Follows(m, top),
           NEW w \in Workers, Step(w)
    PROVE  Follows(m, top)'
  BY OrderedStep, UserStep, OrgStep, MemberStep, TopStep DEF Follows

\* Taking an event keeps the rows following.
LEMMA FollowsTake ==
    ASSUME Typed, Stands, NEW m, NEW top, Numbered(m, top), Follows(m, top),
           NEW w \in Workers, NEW e \in events, Take(w, e), Calm'
    PROVE  Follows(m, top)'
  BY OrderedTake, UserTake, OrgTake, MemberTake, TopTake DEF Follows

\* A change at WorkOS leaves the rest of what is known, and its event comes.
LEMMA ChangeLeaves ==
    ASSUME Typed, NEW now, NEW event, Change(now, event), Ordered
    PROVE  /\ event \in events' /\ events \subseteq events' /\ truth' = now
           /\ UNCHANGED <<user, tenant, member, last, pc, loc>> /\ Bound' = Bound
           /\ \A k, n : Coming(k, n) => Coming(k, n)'
           /\ \A k : Late(k) => Late(k)'
           /\ \A w, labels, n : At(w, labels, n)' <=> At(w, labels, n)
           /\ Ordered'
<1>1. /\ event \in events' /\ events \subseteq events' /\ truth' = now
      /\ UNCHANGED <<user, tenant, member, last, pc, loc>> /\ Bound' = Bound
  BY DEF Change, rowVars, execVars, Bound
<1>2. \A k, n : Coming(k, n) => Coming(k, n)'
  BY <1>1 DEF Coming
<1>3. \A k : Late(k) => Late(k)'
  BY <1>1 DEF Late
<1>4. \A w, labels, n : At(w, labels, n)' <=> At(w, labels, n)
  BY <1>1 DEF At
<1>5. Ordered'
  BY <1>1 DEF Ordered, Handling
<1> QED
  BY <1>1, <1>2, <1>3, <1>4, <1>5

\* After a change of the user its event is to come, and the rest still follows.
LEMMA UserChangeTold ==
    ASSUME Typed, Stands, NEW m, NEW top, Told(m, top), UserChange, NEW m2,
           m2 = [m EXCEPT !["user"] = sent + 1], irregular' = irregular
    PROVE  Told(m2, top)'
<1>1. Numbered(m2, top)'
  BY UserNumberedChange DEF Told
<1> SUFFICES ASSUME Calm' PROVE Follows(m2, top)'
  BY <1>1 DEF Told
<1>2. Numbered(m, top) /\ Follows(m, top)
  BY DEF Told, Calm, Never
<1>3. PICK up \in BOOLEAN :
         /\ ~up => truth.user = "active"
         /\ Change([truth EXCEPT !.user = IF up THEN "active" ELSE "deleted"],
                   About("user", up, NoSlug, NoMember))
  BY DEF UserChange
<1> DEFINE event == About("user", up, NoSlug, NoMember)
           now == [truth EXCEPT !.user = IF up THEN "active" ELSE "deleted"]
<1>4. /\ event.n = sent + 1 /\ event.kind = "user" /\ event.up = up
      /\ now.slug = truth.slug /\ now.member = truth.member
  BY DEF About, Typed
<1>5. /\ m2["user"] = sent + 1 /\ m2["org"] = m["org"] /\ m2["member"] = m["member"]
      /\ m["user"] = 0 => truth.user = "none"
  BY <1>2 DEF Numbered, Latest, Kinds, UserNumbered
<1> HIDE DEF event, now
<1>6. Change(now, event)
  BY <1>3 DEF now, event
<1>7. UserFollows(m2)'
  <2>1. Coming("user", m2["user"])'
    BY <1>4, <1>5, <1>6, <1>2, ChangeLeaves DEF Coming, Follows
  <2>2. user' = "none" =>
           \/ \E e \in events' : e.kind = "user" /\ e.up
           \/ \E w \in Workers : pc'[w] = "user" /\ loc'[w].event.up
    <3>1. CASE up
      BY <1>2, <1>4, <1>6, <3>1, ChangeLeaves DEF Follows
    <3>2. CASE ~up
      <4>1. m["user"] # 0
        BY <1>3, <1>5, <3>2
      <4> QED
        BY <1>2, <1>6, <4>1, ChangeLeaves DEF Follows, UserFollows
    <3> QED
      BY <3>1, <3>2
  <2> QED
    BY <2>1, <2>2 DEF UserFollows
<1>8. OrgFollows(m2)'
  BY <1>2, <1>4, <1>5, <1>6, ChangeLeaves DEF Follows, OrgFollows
<1>9. MemberFollows(m2)'
  <2>1. MemberMatches' <=> MemberMatches
    BY <1>2, <1>4, <1>6, ChangeLeaves DEF MemberMatches, Follows
  <2> QED
    BY <1>2, <1>5, <1>6, <2>1, ChangeLeaves DEF Follows, MemberFollows
<1>10. TopFollows(top)'
  BY <1>2, <1>6, ChangeLeaves DEF Follows, TopFollows
<1>11. Ordered'
  BY <1>2, <1>6, ChangeLeaves DEF Follows
<1> QED
  BY <1>7, <1>8, <1>9, <1>10, <1>11 DEF Follows

\* After a change of the organization its event is to come, and the rest still
\* follows.
LEMMA OrgChangeTold ==
    ASSUME Typed, Stands, NEW m, NEW top, Told(m, top), OrgChange, NEW m2,
           m2 = [m EXCEPT !["org"] = sent + 1], irregular' = irregular
    PROVE  Told(m2, top)'
<1>1. Numbered(m2, top)'
  BY OrgNumberedChange DEF Told
<1> SUFFICES ASSUME Calm' PROVE Follows(m2, top)'
  BY <1>1 DEF Told
<1>2. Numbered(m, top) /\ Follows(m, top)
  BY DEF Told, Calm, Never
<1>3. PICK slug \in Slugs : Change([truth EXCEPT !.slug = slug], About("org", TRUE, slug, NoMember))
  BY DEF OrgChange
<1> DEFINE event == About("org", TRUE, slug, NoMember)
           now == [truth EXCEPT !.slug = slug]
<1>4. event.n = sent + 1 /\ event.kind = "org" /\ now.user = truth.user /\ now.member = truth.member
  BY DEF About, Typed
<1>5. m2["org"] = sent + 1 /\ m2["user"] = m["user"] /\ m2["member"] = m["member"]
  BY <1>2 DEF Numbered, Latest, Kinds
<1> HIDE DEF event, now
<1>6. Change(now, event)
  BY <1>3 DEF now, event
<1>7. UserFollows(m2)'
  <2>1. UserMatches' <=> UserMatches
    BY <1>2, <1>4, <1>6, ChangeLeaves DEF UserMatches, Follows
  <2> QED
    BY <1>2, <1>5, <1>6, <2>1, ChangeLeaves DEF Follows, UserFollows
<1>8. OrgFollows(m2)'
  BY <1>2, <1>4, <1>5, <1>6, ChangeLeaves DEF Follows, OrgFollows, Coming
<1>9. MemberFollows(m2)'
  <2>1. MemberMatches' <=> MemberMatches
    BY <1>2, <1>4, <1>6, ChangeLeaves DEF MemberMatches, Follows
  <2> QED
    BY <1>2, <1>5, <1>6, <2>1, ChangeLeaves DEF Follows, MemberFollows
<1>10. TopFollows(top)'
  BY <1>2, <1>6, ChangeLeaves DEF Follows, TopFollows
<1>11. Ordered'
  BY <1>2, <1>6, ChangeLeaves DEF Follows
<1> QED
  BY <1>7, <1>8, <1>9, <1>10, <1>11 DEF Follows

\* After a change of the membership its event is to come, and the rest still
\* follows.
LEMMA MemberChangeTold ==
    ASSUME Typed, Stands, NEW m, NEW top, Told(m, top), NEW m2, NEW up \in BOOLEAN,
           NEW mem \in [id : Numbers, role : Roles],
           m2 = [m EXCEPT !["member"] = sent + 1], irregular' = irregular,
           Change([truth EXCEPT !.member = IF up THEN mem ELSE NoMember],
                  About("member", up, NoSlug, mem)),
           truth.member # NoMember => mem.id = truth.member.id,
           truth.member = NoMember => up /\ mem.id = sent + 1,
           up => truth.user = "active" /\ truth.slug # NoSlug
    PROVE  Told(m2, mem.id)'
<1>1. Numbered(m2, mem.id)'
  BY MemberNumberedChange DEF Told
<1> SUFFICES ASSUME Calm' PROVE Follows(m2, mem.id)'
  BY <1>1 DEF Told
<1>2. Numbered(m, top) /\ Follows(m, top)
  BY DEF Told, Calm, Never
<1> DEFINE event == About("member", up, NoSlug, mem)
           now == [truth EXCEPT !.member = IF up THEN mem ELSE NoMember]
<1>4. /\ event.n = sent + 1 /\ event.kind = "member" /\ event.up = up /\ event.member = mem
      /\ now.user = truth.user /\ now.slug = truth.slug
  BY DEF About, Typed
<1>5. m2["member"] = sent + 1 /\ m2["user"] = m["user"] /\ m2["org"] = m["org"]
  BY <1>2 DEF Numbered, Latest, Kinds
<1>6. Change(now, event)
  OBVIOUS
<1> HIDE DEF event, now
<1>7. UserFollows(m2)'
  <2>1. UserMatches' <=> UserMatches
    BY <1>2, <1>4, <1>6, ChangeLeaves DEF UserMatches, Follows
  <2> QED
    BY <1>2, <1>5, <1>6, <2>1, ChangeLeaves DEF Follows, UserFollows
<1>8. OrgFollows(m2)'
  BY <1>2, <1>4, <1>5, <1>6, ChangeLeaves DEF Follows, OrgFollows
<1>9. MemberFollows(m2)'
  BY <1>2, <1>4, <1>5, <1>6, ChangeLeaves DEF Follows, MemberFollows, Coming
<1>10. TopFollows(mem.id)'
  <2>1. CASE up
    BY <1>2, <1>4, <1>6, <2>1, ChangeLeaves DEF Follows, TopFollows
  <2>2. CASE ~up
    <3>1. mem.id = top
      BY <1>2, <2>2 DEF Numbered, MemberNumbered
    <3> QED
      BY <1>2, <1>6, <3>1, ChangeLeaves DEF Follows, TopFollows
  <2> QED
    BY <2>1, <2>2
<1>11. Ordered'
  BY <1>2, <1>6, ChangeLeaves DEF Follows
<1> QED
  BY <1>7, <1>8, <1>9, <1>10, <1>11 DEF Follows

\* At the start there is nothing to follow.
LEMMA TellingInit == Init => Telling
<1> SUFFICES ASSUME Init PROVE Telling
  OBVIOUS
<1> DEFINE m == [k \in Kinds |-> 0]
<1>1. m["user"] = 0 /\ m["org"] = 0 /\ m["member"] = 0 /\ m \in [Kinds -> 0 .. sent] /\ 0 \in 0 .. sent
  BY DEF Kinds, Init
<1>2. Numbered(m, 0)
  BY NumberedInit
<1>3. Follows(m, 0)
  <2> HIDE DEF m
  <2> QED
    BY <1>1 DEF Follows, UserFollows, OrgFollows, MemberFollows, TopFollows, Ordered, Handling, Init
<1> HIDE DEF m
<1> QED
  BY <1>1, <1>2, <1>3 DEF Telling, Told

\* A change at WorkOS is told by its event.
LEMMA TellingChange ==
    ASSUME Typed, Stands, Telling, UserChange \/ OrgChange \/ MemberChange
    PROVE  \E m, top : Told(m, top)'
<1>1. PICK m, top : Told(m, top)
  BY DEF Telling
<1>2. irregular' = irregular
  BY DEF UserChange, OrgChange, MemberChange, Change
<1>3. PICK next : next = sent + 1
  OBVIOUS
<1>4. CASE UserChange
  <2>1. PICK m2 : m2 = [m EXCEPT !["user"] = next]
    OBVIOUS
  <2> QED
    BY <1>1, <1>2, <1>3, <1>4, <2>1, UserChangeTold
<1>5. CASE OrgChange
  <2>1. PICK m2 : m2 = [m EXCEPT !["org"] = next]
    OBVIOUS
  <2> QED
    BY <1>1, <1>2, <1>3, <1>5, <2>1, OrgChangeTold
<1>6. CASE MemberChange
  <2>1. PICK m2 : m2 = [m EXCEPT !["member"] = next]
    OBVIOUS
  <2>2. m2 = [m EXCEPT !["member"] = sent + 1]
    BY <1>3, <2>1
  <2> HIDE <1>3, <2>1
  <2>3. PICK up \in BOOLEAN, mem \in [id : Numbers, role : Roles] :
           /\ Change([truth EXCEPT !.member = IF up THEN mem ELSE NoMember],
                     About("member", up, NoSlug, mem))
           /\ truth.member # NoMember => mem.id = truth.member.id
           /\ truth.member = NoMember => up /\ mem.id = sent + 1
           /\ up => truth.user = "active" /\ truth.slug # NoSlug
    BY <1>6, MemberChangeFacts
  <2>4. Told(m2, mem.id)'
    BY <1>1, <1>2, <2>2, <2>3, MemberChangeTold
  <2> QED
    BY <2>4
<1> QED
  BY <1>4, <1>5, <1>6

\* What is known tells what WorkOS says, and calm rows follow it.
LEMMA TellingNext ==
    Typed /\ Stands /\ UnlessOverlap /\ Telling /\ [System]_vars => Telling'
<1> SUFFICES ASSUME Typed, Stands, UnlessOverlap, Telling, [System]_vars PROVE \E m, top : Told(m, top)'
  BY DEF Telling, Told, Numbered, Latest
<1>1. CASE UserChange \/ OrgChange \/ MemberChange
  BY <1>1, TellingChange
<1>2. CASE Known' \subseteq Known /\ UNCHANGED <<truth, sent>>
  <2>1. PICK m, top : Told(m, top)
    BY DEF Telling
  <2>2. Numbered(m, top) /\ Numbered(m, top)'
    BY <1>2, <2>1, NumberedStill DEF Told
  <2>3. ASSUME Calm' PROVE Follows(m, top)'
    <3>1. Follows(m, top) /\ Alone /\ Alone'
      <4>1. Calm
        BY <2>3, CalmBefore
      <4>2. UnlessOverlap'
        BY AloneNext
      <4> QED
        BY <2>1, <2>3, <4>1, <4>2 DEF Told, Calm, UnlessOverlap, Never
    <3>2. ASSUME NEW w \in Workers, Step(w) PROVE Follows(m, top)'
      BY <2>2, <3>1, <3>2, FollowsStep
    <3>3. ASSUME NEW w \in Workers, NEW e \in events, Take(w, e) PROVE Follows(m, top)'
      BY <2>2, <2>3, <3>1, <3>3, FollowsTake
    <3>4. /\ \A w \in Workers : ~Crash(w)
          /\ \A e \in events : ~LoseEvent(e)
      BY <2>3 DEF Crash, LoseEvent, Fault, Calm, Never
    <3>5. ASSUME events' = events, UNCHANGED <<user, tenant, member, last, pc, loc>>
          PROVE  Follows(m, top)'
      BY <1>2, <3>1, <3>5, FollowsStill
    <3>6. CASE PeerLoad \/ Expire
      BY <3>5, <3>6 DEF PeerLoad, Expire, rowVars, execVars
    <3>7. CASE Mint \/ Revoke \/ Publish \/ FormOpen \/ FormSave \/ Counted
      BY <3>5, <3>7 DEF Mint, Revoke, Publish, FormOpen, FormSave, KeyStep, Counted, ResetUsage,
                        EditUsage, Counting, rowVars, execVars
    <3>8. CASE UNCHANGED vars
      BY <3>5, <3>8 DEF vars, rowVars, execVars
    <3>9. CASE UserChange \/ OrgChange \/ MemberChange
      <4>1. sent' = sent + 1
        BY <3>9 DEF UserChange, OrgChange, MemberChange, Change
      <4> QED
        BY <1>2, <4>1 DEF Typed
    <3> QED
      BY <3>2, <3>3, <3>4, <3>6, <3>7, <3>8, <3>9 DEF System, Counted
  <2> QED
    BY <2>2, <2>3 DEF Told
<1> QED
  BY <1>1, <1>2, KnownNext

(***************************************************************************)
(* The theorems                                                            *)
(***************************************************************************)

\* The invariant holds at the start.
LEMMA IInvInit == Init => IInv
  BY TypedInit, FitInit, StandsInit, ActiveInit, LockedInit, KeyDroppedInit, AloneInit,
     SlugCachedInit, PeersCachedInit, TellingInit DEF IInv, Kept

\* A step other than an edit by hand keeps what edits break.
LEMMA KeptNext == Typed /\ Kept /\ [System]_vars => Kept'
  BY StandsNext, ActiveNext, AloneNext, SlugCachedNext, PeersCachedNext, TellingNext DEF Kept

\* An edit by hand is not forgotten.
LEMMA ByHandSeen == ByHand => ~Never({"edited"})'
  BY DEF ByHand, EditUser, EditTenant, EditMember, Edit, Fault, Never

\* The invariant is inductive.
LEMMA IInvNext == IInv /\ [Next]_vars => IInv'
<1> SUFFICES ASSUME IInv, [Next]_vars PROVE IInv'
  OBVIOUS
<1>1. Typed /\ Fit
  BY DEF IInv
<1>2. ByHand \/ [System]_vars
  BY DEF Next
<1>3. Typed'
  BY <1>1, <1>2, TypedNext, ByHandTyped
<1>4. Fit' /\ Locked' /\ KeyDropped'
  BY <1>1, FitNext, LockedNext, KeyDroppedNext DEF IInv
<1>5. ASSUME Never({"edited"})' PROVE Kept'
  <2>1. [System]_vars
    BY <1>2, <1>5, ByHandSeen
  <2>2. Never({"edited"})
    BY <1>5, IrregularGrows DEF Never
  <2> QED
    BY <1>1, <2>1, <2>2, KeptNext DEF IInv
<1> QED
  BY <1>3, <1>4, <1>5 DEF IInv

\* webhooks.py:55, tenant_cache.py:87, usage.py:38: the strengthening the other
\* two theorems rest on; its parts about the shadow rows and the caches hold
\* until an operator edits a row by hand.
THEOREM ControlPlaneInvariant == Spec => []IInv
  BY IInvInit, IInvNext, PTL DEF Spec

\* When all is quiet and calm, nothing is left to come or in hand, so the rows
\* match.
LEMMA ShadowFollowsIInv == IInv => ShadowFollows
<1> SUFFICES ASSUME IInv, Quiet, Never({"late", "early", "overlap", "lost", "edited"})
             PROVE  /\ UserMatches
                    /\ truth.slug = NoSlug => Bound = {}
                    /\ truth.slug # NoSlug => \E r \in Rows :
                          /\ Bound = {r} /\ tenant[r].slug = truth.slug /\ tenant[r].active
                          /\ member[r] = Stored(truth.member)
  BY DEF ShadowFollows, UserMatches
<1>0. Calm /\ Kept
  BY DEF IInv, Calm, Never
<1>1. PICK m, top : Numbered(m, top) /\ Follows(m, top)
  BY <1>0 DEF Kept, Telling, Told
<1>2. /\ \A k, n : ~Coming(k, n)
      /\ \A k : ~Late(k)
      /\ \A w \in Workers : pc[w] = "idle"
  BY DEF Quiet, Busy, Coming, Late
<1>3. \A w \in Workers : \A n : ~At(w, {"user"}, n) /\ ~At(w, {"org", "orgcreate"}, n)
                           /\ ~At(w, {"member", "membersave", "memberfind", "memberdelete"}, n)
  BY <1>2 DEF At
<1>4. UserMatches
  <2>1. CASE m["user"] = 0
    BY <1>1, <2>1 DEF Numbered, UserNumbered, UserMatches
  <2>2. CASE m["user"] # 0
    BY <1>1, <1>2, <1>3, <2>2 DEF Follows, UserFollows
  <2> QED
    BY <2>1, <2>2
<1>5. truth.slug = NoSlug => Bound = {}
  BY <1>1 DEF Numbered, OrgNumbered
<1>6. ASSUME truth.slug # NoSlug
      PROVE  \E r \in Rows : Bound = {r} /\ tenant[r].slug = truth.slug
  BY <1>1, <1>2, <1>3, <1>6 DEF Numbered, OrgNumbered, Follows, OrgFollows
<1>7. \A r \in Bound : member[r] = Stored(truth.member)
  <2>1. CASE m["member"] = 0
    <3>1. truth.member = NoMember /\ top = 0
      BY <1>1, <2>1 DEF Numbered, MemberNumbered, Latest, IInv, Typed
    <3>2. Stored(NoMember) = NoMember
      BY StoredFacts DEF Memberships
    <3> QED
      BY <1>1, <3>1, <3>2 DEF Numbered, MemberNumbered, Bound
  <2>2. CASE m["member"] # 0
    BY <1>1, <1>2, <1>3, <2>2 DEF Follows, MemberFollows, MemberMatches
  <2> QED
    BY <2>1, <2>2
<1>8. \A r \in Bound : tenant[r].active
  BY <1>0 DEF Kept, Active
<1> QED
  BY <1>4, <1>5, <1>6, <1>7, <1>8

\* When no worker is busy, no write or eviction is left to come.
LEMMA CachesFollowIInv == IInv => CachesFollow
<1> SUFFICES ASSUME IInv PROVE CachesFollow
  OBVIOUS
<1>1. ASSUME \A w \in Workers : ~Busy(w), Never({"outage", "overlap", "lost", "edited"})
      PROVE  valkey = NoSlug \/ \E r \in Bound : tenant[r].slug = valkey
  <2>1. SlugCached /\ Never({"outage", "overlap", "lost"})
    BY <1>1 DEF IInv, Kept, Never
  <2> QED
    BY <1>1, <2>1 DEF SlugCached, Busy
<1>2. ASSUME \A w \in Workers : ~Busy(w), Never({"outage", "lost", "renamed", "edited"}),
             NEW held \in peers
      PROVE  \E r \in Rows : <<tenant[r].slug, member[r].role>> = held /\ member[r] # NoMember
  <2>1. PeersCached /\ Never({"outage", "lost", "renamed"})
    BY <1>2 DEF IInv, Kept, Never
  <2> QED
    BY <1>2, <2>1 DEF PeersCached, Backed, Busy
<1>3. key = "revoked" /\ ~revoking /\ Never({"outage", "retyped"}) => ~peerKey
  BY DEF IInv, KeyDropped
<1> QED
  BY <1>1, <1>2, <1>3 DEF CachesFollow

\* webhooks.py:55, tenant_cache.py:87, usage.py:38: shadow rows follow WorkOS,
\* caches follow the rows, and no report since the last reset is lost, for any
\* number of workers, slugs, events and faults, each as long as none of the
\* irregularities it names has happened.
THEOREM ControlPlaneConsistentHolds == Spec => []ControlPlaneConsistent
<1>1. IInv => ControlPlaneConsistent
  BY ShadowFollowsIInv, CachesFollowIInv DEF ControlPlaneConsistent, IInv, Locked
<1> QED
  BY <1>1, ControlPlaneInvariant, PTL

\* A delete takes the row its handler found, by the id of a membership that has
\* ended.
LEMMA RemovesIInv ==
    ASSUME IInv, [Next]_vars, NEW r \in Rows, member[r] # NoMember, member'[r] = NoMember,
           Never({"overlap", "edited"})'
    PROVE  truth.member.id # member[r].id
<1>0. [System]_vars
  <2>1. ~ByHand
    BY ByHandSeen DEF Never
  <2> QED
    BY <2>1 DEF Next
<1>calm. Never({"overlap", "edited"})
  BY IrregularGrows DEF Never
<1>1. PICK m, top : Numbered(m, top)
  BY <1>calm DEF IInv, Kept, Telling, Told, Never
<1>2. Typed /\ Stands /\ Alone
  BY <1>calm DEF IInv, Kept, UnlessOverlap, Never
<1>3. PICK w \in Workers : MemberSave(w) \/ MemberDelete(w)
  <2>1. ASSUME NEW w \in Workers, Step(w) \/ Crash(w)
        PROVE  MemberSave(w) \/ MemberDelete(w) \/ member' = member
    BY <2>1 DEF Step, UserEvent, OrgRead, OrgCreate, SetSlug, MemberRead, MemberFind, Evict,
                AccumulateRead, Accumulate, Crash, rowVars
  <2>2. ASSUME NEW e \in events, LoseEvent(e) \/ \E w \in Workers : Take(w, e)
        PROVE  member' = member
    BY <2>2 DEF LoseEvent, Take, rowVars
  <2>3. CASE UserChange \/ OrgChange \/ MemberChange \/ PeerLoad \/ Expire
    BY <2>3 DEF UserChange, OrgChange, MemberChange, Change, PeerLoad, Expire, rowVars
  <2>4. CASE Mint \/ Revoke \/ Publish \/ FormOpen \/ FormSave \/ Counted
    BY <2>4 DEF Mint, Revoke, Publish, FormOpen, FormSave, KeyStep, Counted, ResetUsage,
                EditUsage, Counting, rowVars
  <2>5. CASE UNCHANGED vars
    BY <2>5 DEF vars, rowVars
  <2> QED
    BY <1>0, <2>1, <2>2, <2>3, <2>4, <2>5 DEF System, Counted
<1> DEFINE e == loc[w].event
<1>4. /\ e \in MemberEvents /\ e \in Known /\ loc[w].row \in Rows
      /\ pc[w] = "memberdelete" => ~e.up /\ member[loc[w].row].id = e.member.id
  BY <1>2, <1>3, HandledKnown DEF MemberSave, MemberDelete, Stands, WorkerStands, Bound, Alone, Handling
<1>5. e.kind = "member" /\ e.member.id \in Nat \ {0}
  BY <1>4 DEF MemberEvents, Numbers
<1>6. loc[w].row = r
  BY <1>2, <1>3 DEF MemberSave, MemberDelete, Typed
<1>7. ~MemberSave(w)
  <2>1. Stored(e.member).id = e.member.id
    BY <1>4, StoredFacts DEF MemberEvents, Memberships
  <2> QED
    BY <1>2, <1>5, <1>6, <2>1 DEF MemberSave, Typed, NoMember
<1>8. ~e.up /\ member[r].id = e.member.id
  BY <1>3, <1>4, <1>6, <1>7 DEF MemberDelete
<1>9. CASE truth.member = NoMember
  BY <1>5, <1>8, <1>9 DEF NoMember
<1>10. CASE truth.member # NoMember
  BY <1>1, <1>4, <1>5, <1>8, <1>10 DEF Numbered, MemberNumbered, Latest
<1> QED
  BY <1>9, <1>10

\* webhooks.py:112: a deletion removes its own membership, unless handlers
\* overlap or rows have been edited by hand.
THEOREM RemovesItsOwnHolds == Spec => RemovesItsOwn
<1>1. IInv /\ [Next]_vars =>
         [\A r \in Rows : member[r] # NoMember /\ member'[r] = NoMember =>
              truth.member.id # member[r].id \/ ~Never({"overlap", "edited"})']_vars
  BY RemovesIInv
<1> QED
  BY <1>1, ControlPlaneInvariant, PTL DEF Spec, RemovesItsOwn
=============================================================================
