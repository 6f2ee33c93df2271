---------------------------- MODULE ControlPlane ----------------------------
(***************************************************************************)
(* Identity, tenancy, machine keys and usage: apps/{identity,tenancy,keys, *)
(* billing}.                                                               *)
(*                                                                         *)
(* WorkOS owns users, organizations and memberships and sends an event per *)
(* change; POST /webhooks/workos keeps shadow rows.  Events carry no       *)
(* version, and are late, repeated or handled by two web workers at once   *)
(* as they come.  Two caches follow the rows: the slug of an organization, *)
(* in Valkey with a process-memory fallback, and what the Rust peers have  *)
(* read (memberships and keys), which Django tells them to drop.  An       *)
(* operator edits the same rows on the admin site, and nobody is told.     *)
(* One organization, one user, one key and one meter are enough to tell    *)
(* the behaviours apart.                                                   *)
(***************************************************************************)
EXTENDS Integers, FiniteSets

CONSTANTS
    Workers,    \* web workers and stream consumers
    Slugs,      \* slugs an organization may have
    NoSlug,
    Taken,      \* slug of a tenant an operator has made by hand
    Scenarios   \* bounds: [events, keys, reports, workers, peers, faults]

ASSUME SlugAssumption == NoSlug \notin Slugs

VARIABLES
    bound,       \* the scenario
    truth,       \* WorkOS: the user, the organization's slug, the membership
    events, sent,\* WorkOS: events in flight, and how many were sent
    user,        \* control_user: "none", "active", "inactive"
    tenant,      \* control_tenant: slug of each row, whether org-bound, active
    member,      \* control_membership: the user's row in each tenant
    valkey, memory, \* the org cache: Valkey, and the process's own dict
    peers,       \* Rust peers: memberships held, by slug and role
    key, form, peerKey, revoking, \* the key; an open change form; peers hold it
    counter,     \* control_usage.counters[meter]
    pc, loc,     \* one worker: position and locals
    last,        \* history: number of the last event taken, by kind
    applied,     \* history: reports committed since the counters were reset
    irregular,   \* history: what went out of the ordinary
    faults

truthVars == <<truth, sent>>
rowVars == <<user, tenant, member>>
cacheVars == <<valkey, memory, peers>>
keyVars == <<key, form, peerKey, revoking>>
execVars == <<pc, loc>>
vars == <<bound, truthVars, events, rowVars, cacheVars, keyVars, counter,
          execVars, last, applied, irregular, faults>>

Rows == {1, 2}
Kinds == {"user", "org", "member"}
Roles == {"viewer", "guest"}               \* slugs of roles in WorkOS
Stored(m) == [m EXCEPT !.role = IF @ = "viewer" THEN @ ELSE "member"]
NoMember == [id |-> 0, role |-> "member"]
NoTenant == [slug |-> NoSlug, org |-> FALSE, active |-> FALSE]
NoEvent == [n |-> 0, kind |-> "none", up |-> FALSE, slug |-> NoSlug, member |-> NoMember]
Idle == [event |-> NoEvent, row |-> 0, slug |-> NoSlug, count |-> 0]
Oddities == {"late", "early", "overlap", "lost", "outage", "renamed",
             "edited", "retyped", "recounted"}    \* the last three by hand

Init ==
    /\ bound \in Scenarios
    /\ truth = [user |-> "none", slug |-> NoSlug, member |-> NoMember]
    /\ events = {} /\ sent = 0
    /\ user = "none"
    /\ tenant \in {[r \in Rows |-> NoTenant],
                   [r \in Rows |-> IF r = 1
                                   THEN [slug |-> Taken, org |-> FALSE, active |-> TRUE]
                                   ELSE NoTenant]}
    /\ member = [r \in Rows |-> NoMember]
    /\ valkey = NoSlug /\ memory = NoSlug /\ peers = {}
    /\ key = "none" /\ form = "closed" /\ peerKey = FALSE /\ revoking = FALSE
    /\ counter = 0 /\ applied = 0
    /\ pc = [w \in Workers |-> "idle"] /\ loc = [w \in Workers |-> Idle]
    /\ last = [k \in Kinds |-> 0]
    /\ irregular = {} /\ faults = 0

(***************************************************************************)
(* Helpers                                                                 *)
(***************************************************************************)
Busy(w) == pc[w] # "idle"
Fault(what) ==
    /\ faults < bound.faults /\ faults' = faults + 1
    /\ irregular' = irregular \cup {what}
Ordinary == UNCHANGED <<irregular, faults>>
Goto(w, label, locals) ==
    /\ pc' = [pc EXCEPT ![w] = label] /\ loc' = [loc EXCEPT ![w] = locals]
Done(w) == Goto(w, "idle", Idle)
Bound == {r \in Rows : tenant[r].org}            \* rows of the organization
Holder(slug) == {r \in Rows : tenant[r].slug = slug}
Free == {r \in Rows : tenant[r] = NoTenant /\ \A q \in Rows : q < r => tenant[q] # NoTenant}

(***************************************************************************)
(* WorkOS                                                                  *)
(***************************************************************************)
About(kind, up, slug, mem) ==
    [n |-> sent + 1, kind |-> kind, up |-> up, slug |-> slug, member |-> mem]
Change(now, event) ==
    /\ sent < bound.events
    /\ sent' = sent + 1
    /\ truth' = now
    /\ events' = events \cup {event}
    /\ UNCHANGED <<bound, rowVars, cacheVars, keyVars, counter, execVars, last,
                   applied, irregular, faults>>

UserChange ==
    \/ /\ truth.user # "deleted"
       /\ Change([truth EXCEPT !.user = "active"], About("user", TRUE, NoSlug, NoMember))
    \/ /\ truth.user = "active" /\ truth.member = NoMember
       /\ Change([truth EXCEPT !.user = "deleted"], About("user", FALSE, NoSlug, NoMember))

OrgChange ==
    \E slug \in Slugs :
        /\ slug # truth.slug
        /\ Change([truth EXCEPT !.slug = slug], About("org", TRUE, slug, NoMember))

MemberChange ==
    \/ \E role \in Roles :
          LET id == IF truth.member = NoMember THEN sent + 1 ELSE truth.member.id
              now == [id |-> id, role |-> role] IN
          /\ truth.user = "active" /\ truth.slug # NoSlug
          /\ Change([truth EXCEPT !.member = now],
                    About("member", TRUE, NoSlug, now))
    \/ /\ truth.member # NoMember
       /\ Change([truth EXCEPT !.member = NoMember],
                 About("member", FALSE, NoSlug, truth.member))

\* WorkOS gives up on an event the service has not answered with 200.
LoseEvent(e) ==
    /\ events' = events \ {e} /\ Fault("lost")
    /\ UNCHANGED <<bound, truthVars, rowVars, cacheVars, keyVars, counter,
                   execVars, last, applied>>

(***************************************************************************)
(* The webhook: _apply_event                                               *)
(***************************************************************************)
\* A worker takes up an event; WorkOS may send it once more.
Take(w, e) ==
    /\ ~Busy(w) /\ Cardinality({v \in Workers : Busy(v)}) < bound.workers
    /\ Goto(w, IF e.kind = "member" /\ ~e.up THEN "memberfind" ELSE e.kind,
            [Idle EXCEPT !.event = e])
    /\ last' = [last EXCEPT ![e.kind] = IF @ > e.n THEN @ ELSE e.n]
    /\ LET odd == {what \in Oddities :
                     \/ what = "late" /\ e.up /\ e.n < last[e.kind]
                     \/ what = "early" /\ e.kind = "member" /\ e.up /\ Bound = {}
                     \/ what = "overlap" /\ \E v \in Workers : Busy(v)} IN
       \/ /\ events' = events \ {e}
          /\ irregular' = irregular \cup odd /\ UNCHANGED faults
       \/ /\ faults < bound.faults /\ faults' = faults + 1
          /\ irregular' = irregular \cup odd /\ UNCHANGED events
    /\ UNCHANGED <<bound, truthVars, rowVars, cacheVars, keyVars, counter, applied>>

UserEvent(w) ==
    /\ pc[w] = "user"
    /\ user' = IF loc[w].event.up THEN "active"
               ELSE IF user = "none" THEN "none" ELSE "inactive"
    /\ Done(w)
    /\ UNCHANGED <<bound, truthVars, events, tenant, member, cacheVars, keyVars,
                   counter, last, applied, irregular, faults>>

\* update_or_create of the tenant: an existing row is locked and saved, none
\* is created in a second statement.  A slug held by another tenant, and two
\* rows of one organization, raise: the event is answered with 500.
Refused(w) ==
    /\ events' = events \cup {loc[w].event} /\ Done(w)
    /\ UNCHANGED <<tenant, irregular>>
Renames(r, slug) ==
    IF tenant[r].slug = slug THEN irregular ELSE irregular \cup {"renamed"}
SaveOrg(w, r) ==
    /\ tenant' = [tenant EXCEPT ![r] =
                    [slug |-> loc[w].event.slug, org |-> TRUE, active |-> TRUE]]
    /\ irregular' = IF r \in Bound THEN Renames(r, loc[w].event.slug) ELSE irregular
    /\ Goto(w, "orgcache", [loc[w] EXCEPT !.row = r])
    /\ UNCHANGED events

OrgRead(w) ==
    /\ pc[w] = "org"
    /\ \/ /\ Bound = {} /\ Goto(w, "orgcreate", loc[w])
          /\ UNCHANGED <<events, tenant, irregular>>
       \/ \E r \in Bound :
             IF Bound = {r} /\ Holder(loc[w].event.slug) \subseteq {r}
             THEN SaveOrg(w, r) ELSE Refused(w)
    /\ UNCHANGED <<bound, truthVars, user, member, cacheVars, keyVars, counter,
                   last, applied, faults>>

\* The create; a slug that is taken makes get_or_create look once more.
OrgCreate(w) ==
    /\ pc[w] = "orgcreate"
    /\ LET slug == loc[w].event.slug IN
       \/ /\ Holder(slug) = {} /\ Free # {}
          /\ \E r \in Free : SaveOrg(w, r)
       \/ /\ Holder(slug) # {}
          /\ IF Cardinality(Bound) = 1 /\ Holder(slug) = Bound
             THEN \E r \in Bound : SaveOrg(w, r) ELSE Refused(w)
    /\ UNCHANGED <<bound, truthVars, user, member, cacheVars, keyVars, counter,
                   last, applied, faults>>

\* Mutant of SetSlug: a slug in the cache is kept.
SetSlugOnce(w) ==
    /\ pc[w] = "orgcache"
    /\ valkey' = IF valkey = NoSlug THEN loc[w].event.slug ELSE valkey
    /\ Done(w)
    /\ UNCHANGED <<bound, truthVars, events, rowVars, memory, peers, keyVars,
                   counter, last, applied, irregular, faults>>

\* set_tenant_slug_for_org.
SetSlug(w) ==
    /\ pc[w] = "orgcache"
    /\ \/ valkey' = loc[w].event.slug /\ UNCHANGED memory /\ Ordinary
       \/ memory' = loc[w].event.slug /\ UNCHANGED valkey /\ Fault("outage")
    /\ Done(w)
    /\ UNCHANGED <<bound, truthVars, events, rowVars, peers, keyVars, counter,
                   last, applied>>

\* Membership created or updated: the tenant is looked up, the user's row made
\* if there is none, and without a tenant the event is dropped.
MemberRead(w) ==
    /\ pc[w] = "member"
    /\ user' = IF user = "none" THEN "active" ELSE user
    /\ \/ Bound = {} /\ Done(w)
       \/ \E r \in Bound :
             Goto(w, "membersave", [loc[w] EXCEPT !.row = r, !.slug = tenant[r].slug])
    /\ UNCHANGED <<bound, truthVars, events, tenant, member, cacheVars, keyVars,
                   counter, last, applied, irregular, faults>>

MemberSave(w) ==
    /\ pc[w] = "membersave"
    /\ member' = [member EXCEPT ![loc[w].row] = Stored(loc[w].event.member)]
    /\ Goto(w, "evict", loc[w])
    /\ UNCHANGED <<bound, truthVars, events, user, tenant, cacheVars, keyVars,
                   counter, last, applied, irregular, faults>>

\* Mutant of MemberFind: the row of the tenant and user, whatever its id.
MemberFindAny(w) ==
    /\ pc[w] = "memberfind"
    /\ \E r \in Bound :
          Goto(w, IF member[r] # NoMember THEN "memberdelete" ELSE "evict",
               [loc[w] EXCEPT !.row = r, !.slug = tenant[r].slug])
    /\ UNCHANGED <<bound, truthVars, events, rowVars, cacheVars, keyVars, counter,
                   last, applied, irregular, faults>>

\* Membership deleted: the row with that WorkOS id; without one the peers are
\* told all the same.
MemberFind(w) ==
    /\ pc[w] = "memberfind"
    /\ LET own == {r \in Rows : member[r].id = loc[w].event.member.id} IN
       \/ \E r \in own :
             Goto(w, "memberdelete", [loc[w] EXCEPT !.row = r, !.slug = tenant[r].slug])
       \/ own = {} /\ \E r \in Bound :
             Goto(w, "evict", [loc[w] EXCEPT !.slug = tenant[r].slug])
       \/ own = {} /\ Bound = {} /\ Done(w)
    /\ UNCHANGED <<bound, truthVars, events, rowVars, cacheVars, keyVars, counter,
                   last, applied, irregular, faults>>

\* The row that was found is deleted, by its primary key.
MemberDelete(w) ==
    /\ pc[w] = "memberdelete"
    /\ member' = [member EXCEPT ![loc[w].row] = NoMember]
    /\ Goto(w, "evict", loc[w])
    /\ UNCHANGED <<bound, truthVars, events, user, tenant, cacheVars, keyVars,
                   counter, last, applied, irregular, faults>>

\* invalidate_membership: the peers drop what they hold under the slug the
\* tenant had when it was read; a call that fails is logged and forgotten.
Evict(w) ==
    /\ pc[w] = "evict"
    /\ \/ peers' = {held \in peers : held[1] # loc[w].slug} /\ Ordinary
       \/ UNCHANGED peers /\ Fault("outage")
    /\ Done(w)
    /\ UNCHANGED <<bound, truthVars, events, rowVars, valkey, memory, keyVars,
                   counter, last, applied>>

(***************************************************************************)
(* Peers: they read a row and keep it until told, or until it expires      *)
(***************************************************************************)
PeerLoad ==
    /\ bound.peers
    /\ \/ /\ \E r \in Rows :
                /\ member[r] # NoMember
                /\ peers' = peers \cup {<<tenant[r].slug, member[r].role>>}
          /\ UNCHANGED peerKey
       \/ key = "active" /\ peerKey' = TRUE /\ UNCHANGED peers
    /\ UNCHANGED <<bound, truthVars, events, rowVars, valkey, memory, key, form,
                   revoking, counter, execVars, last, applied, irregular, faults>>

Expire ==
    /\ \/ valkey # NoSlug /\ valkey' = NoSlug /\ UNCHANGED <<peers, peerKey>>
       \/ \E held \in peers : peers' = peers \ {held} /\ UNCHANGED <<valkey, peerKey>>
       \/ peerKey /\ peerKey' = FALSE /\ UNCHANGED <<valkey, peers>>
    /\ UNCHANGED <<bound, truthVars, events, rowVars, memory, key, form, revoking,
                   counter, execVars, last, applied, irregular, faults>>

(***************************************************************************)
(* Machine keys                                                            *)
(***************************************************************************)
KeyStep ==
    /\ bound.keys
    /\ UNCHANGED <<bound, truthVars, events, rowVars, cacheVars, counter,
                   execVars, last, applied>>

Mint ==
    /\ key = "none" /\ key' = "active"
    /\ KeyStep /\ Ordinary /\ UNCHANGED <<form, peerKey, revoking>>

\* revoke_key: the row is saved, then the peers are told, and may not hear it.
Revoke ==
    /\ key = "active" /\ ~revoking
    /\ key' = "revoked" /\ revoking' = TRUE
    /\ KeyStep /\ Ordinary /\ UNCHANGED <<form, peerKey>>

\* Mutant of Publish: the message is sent on a channel nobody reads.
PublishNowhere ==
    /\ revoking /\ revoking' = FALSE
    /\ KeyStep /\ Ordinary /\ UNCHANGED <<key, form, peerKey>>

Publish ==
    /\ revoking /\ revoking' = FALSE
    /\ \/ peerKey' = FALSE /\ Ordinary
       \/ UNCHANGED peerKey /\ Fault("outage")
    /\ KeyStep /\ UNCHANGED <<key, form>>

\* The change form of the admin site saves every field as it was shown, or as
\* it was retyped: revoked_at is one of them.  Nothing is published.
FormOpen ==
    /\ key # "none" /\ form = "closed" /\ form' = key
    /\ KeyStep /\ Ordinary /\ UNCHANGED <<key, peerKey, revoking>>

FormSave ==
    /\ form # "closed" /\ form' = "closed"
    /\ \/ key' = form /\ Ordinary
       \/ key' \in {"active", "revoked"} \ {form} /\ Fault("retyped")
    /\ KeyStep /\ UNCHANGED <<peerKey, revoking>>

(***************************************************************************)
(* Usage                                                                   *)
(***************************************************************************)
CountersFree == \A v \in Workers : pc[v] # "accumulate"   \* the row is not locked

\* Mutant of AccumulateRead: the tenant is read without select_for_update.
AccumulateUnlocked(w) ==
    /\ ~Busy(w) /\ applied + Cardinality({v \in Workers : Busy(v)}) < bound.reports
    /\ Goto(w, "accumulate", [Idle EXCEPT !.count = counter])
    /\ UNCHANGED <<bound, truthVars, events, rowVars, cacheVars, keyVars, counter,
                   last, applied, irregular, faults>>

\* accumulate: the tenant's row is locked first, so the counters that are read
\* are those that are written.
AccumulateRead(w) ==
    /\ ~Busy(w) /\ applied + Cardinality({v \in Workers : Busy(v)}) < bound.reports
    /\ CountersFree
    /\ Goto(w, "accumulate", [Idle EXCEPT !.count = counter])
    /\ UNCHANGED <<bound, truthVars, events, rowVars, cacheVars, keyVars, counter,
                   last, applied, irregular, faults>>

Accumulate(w) ==
    /\ pc[w] = "accumulate"
    /\ counter' = loc[w].count + 1 /\ applied' = applied + 1
    /\ Done(w)
    /\ UNCHANGED <<bound, truthVars, events, rowVars, cacheVars, keyVars, last,
                   irregular, faults>>

\* The admin's "Reset usage counters" and the change form of a usage row wait
\* for an accumulate that holds the row.  The form saves what it showed or what
\* was typed.
Counting ==
    /\ CountersFree
    /\ UNCHANGED <<bound, truthVars, events, rowVars, cacheVars, keyVars,
                   execVars, last>>

ResetUsage ==
    /\ counter > 0 /\ Ordinary
    /\ counter' = 0 /\ applied' = 0
    /\ Counting

EditUsage ==
    /\ \E shown \in 0 .. applied : counter' = shown
    /\ Fault("recounted") /\ UNCHANGED applied
    /\ Counting

(***************************************************************************)
(* The admin site's forms for users, tenants and memberships: plain saves, *)
(* after which no cache is told                                            *)
(***************************************************************************)
Edit ==
    /\ Fault("edited")
    /\ UNCHANGED <<bound, truthVars, events, cacheVars, keyVars, counter, execVars,
                   last, applied>>

EditUser ==
    /\ user' \in {"active", "inactive"}
    /\ Edit /\ UNCHANGED <<tenant, member>>

\* A slug is unique; is_active and workos_organization_id may be anything.
EditTenant ==
    /\ \E r \in Rows, slug \in Slugs \cup {Taken}, org, active \in BOOLEAN :
          /\ r \in Free \/ tenant[r] # NoTenant
          /\ Holder(slug) \subseteq {r}
          /\ tenant' = [tenant EXCEPT ![r] = [slug |-> slug, org |-> org, active |-> active]]
    /\ Edit /\ UNCHANGED <<user, member>>

EditMember ==
    /\ user # "none"
    /\ \E r \in Rows :
          /\ tenant[r] # NoTenant
          /\ \/ \E id \in 1 .. sent + 1, role \in Roles :
                   member' = [member EXCEPT ![r] = Stored([id |-> id, role |-> role])]
             \/ member' = [member EXCEPT ![r] = NoMember]
    /\ Edit /\ UNCHANGED <<user, tenant>>

\* A worker dies; its open transaction is rolled back.
Crash(w) ==
    /\ Busy(w) /\ Done(w) /\ Fault("lost")
    /\ UNCHANGED <<bound, truthVars, events, rowVars, cacheVars, keyVars, counter,
                   last, applied>>

Step(w) ==
    \/ UserEvent(w) \/ OrgRead(w) \/ OrgCreate(w) \/ SetSlug(w)
    \/ MemberRead(w) \/ MemberSave(w) \/ MemberFind(w) \/ MemberDelete(w)
    \/ Evict(w) \/ AccumulateRead(w) \/ Accumulate(w)

System ==
    \/ UserChange \/ OrgChange \/ MemberChange
    \/ \E e \in events : LoseEvent(e) \/ \E w \in Workers : Take(w, e)
    \/ \E w \in Workers : Step(w) \/ Crash(w)
    \/ PeerLoad \/ Expire
    \/ Mint \/ Revoke \/ Publish \/ FormOpen \/ FormSave
    \/ ResetUsage \/ EditUsage

ByHand == EditUser \/ EditTenant \/ EditMember

Next == System \/ ByHand

Spec == Init /\ [][Next]_vars

(***************************************************************************)
(* Properties                                                              *)
(***************************************************************************)
Quiet == events = {} /\ \A w \in Workers : ~Busy(w)
Never(oddities) == irregular \cap oddities = {}

\* webhooks.py:55: once every event has been handled, the shadow rows say what
\* WorkOS says.  Repeated events and late deletions do no harm: a membership is
\* deleted by its own WorkOS id, and an upsert sets every field.  A late
\* upsert, a membership ahead of its organization, two handlers at once, an
\* event given up on and a row edited by hand are what the code does not make
\* good.
ShadowFollows ==
    Quiet /\ Never({"late", "early", "overlap", "lost", "edited"}) =>
        /\ user = CASE truth.user = "none" -> "none"
                    [] truth.user = "active" -> "active"
                    [] truth.user = "deleted" -> "inactive"
        /\ truth.slug = NoSlug => Bound = {}
        /\ truth.slug # NoSlug => \E r \in Rows :
              /\ Bound = {r} /\ tenant[r].slug = truth.slug /\ tenant[r].active
              /\ member[r] = Stored(truth.member)

\* tenant_cache.py:87, 105, valkey_publish.py:55: what a cache holds is what
\* the rows say, unless a call to Valkey failed, and, for the slug, two
\* handlers overlapped.  A membership is evicted under the slug of the time:
\* after a rename the entry under the old slug waits for its expiry.  So do
\* the entries of a row, or of a key, that is edited on a form of the admin
\* site: identity/admin.py:41, tenancy/admin.py:6 and keys/admin.py:53 publish
\* nothing.
CachesFollow ==
    /\ (\A w \in Workers : ~Busy(w)) /\ Never({"outage", "overlap", "lost", "edited"}) =>
         valkey = NoSlug \/ \E r \in Bound : tenant[r].slug = valkey
    /\ (\A w \in Workers : ~Busy(w)) /\ Never({"outage", "lost", "renamed", "edited"}) =>
         \A held \in peers : \E r \in Rows :
             <<tenant[r].slug, member[r].role>> = held /\ member[r] # NoMember
    /\ key = "revoked" /\ ~revoking /\ Never({"outage", "retyped"}) => ~peerKey

\* usage.py:38: no report committed since the last reset of the counters is
\* lost, unless an operator has saved the row's form over them.
UsageExact == Never({"recounted"}) => counter = applied

\* The three together.
ControlPlaneConsistent == ShadowFollows /\ CachesFollow /\ UsageExact

\* webhooks.py:112: a deletion takes away a row whose membership WorkOS has
\* ended, and not the one that came after it, unless two handlers overlap
\* between the lookup and the delete, or rows have been edited by hand.
RemovesItsOwn ==
    [][\A r \in Rows : member[r] # NoMember /\ member'[r] = NoMember =>
          truth.member.id # member[r].id \/ ~Never({"overlap", "edited"})']_vars
=============================================================================
