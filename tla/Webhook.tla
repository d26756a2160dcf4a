---- MODULE Webhook ----
(***************************************************************************)
(* POST /api/v1/webhooks/stripe: Stripe delivers the events of a history   *)
(* at least once, in any order, also while an earlier delivery of the same *)
(* event is still being handled.  A delivery runs                          *)
(*                                                                         *)
(*   is_processed -> read of the handler -> write of the handler           *)
(*     -> mark_processed (which commits) -> answer                         *)
(*                                                                         *)
(* on one session, against the subscriptions, tenants and                  *)
(* processed_stripe_events tables (PostgreSQL, READ COMMITTED).            *)
(* The signature check comes before all of this and leaves no state.       *)
(***************************************************************************)
EXTENDS StripeData

CONSTANTS
    Workers,      \* bound: deliveries handled at once
    Ordered,      \* histories whose events Stripe delivers one after the other,
                  \* each when the one before is acknowledged
    MaxFailures,  \* bound: statements, commits and processes that fail
    NoWrite

Write == [insert : BOOLEAN, tenant : Tenants, sid : Sids,
          create : Tenants \cup {NoTenant}, status : Statuses \cup {Keep}, plan : Tiers \cup {Keep}]

ASSUME DeliveryAssumption ==
    /\ Ordered \subseteq Histories
    /\ MaxFailures \in Nat
    /\ NoWrite \notin Write

\* Delivered in order, the events of a subscription begin with its checkout or its
\* creation, and a checkout names a tenant that exists, or none.
ASSUME OrderAssumption ==
    \A h \in Ordered : \A e \in 1 .. Len(h) :
        /\ h[e].kind \notin {"checkout", "created", "other"} =>
               \E f \in 1 .. e - 1 : h[f].sid = h[e].sid /\ h[f].kind \in {"checkout", "created"}
        /\ h[e].kind = "checkout" => h[e].tenant \in InitialTenants \cup {NoTenant}

VARIABLES
    history,    \* the events of Stripe in this scenario
    pc,         \* pc[d]: next step of worker d
    ev,         \* ev[d]: the event d handles
    found,      \* found[d]: tenant whose row get_by_stripe_id returned
    seen,       \* seen[d]: that row as it was read
    write,      \* write[d]: uncommitted write of d
    rows,       \* committed subscriptions, by tenant (tenant_id is unique)
    tenants,    \* committed tenants
    processed,  \* processed[e]: committed processed_stripe_events rows of e
    emitted,    \* events Stripe has emitted
    acked,      \* events a delivery of which was answered 200
    rejected,   \* events a delivery of which was answered 500
    failures

vars == <<history, pc, ev, found, seen, write, rows, tenants, processed, emitted,
          acked, rejected, failures>>
tables == <<rows, tenants, processed>>
stripe == <<history, emitted, acked, rejected>>

E(d) == history[ev[d]]
Busy == {d \in Workers : pc[d] # "idle"}

Init ==
    /\ history \in Histories
    /\ pc = [d \in Workers |-> "idle"]
    /\ ev = [d \in Workers |-> 0]
    /\ found = [d \in Workers |-> NoTenant]
    /\ seen = [d \in Workers |-> NoRow]
    /\ write = [d \in Workers |-> NoWrite]
    /\ rows = InitialRows
    /\ tenants = InitialTenants
    /\ processed = [e \in Events |-> 0]
    /\ emitted = 0
    /\ acked = {}
    /\ rejected = {}
    /\ failures = 0

----
Goto(d, step) == pc' = [pc EXCEPT ![d] = step]

\* The worker is free again; an uncommitted write is rolled back.
Release(d) ==
    /\ pc' = [pc EXCEPT ![d] = "idle"]
    /\ ev' = [ev EXCEPT ![d] = 0]
    /\ found' = [found EXCEPT ![d] = NoTenant]
    /\ seen' = [seen EXCEPT ![d] = NoRow]
    /\ write' = [write EXCEPT ![d] = NoWrite]

\* An exception: 500, and get_db rolls back.
Raise(d) ==
    /\ Release(d)
    /\ rejected' = rejected \cup {ev[d]}
    /\ UNCHANGED <<history, tables, emitted, acked, failures>>

\* The answer is 200, Stripe stops delivering the event.
Answer200(d) ==
    /\ Release(d)
    /\ acked' = acked \cup {ev[d]}
    /\ UNCHANGED <<history, tables, emitted, rejected, failures>>

\* Stripe's side.
Emit ==
    /\ emitted < Len(history)
    /\ emitted' = emitted + 1
    /\ UNCHANGED <<history, pc, ev, found, seen, write, tables, acked, rejected, failures>>

Deliver(d, e) ==
    /\ pc[d] = "idle"
    /\ e <= emitted
    /\ history \in Ordered => e \notin acked /\ \A f \in 1 .. e - 1 : f \in acked
    /\ Goto(d, "dedup")
    /\ ev' = [ev EXCEPT ![d] = e]
    /\ UNCHANGED <<found, seen, write, tables, stripe, failures>>

\* Mutant: the marker is written but never looked up.
is_processed_Never(d) ==
    /\ pc[d] = "dedup"
    /\ Goto(d, "read")
    /\ UNCHANGED <<ev, found, seen, write, tables, stripe, failures>>

\* Mutant: a duplicate is answered with an error.
is_processed_Raises(d) ==
    /\ pc[d] = "dedup"
    /\ \/ processed[ev[d]] > 0 /\ Raise(d)
       \/ /\ processed[ev[d]] = 0
          /\ Goto(d, "read")
          /\ UNCHANGED <<ev, found, seen, write, tables, stripe, failures>>

\* scalar_one_or_none raises when it meets two rows, outside the try block.
is_processed(d) ==
    /\ pc[d] = "dedup"
    /\ \/ processed[ev[d]] > 1 /\ Raise(d)
       \/ processed[ev[d]] = 1 /\ Answer200(d)
       \/ /\ processed[ev[d]] = 0
          /\ Goto(d, "read")
          /\ UNCHANGED <<ev, found, seen, write, tables, stripe, failures>>

\* Mutant: the lookup has lost its WHERE clause.
get_by_stripe_id_AnyRow(sid) ==
    IF \E t \in Tenants : rows[t] # NoRow THEN CHOOSE t \in Tenants : rows[t] # NoRow
    ELSE NoTenant

\* The tenant whose row carries a Stripe subscription id.
get_by_stripe_id(sid) ==
    IF \E t \in Tenants : rows[t] # NoRow /\ rows[t].sid = sid
    THEN CHOOSE t \in Tenants : rows[t] # NoRow /\ rows[t].sid = sid
    ELSE NoTenant

\* The first part of the handler, up to its last read. Nothing is left to write
\* when the row is unknown to an event that only updates one, when a checkout
\* names a tenant that does not exist, and for events without a handler.
Read(d) ==
    LET t == get_by_stripe_id(E(d).sid)
        nothing == \/ E(d).kind = "other"
                   \/ /\ E(d).kind \in {"payment_succeeded", "payment_failed", "updated", "deleted"}
                      /\ t = NoTenant
                   \/ /\ E(d).kind = "checkout"
                      /\ E(d).tenant # NoTenant /\ E(d).tenant \notin tenants
    IN  /\ pc[d] = "read"
        /\ Goto(d, IF nothing THEN "mark" ELSE "write")
        /\ found' = [found EXCEPT ![d] = t]
        /\ seen' = [seen EXCEPT ![d] = IF t = NoTenant THEN NoRow ELSE rows[t]]
        /\ UNCHANGED <<ev, write, tables, stripe, failures>>

----
\* What the handlers set.

\* The session writes the columns whose value differs from what it has read.
Changed(new, old) == IF new = old THEN Keep ELSE new

\* Mutant: customer.subscription.updated leaves the plan alone.
Update_StatusOnly(d) ==
    [insert |-> FALSE, tenant |-> found[d], sid |-> E(d).sid, create |-> NoTenant,
     status |-> Changed(NewStatus(E(d)), seen[d].status), plan |-> Keep]

Update(d) ==
    [insert |-> FALSE, tenant |-> found[d], sid |-> E(d).sid, create |-> NoTenant,
     status |-> Changed(NewStatus(E(d)), seen[d].status),
     plan |-> IF E(d).kind = "updated" THEN Changed(NewPlan(E(d)), seen[d].plan) ELSE Keep]

Insert(d) ==
    [insert |-> TRUE, tenant |-> Owner(E(d)), sid |-> E(d).sid,
     create |-> IF E(d).kind = "checkout" /\ E(d).tenant = NoTenant
                THEN E(d).customer ELSE NoTenant,
     status |-> NewStatus(E(d)), plan |-> NewPlan(E(d))]

\* No other transaction has an uncommitted write of the same row, subscription
\* id or tenant: a statement that meets one waits for the transaction to end.
Unlocked(d, w) ==
    \A o \in Workers \ {d} : write[o] # NoWrite =>
        /\ write[o].tenant # w.tenant /\ write[o].sid # w.sid
        /\ write[o].create # NoTenant => write[o].create # w.create

Wrote(d, w) ==
    /\ write' = [write EXCEPT ![d] = w]
    /\ Goto(d, "mark")
    /\ UNCHANGED <<ev, found, seen, tables, stripe, failures>>

\* Mutant: the status is stored as Stripe spells it, without the enumeration.
UpdateRow_RawStatus(d) ==
    /\ pc[d] = "write"
    /\ E(d).kind # "checkout" /\ found[d] # NoTenant
    /\ LET w == Update(d)
       IN  \/ w.status = Keep /\ w.plan = Keep /\ Wrote(d, NoWrite)
           \/ (w.status # Keep \/ w.plan # Keep) /\ Unlocked(d, w) /\ Wrote(d, w)

\* An UPDATE of the row the handler has read. Unchanged columns are left out,
\* and the whole statement when there are none.
UpdateRow(d) ==
    /\ pc[d] = "write"
    /\ E(d).kind # "checkout" /\ found[d] # NoTenant
    /\ \/ NewStatus(E(d)) = "unknown" /\ Raise(d)
       \/ /\ NewStatus(E(d)) # "unknown"
          /\ LET w == Update(d)
             IN  \/ w.status = Keep /\ w.plan = Keep /\ Wrote(d, NoWrite)
                 \/ (w.status # Keep \/ w.plan # Keep) /\ Unlocked(d, w) /\ Wrote(d, w)

\* Mutant: the upsert commits, before the event is marked.
upsert_from_stripe_Commits(d) ==
    LET w == Insert(d)
    IN  /\ pc[d] = "write"
        /\ E(d).kind = "checkout"
        /\ Unlocked(d, w)
        /\ get_by_stripe_id(w.sid) = NoTenant /\ rows[w.tenant] = NoRow
        /\ rows' = [rows EXCEPT ![w.tenant] =
                        [sid |-> w.sid, status |-> w.status, plan |-> w.plan]]
        /\ tenants' = tenants \cup ({w.create} \ {NoTenant})
        /\ Goto(d, "mark")
        /\ UNCHANGED <<ev, found, seen, write, processed, stripe, failures>>

\* upsert_from_stripe: ON CONFLICT covers the Stripe subscription id only, so a
\* row of the tenant under another id, or none, makes it raise.
upsert_from_stripe(d) ==
    LET w == Insert(d)
        t == get_by_stripe_id(w.sid)
    IN  /\ pc[d] = "write"
        /\ E(d).kind = "checkout"
        /\ Unlocked(d, w)
        /\ \/ w.create \in tenants /\ Raise(d)
           \/ /\ w.create \notin tenants
              /\ \/ t = NoTenant /\ rows[w.tenant] # NoRow /\ Raise(d)
                 \/ t = NoTenant /\ rows[w.tenant] = NoRow /\ Wrote(d, w)
                 \/ /\ t # NoTenant
                    /\ Unlocked(d, [w EXCEPT !.tenant = t])
                    /\ Wrote(d, [w EXCEPT !.tenant = t, !.insert = FALSE])

\* customer.subscription.created for an id without a row: the insert raises for
\* an unknown status, a missing or unknown tenant, and a tenant or id that has
\* got a row in the meantime.
CreateRow(d) ==
    LET w == Insert(d)
    IN  /\ pc[d] = "write"
        /\ E(d).kind = "created" /\ found[d] = NoTenant
        /\ \/ (E(d).status = "unknown" \/ E(d).tenant \notin tenants) /\ Raise(d)
           \/ /\ E(d).status # "unknown" /\ E(d).tenant \in tenants
              /\ Unlocked(d, w)
              /\ \/ (rows[w.tenant] # NoRow \/ get_by_stripe_id(w.sid) # NoTenant) /\ Raise(d)
                 \/ rows[w.tenant] = NoRow /\ get_by_stripe_id(w.sid) = NoTenant /\ Wrote(d, w)

----
Apply(w) ==
    IF w.insert
    THEN [rows EXCEPT ![w.tenant] = [sid |-> w.sid, status |-> w.status, plan |-> w.plan]]
    ELSE [rows EXCEPT ![w.tenant].status = IF w.status = Keep THEN @ ELSE w.status,
                      ![w.tenant].plan = IF w.plan = Keep THEN @ ELSE w.plan]

\* Mutant: the marker is added and flushed, but nothing commits it.
mark_processed_NoCommit(d) ==
    /\ pc[d] = "mark"
    /\ write' = [write EXCEPT ![d] = NoWrite]
    /\ Goto(d, "answer")
    /\ UNCHANGED <<ev, found, seen, tables, stripe, failures>>

\* Mutant: the marker has a session of its own, and the handler's is rolled back.
mark_processed_OwnSession(d) ==
    /\ pc[d] = "mark"
    /\ processed' = [processed EXCEPT ![ev[d]] = @ + 1]
    /\ write' = [write EXCEPT ![d] = NoWrite]
    /\ Goto(d, "answer")
    /\ UNCHANGED <<ev, found, seen, rows, tenants, stripe, failures>>

\* mark_processed adds the marker and commits it with the handler's write; the
\* primary key of the marker contains a fresh uuid, so it never conflicts.
mark_processed(d) ==
    /\ pc[d] = "mark"
    /\ processed' = [processed EXCEPT ![ev[d]] = @ + 1]
    /\ IF write[d] = NoWrite THEN UNCHANGED <<rows, tenants>>
       ELSE /\ rows' = Apply(write[d])
            /\ tenants' = tenants \cup ({write[d].create} \ {NoTenant})
    /\ write' = [write EXCEPT ![d] = NoWrite]
    /\ Goto(d, "answer")
    /\ UNCHANGED <<ev, found, seen, stripe, failures>>

Answer(d) == pc[d] = "answer" /\ Answer200(d)

\* A statement or the commit fails, or the refresh after the commit does.
Fails(d) ==
    /\ failures < MaxFailures
    /\ pc[d] # "idle"
    /\ Release(d)
    /\ rejected' = rejected \cup {ev[d]}
    /\ failures' = failures + 1
    /\ UNCHANGED <<history, tables, emitted, acked>>

\* The process dies; Stripe gets no answer and delivers again.
Crash ==
    /\ failures < MaxFailures
    /\ Busy # {}
    /\ pc' = [d \in Workers |-> "idle"]
    /\ ev' = [d \in Workers |-> 0]
    /\ found' = [d \in Workers |-> NoTenant]
    /\ seen' = [d \in Workers |-> NoRow]
    /\ write' = [d \in Workers |-> NoWrite]
    /\ failures' = failures + 1
    /\ UNCHANGED <<tables, stripe>>

Handle(d) ==
    \/ is_processed(d)
    \/ Read(d)
    \/ UpdateRow(d)
    \/ upsert_from_stripe(d)
    \/ CreateRow(d)
    \/ mark_processed(d)
    \/ Answer(d)

Next ==
    \/ Emit
    \/ \E d \in Workers : Handle(d) \/ Fails(d) \/ \E e \in Events : Deliver(d, e)
    \/ Crash

Spec == Init /\ [][Next]_vars

\* Handlers run on; Stripe emits its history and delivers each event again and
\* again until it is acknowledged, whatever else it delivers.
FairSpec ==
    /\ Spec
    /\ WF_vars(Emit)
    /\ \A d \in Workers : WF_vars(Handle(d))
    /\ \A e \in Events : SF_vars(e \notin acked /\ \E d \in Workers : Deliver(d, e))

----
\* Properties.

TypeOK ==
    /\ history \in Histories
    /\ pc \in [Workers -> {"idle", "dedup", "read", "write", "mark", "answer"}]
    /\ ev \in [Workers -> Events \cup {0}]
    /\ found \in [Workers -> Tenants \cup {NoTenant}]
    /\ seen \in [Workers -> Row \cup {NoRow}]
    /\ write \in [Workers -> Write \cup {NoWrite}]
    /\ rows \in [Tenants -> Row \cup {NoRow}]
    /\ tenants \subseteq Tenants
    /\ processed \in [Events -> Nat]
    /\ emitted \in 0 .. Len(history)
    /\ acked \subseteq Events
    /\ rejected \subseteq Events
    /\ failures \in Nat

\* An event Stripe will not deliver again, because a delivery was answered 200,
\* has a committed marker and so a committed effect: acknowledging before the
\* commit would lose it (webhook.py:113-137, stripe_event_repo.py:29).
AckedIsProcessed == \A e \in acked : processed[e] > 0

\* The subscription rows move only in the step that commits the marker of an
\* event, and only the one row of that event's Stripe subscription: no crash or
\* failure leaves an effect without its marker, and no concurrent delivery
\* replaces a row by that of another subscription.
RowsMoveWithMark ==
    [][\A t \in Tenants : rows'[t] # rows[t] =>
        \E e \in Events :
            /\ processed'[e] = processed[e] + 1
            /\ rows'[t] # NoRow /\ rows'[t].sid = history[e].sid
            /\ rows[t] # NoRow => rows[t].sid = history[e].sid]_vars

\* Whatever overtakes whatever, each column of a row holds its initial value or
\* what a processed event of that very subscription says: no delivery writes to
\* another tenant's row, and a failed one leaves nothing.
ColumnsFromEvents ==
    \A t \in Tenants : rows[t] # NoRow =>
        LET said == {e \in Events : processed[e] > 0 /\ history[e].sid = rows[t].sid}
            old  == InitialRows[t]
        IN  /\ \/ old # NoRow /\ rows[t].status = old.status
               \/ \E e \in said : rows[t].status = NewStatus(history[e])
            /\ \/ old # NoRow /\ rows[t].plan = old.plan
               \/ \E e \in said : rows[t].plan = NewPlan(history[e])

\* A Stripe event takes effect once, however often it is delivered
\* (is_processed, webhook.py:109).
AppliedOnce == \A e \in Events : processed[e] <= 1

\* When Stripe's deliveries came in order and all of them are acknowledged, the
\* row of a subscription holds the status and the plan of the last events that
\* speak of them.
InSync ==
    history \in Ordered /\ acked = 1 .. Len(history) =>
        \A e \in 1 .. Len(history) :
            LET same    == {f \in 1 .. Len(history) : history[f].sid = history[e].sid}
                t       == get_by_stripe_id(history[e].sid)
                speaks  == {f \in same : history[f].kind # "other"}
                planned == {f \in same : /\ history[f].kind \in {"checkout", "updated"}
                                        /\ NewPlan(history[f]) # Keep}
            IN  /\ (e \in speaks /\ \A f \in speaks : f <= e)
                       => t # NoTenant /\ rows[t].status = NewStatus(history[e])
                /\ (e \in planned /\ \A f \in planned : f <= e)
                       => t # NoTenant /\ rows[t].plan = NewPlan(history[e])

\* Every event Stripe emits is acknowledged in the end: failures, crashes,
\* answers lost after the commit, and a subscription.created that raises until
\* the checkout has made the row (webhook.py:334-350), only delay it.
AllAcknowledged == \A e \in Events : e <= emitted ~> e \in acked

\* Deliveries that do not overlap, in any order, repeated, failing and cut short
\* by crashes, implement SubscriptionMirror: its events are those whose marker
\* is committed (webhook.py:109-131).
Mirror == INSTANCE SubscriptionMirror WITH applied <- {e \in Events : processed[e] > 0}
MirrorSpec == Mirror!Spec

\* What EVIDENCE.md says of checkout.session.completed: it flips the tenant's
\* tier, so it is not answered 500 when nothing fails.
CheckoutAccepted == \A e \in rejected : history[e].kind # "checkout"

====
