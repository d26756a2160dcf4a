---- MODULE SubscriptionMirror ----
(***************************************************************************)
(* What the webhook promises of the subscriptions table: it mirrors Stripe.*)
(* Every event is applied at most once, as a whole and for good, in some   *)
(* order.  No deliveries, no transactions, no failures.                    *)
(***************************************************************************)
EXTENDS StripeData

VARIABLES
    history,  \* the events of Stripe
    rows,     \* subscriptions, by tenant
    tenants,  \* known tenants
    applied   \* events that have been applied

vars == <<history, rows, tenants, applied>>

Holds(t, sid) == rows[t] # NoRow /\ rows[t].sid = sid
Unknown(sid) == \A t \in Tenants : ~Holds(t, sid)

Init ==
    /\ history \in Histories
    /\ rows = InitialRows
    /\ tenants = InitialTenants
    /\ applied = {}

\* A checkout gives its tenant, or a new one, an active subscription; that of
\* a subscription already there makes it active again.
Subscribe(e) ==
    /\ e.kind = "checkout"
    /\ e.tenant = NoTenant => e.customer \notin tenants
    /\ e.tenant # NoTenant => e.tenant \in tenants
    /\ \E t \in Tenants :
        /\ \/ Holds(t, e.sid)
           \/ Unknown(e.sid) /\ t = Owner(e) /\ rows[t] = NoRow
        /\ rows' = [rows EXCEPT ![t] = [sid |-> e.sid, status |-> "active", plan |-> NewPlan(e)]]
    /\ tenants' = tenants \cup {Owner(e)}

\* A subscription Stripe created elsewhere, for a tenant without one.
Register(e) ==
    /\ e.kind = "created"
    /\ Unknown(e.sid)
    /\ e.status # "unknown"
    /\ e.tenant \in tenants /\ rows[e.tenant] = NoRow
    /\ rows' = [rows EXCEPT ![e.tenant] =
                    [sid |-> e.sid, status |-> e.status, plan |-> NewPlan(e)]]
    /\ UNCHANGED tenants

\* Any other event changes the status of its subscription, an update the plan.
Change(e) ==
    /\ e.kind \in Kinds \ {"checkout", "other"}
    /\ NewStatus(e) # "unknown"
    /\ \E t \in Tenants :
        /\ Holds(t, e.sid)
        /\ rows' = [rows EXCEPT
                        ![t].status = NewStatus(e),
                        ![t].plan = IF e.kind = "updated" /\ e.plan # Keep THEN e.plan ELSE @]
    /\ UNCHANGED tenants

\* Events of no interest, of unknown subscriptions and for unknown tenants.
Ignore(e) ==
    /\ \/ e.kind = "other"
       \/ (e.kind \notin {"checkout", "created"} /\ Unknown(e.sid))
       \/ (e.kind = "checkout" /\ e.tenant \notin tenants \cup {NoTenant})
    /\ UNCHANGED <<rows, tenants>>

Apply(e) ==
    /\ e \notin applied
    /\ applied' = applied \cup {e}
    /\ Subscribe(history[e]) \/ Register(history[e]) \/ Change(history[e]) \/ Ignore(history[e])
    /\ UNCHANGED history

Next == \E e \in 1 .. Len(history) : Apply(e)

Spec == Init /\ [][Next]_vars

====
