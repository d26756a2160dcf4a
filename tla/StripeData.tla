---- MODULE StripeData ----
(***************************************************************************)
(* Stripe events and subscription rows, and what an event says of a row.   *)
(***************************************************************************)
EXTENDS Integers, Sequences, FiniteSets

CONSTANTS
    Tenants,      \* tenants, named by their Stripe customer
    Sids,         \* Stripe subscription ids
    Histories,    \* event sequences, one per scenario, as Stripe emits them
    MaxEvents,    \* bound: length of the longest of them
    InitialRows,  \* initial subscriptions rows: tenant -> row
    InitialTenants,  \* tenants that exist at the start
    NoTenant, NoSid, NoRow

Statuses == {"active", "past_due", "canceled", "incomplete", "trialing"}
Tiers    == {"FREE", "PRO"}
Keep     == "keep"    \* a column an UPDATE does not mention
Kinds    == {"checkout", "payment_succeeded", "payment_failed", "created",
             "updated", "deleted", "other"}
Row      == [sid : Sids \cup {NoSid}, status : Statuses, plan : Tiers]
Event    == [kind : Kinds, sid : Sids, tenant : Tenants \cup {NoTenant},
             customer : Tenants, status : Statuses \cup {"unknown"},
             plan : Tiers \cup {Keep}]

ASSUME HistoryAssumption ==
    /\ MaxEvents \in Nat
    /\ Histories \subseteq Seq(Event)
    /\ \A h \in Histories : Len(h) <= MaxEvents
    /\ InitialRows \in [Tenants -> Row \cup {NoRow}]
    /\ InitialTenants \subseteq Tenants
\* The column of the Stripe subscription id has a unique index.
ASSUME UniqueAssumption ==
    \A t, u \in Tenants :
        InitialRows[t] # NoRow /\ InitialRows[u] # NoRow /\ InitialRows[t].sid \in Sids =>
            (InitialRows[t].sid = InitialRows[u].sid => t = u)
ASSUME NullAssumption == NoTenant \notin Tenants /\ NoSid \notin Sids /\ NoRow \notin Row

Events == 1 .. MaxEvents

NewStatus(e) ==
    CASE e.kind \in {"checkout", "payment_succeeded"} -> "active"
      [] e.kind = "payment_failed" -> "past_due"
      [] e.kind = "deleted" -> "canceled"
      [] OTHER -> e.status

NewPlan(e) ==
    CASE e.kind = "updated" -> e.plan
      [] e.kind \in {"checkout", "created"} -> IF e.plan = Keep THEN "FREE" ELSE e.plan
      [] OTHER -> Keep

\* The tenant an inserted row belongs to: a checkout without a tenant in its
\* metadata creates one.
Owner(e) == IF e.tenant # NoTenant THEN e.tenant ELSE e.customer

====
