---- MODULE Checkout ----
(***************************************************************************)
(* The Stripe customer of one tenant: POST /checkout/session, which        *)
(* creates it, POST /billing/portal, which needs it, and the cached tenant *)
(* record through which every endpoint sees it.  A request runs            *)
(*                                                                         *)
(*   cache_get (-> SELECT -> cache_set) -> create_customer -> commit       *)
(*     -> refresh -> create_checkout_session or create_portal_session      *)
(*                                                                         *)
(* A tenant taken from the cache is an object outside the session: commit  *)
(* does not write it and refresh raises.  Customers are numbered in the    *)
(* order in which Stripe creates them; None is a tenant without one.       *)
(***************************************************************************)
EXTENDS Integers, FiniteSets

CONSTANTS
    Requests,      \* bound: requests handled at once
    MaxCustomers,  \* bound: customers, those that requests may yet create included
    Absent         \* no cache entry

None == 0

\* POST /checkout/session, POST /billing/portal, and any endpoint that only
\* authenticates, POST /subscriptions/cancel among them.
Kinds == {"checkout", "portal", "other"}

ASSUME BoundsAssumption == MaxCustomers \in Nat /\ IsFiniteSet(Requests)
ASSUME AbsentAssumption == Absent \notin Nat

VARIABLES
    column,     \* committed tenants.stripe_customer_id
    cache,      \* stripe_customer_id of the tenant: entry in Redis, or Absent
    customers,  \* customers Stripe has created
    sessions,   \* customers for whom a checkout or portal session was opened
    stored,     \* history: every value the column has had
    pc,         \* pc[r]: next await of request r
    kind,       \* kind[r]: the endpoint it calls
    view,       \* view[r]: tenant.stripe_customer_id of its object
    loaded      \* loaded[r]: that object belongs to its session

vars == <<column, cache, customers, sessions, stored, pc, kind, view, loaded>>
table  == <<column, stored>>
stripe == <<customers, sessions>>
local  == <<kind, view, loaded>>

Busy == {r \in Requests : pc[r] # "idle"}

Init ==
    /\ column = None
    /\ cache = Absent
    /\ customers = 0
    /\ sessions = {}
    /\ stored = {}
    /\ pc = [r \in Requests |-> "idle"]
    /\ kind = [r \in Requests |-> "other"]
    /\ view = [r \in Requests |-> None]
    /\ loaded = [r \in Requests |-> FALSE]

----
Goto(r, step) == pc' = [pc EXCEPT ![r] = step]

\* The answer, whatever its status; get_db rolls back what is not committed.
End(r) ==
    /\ Goto(r, "idle")
    /\ kind' = [kind EXCEPT ![r] = "other"]
    /\ view' = [view EXCEPT ![r] = None]
    /\ loaded' = [loaded EXCEPT ![r] = FALSE]

\* Mutant: the billing portal does not ask whether there is a customer.
Begin_PortalForAll(k, customer) ==
    IF k = "checkout" /\ customer = None THEN "create"
    ELSE IF k \in {"checkout", "portal"} THEN "session" ELSE "answer"

\* What the endpoint does next once it has its tenant, without an await. A
\* checkout without a customer creates one; a portal without one is answered
\* 400, and no other endpoint looks at it.
Begin(k, customer) ==
    IF k = "checkout" /\ customer = None THEN "create"
    ELSE IF k \in {"checkout", "portal"} /\ customer # None THEN "session" ELSE "answer"

Arrive(r) ==
    /\ pc[r] = "idle"
    /\ customers + Cardinality(Busy) < MaxCustomers
    /\ Goto(r, "lookup")
    /\ \E k \in Kinds : kind' = [kind EXCEPT ![r] = k]
    /\ UNCHANGED <<view, loaded, cache, table, stripe>>

----
\* get_current_tenant

\* The record in Redis becomes an object of no session.
Hit(r) ==
    /\ pc[r] = "lookup"
    /\ cache # Absent
    /\ view' = [view EXCEPT ![r] = cache]
    /\ Goto(r, Begin(kind[r], cache))
    /\ UNCHANGED <<kind, loaded, cache, table, stripe>>

\* No entry, or Redis does not answer.
Miss(r) ==
    /\ pc[r] = "lookup"
    /\ Goto(r, "load")
    /\ UNCHANGED <<local, cache, table, stripe>>

Load(r) ==
    /\ pc[r] = "load"
    /\ view' = [view EXCEPT ![r] = column]
    /\ loaded' = [loaded EXCEPT ![r] = TRUE]
    /\ Goto(r, "store")
    /\ UNCHANGED <<kind, cache, table, stripe>>

\* Mutant: the record is stored without the customer.
Store_NoCustomer(r) ==
    /\ pc[r] = "store"
    /\ cache' \in {cache, None}
    /\ Goto(r, Begin(kind[r], view[r]))
    /\ UNCHANGED <<local, table, stripe>>

\* cache_set stores what the SELECT returned, whatever has happened since, or
\* fails in silence.
Store(r) ==
    /\ pc[r] = "store"
    /\ cache' \in {cache, view[r]}
    /\ Goto(r, Begin(kind[r], view[r]))
    /\ UNCHANGED <<local, table, stripe>>

----
\* create_checkout_session, create_portal_session

\* Stripe creates a customer, whose id is assigned to the object.
create_customer(r) ==
    /\ pc[r] = "create"
    /\ customers' = customers + 1
    /\ view' = [view EXCEPT ![r] = customers']
    /\ Goto(r, "commit")
    /\ UNCHANGED <<kind, loaded, cache, table, sessions>>

\* The commit writes the column if the object belongs to the session, over
\* what another checkout may have put there.
Written(r) ==
    /\ column' = IF loaded[r] THEN view[r] ELSE column
    /\ stored' = IF loaded[r] THEN stored \cup {view[r]} ELSE stored

commit(r) ==
    /\ pc[r] = "commit"
    /\ Written(r)
    /\ Goto(r, "refresh")
    /\ UNCHANGED <<local, cache, stripe>>

\* Mutant: the tenant is not refreshed after the commit.
refresh_Dropped(r) ==
    /\ pc[r] = "refresh"
    /\ Goto(r, "session")
    /\ UNCHANGED <<local, cache, table, stripe>>

\* The object is read again, perhaps with the customer of a later commit; one
\* of no session makes refresh raise, outside the try block: 500.
refresh(r) ==
    /\ pc[r] = "refresh"
    /\ \/ /\ loaded[r]
          /\ view' = [view EXCEPT ![r] = column]
          /\ Goto(r, "session")
          /\ UNCHANGED <<kind, loaded>>
       \/ ~loaded[r] /\ End(r)
    /\ UNCHANGED <<cache, table, stripe>>

\* Stripe opens a session for the customer of the object: 200.
Opened(r) ==
    /\ sessions' = sessions \cup {view[r]}
    /\ End(r)
    /\ UNCHANGED <<cache, table, customers>>

create_checkout_session(r) == pc[r] = "session" /\ kind[r] = "checkout" /\ Opened(r)
create_portal_session(r) == pc[r] = "session" /\ kind[r] = "portal" /\ Opened(r)

Answer(r) ==
    /\ pc[r] = "answer"
    /\ End(r)
    /\ UNCHANGED <<cache, table, stripe>>

\* 401, or an exception before the step takes effect: 500.
Fails(r) ==
    /\ pc[r] \notin {"idle", "answer"}
    /\ End(r)
    /\ UNCHANGED <<cache, table, stripe>>

\* An exception although Stripe has created the customer or PostgreSQL has
\* committed: the answer was lost.
FailsAfter(r) ==
    /\ \/ /\ pc[r] = "create"
          /\ customers' = customers + 1
          /\ UNCHANGED table
       \/ /\ pc[r] = "commit"
          /\ Written(r)
          /\ UNCHANGED customers
    /\ End(r)
    /\ UNCHANGED <<cache, sessions>>

----
\* Mutant: the record is stored without a time to live.
ExpireTenant_NoTtl ==
    /\ cache # Absent /\ FALSE
    /\ cache' = Absent
    /\ UNCHANGED <<table, stripe, pc, local>>

\* The entry expires after 60 seconds, or Redis loses it before.
ExpireTenant ==
    /\ cache # Absent
    /\ cache' = Absent
    /\ UNCHANGED <<table, stripe, pc, local>>

Crash ==
    /\ Busy # {}
    /\ pc' = [r \in Requests |-> "idle"]
    /\ kind' = [r \in Requests |-> "other"]
    /\ view' = [r \in Requests |-> None]
    /\ loaded' = [r \in Requests |-> FALSE]
    /\ UNCHANGED <<cache, table, stripe>>

get_current_tenant(r) == Hit(r) \/ Miss(r) \/ Load(r) \/ Store(r)
endpoint(r) ==
    \/ create_customer(r)
    \/ commit(r)
    \/ refresh(r)
    \/ create_checkout_session(r)
    \/ create_portal_session(r)
    \/ Answer(r)

Next ==
    \/ \E r \in Requests :
           Arrive(r) \/ get_current_tenant(r) \/ endpoint(r) \/ Fails(r) \/ FailsAfter(r)
    \/ ExpireTenant
    \/ Crash

Spec == Init /\ [][Next]_vars

\* The event loop resumes what can go on, and a cache entry has a time to live.
FairSpec ==
    /\ Spec
    /\ \A r \in Requests : WF_vars(get_current_tenant(r) \/ endpoint(r))
    /\ WF_vars(ExpireTenant)

----
\* Properties.

TypeOK ==
    /\ column \in 0 .. customers
    /\ cache \in 0 .. customers \cup {Absent}
    /\ customers \in Nat
    /\ sessions \subseteq 1 .. customers
    /\ stored \subseteq 1 .. customers
    /\ pc \in [Requests -> {"idle", "lookup", "load", "store", "create", "commit",
                            "refresh", "session", "answer"}]
    /\ kind \in [Requests -> Kinds]
    /\ view \in [Requests -> 0 .. customers]
    /\ loaded \in [Requests -> BOOLEAN]

\* Nobody is sent to pay or to manage payments as a customer the tenant has
\* never had: of the customers created by overlapping checkouts, by checkouts
\* of a cached tenant, or in vain, only those that were committed get a session
\* (checkout.py:34-62, billing.py:28-31).
SessionsOfTenant == sessions \subseteq stored

\* The customer of the tenant is settled: no one holds, or will find, a record
\* without it, and no checkout is about to replace it.
Settled ==
    /\ column # None
    /\ cache # None
    /\ \A r \in Requests :
        /\ pc[r] = "store" => view[r] # None
        /\ pc[r] \notin {"create", "commit"}

\* Once settled it stays so, through expiry, crashes and requests of any kind:
\* the column keeps its value and Stripe gets no further customer for this
\* tenant (auth.py:29-63, checkout.py:29-36).
SettledForGood ==
    [][Settled => Settled' /\ column' = column /\ customers' = customers]_vars

\* A committed customer settles, although the checkout that stored it leaves a
\* record without it in the cache, and slower requests may store it again: the
\* stale record expires, and no later read returns another (auth.py:63).
SettlesEventually == column # None ~> Settled

====
