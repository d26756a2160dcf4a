---- MODULE CheckoutProofs ----
(***************************************************************************)
(* Theorems about Checkout, for any requests and any number of customers.  *)
(***************************************************************************)
EXTENDS Checkout, TLAPS

----
\* The inductive invariant.

\* What the column, a cached record and the object of a request may hold: the
\* column never loses a customer, a record is a former value of the column, and
\* so is the customer of whoever is past the lookup, a new customer on its way
\* to the column excepted.
Known == stored \cup {None}

ColumnInv == column \in Known
CacheInv == cache \in Known \cup {Absent}
ViewInv ==
    \A r \in Requests :
        /\ pc[r] = "store" => view[r] \in Known
        /\ pc[r] = "commit" => view[r] # None
        /\ pc[r] = "refresh" /\ loaded[r] => column # None
        /\ pc[r] = "session" => view[r] \in stored

IndInv ==
    /\ TypeOK
    /\ ColumnInv
    /\ CacheInv
    /\ ViewInv
    /\ SessionsOfTenant

LEMMA BeginType ==
    ASSUME NEW k \in Kinds, NEW customer
    PROVE  /\ Begin(k, customer) \in {"create", "session", "answer"}
           /\ Begin(k, customer) = "session" => customer # None
           /\ Begin(k, customer) = "create" => customer = None
  BY DEF Begin

----
LEMMA InitInv == Init => IndInv
  BY DEF Init, IndInv, TypeOK, ColumnInv, CacheInv, ViewInv, SessionsOfTenant, Known, Kinds, None

LEMMA NextType ==
    ASSUME IndInv, [Next]_vars
    PROVE  TypeOK'
<1> USE AbsentAssumption DEF IndInv, TypeOK, None, table, stripe, local
<1>0. ASSUME NEW r \in Requests, pc[r] = "commit", Written(r)
      PROVE  column' \in 0 .. customers /\ stored' \subseteq 1 .. customers
  <2>1. view[r] \in 1 .. customers
    BY <1>0 DEF ViewInv
  <2> QED BY <1>0, <2>1 DEF Written
<1>1. ASSUME NEW r \in Requests, End(r), UNCHANGED <<cache, table, customers>>,
             sessions' \in {sessions, sessions \cup {view[r]}}, view[r] # None \/ UNCHANGED sessions
      PROVE  TypeOK'
  BY <1>1 DEF End, Goto, Kinds
<1>2. ASSUME NEW r \in Requests, Arrive(r) PROVE TypeOK'
  BY <1>2 DEF Arrive, Goto
<1>3. ASSUME NEW r \in Requests, Hit(r) PROVE TypeOK'
  BY <1>3, BeginType DEF Hit, Goto
<1>4. ASSUME NEW r \in Requests, Miss(r) \/ Load(r) PROVE TypeOK'
  BY <1>4 DEF Miss, Load, Goto
<1>5. ASSUME NEW r \in Requests, Store(r) PROVE TypeOK'
  BY <1>5, BeginType DEF Store, Goto
<1>6. ASSUME NEW r \in Requests, create_customer(r) PROVE TypeOK'
  BY <1>6 DEF create_customer, Goto
<1>7. ASSUME NEW r \in Requests, commit(r) PROVE TypeOK'
  BY <1>0, <1>7 DEF commit, Goto
<1>8. ASSUME NEW r \in Requests, refresh(r) PROVE TypeOK'
  BY <1>1, <1>8 DEF refresh, Goto
<1>9. ASSUME NEW r \in Requests, create_checkout_session(r) \/ create_portal_session(r)
      PROVE  TypeOK'
  BY <1>1, <1>9 DEF create_checkout_session, create_portal_session, Opened, ViewInv
<1>10. ASSUME NEW r \in Requests, Answer(r) \/ Fails(r) PROVE TypeOK'
  BY <1>1, <1>10 DEF Answer, Fails
<1>11. ASSUME NEW r \in Requests, FailsAfter(r) PROVE TypeOK'
  <2>1. CASE pc[r] = "create"
    <3>1. customers' = customers + 1 /\ UNCHANGED <<column, stored, cache, sessions>> /\ End(r)
      BY <1>11, <2>1 DEF FailsAfter
    <3>2. 0 .. customers \subseteq 0 .. customers' /\ 1 .. customers \subseteq 1 .. customers'
      BY <3>1
    <3> QED BY <3>1, <3>2 DEF End, Goto, Kinds
  <2>2. CASE pc[r] = "commit"
    BY <1>0, <1>11, <2>2 DEF FailsAfter, End, Goto, Kinds
  <2> QED BY <1>11, <2>1, <2>2 DEF FailsAfter
<1>12. CASE ExpireTenant \/ UNCHANGED vars
  BY <1>12 DEF ExpireTenant, vars
<1>13. CASE Crash
  BY <1>13 DEF Crash, Kinds
<1> QED
  BY <1>2, <1>3, <1>4, <1>5, <1>6, <1>7, <1>8, <1>9, <1>10, <1>11, <1>12, <1>13
  DEF Next, get_current_tenant, endpoint

LEMMA NextSessions ==
    ASSUME IndInv, [Next]_vars
    PROVE  ColumnInv' /\ CacheInv' /\ ViewInv' /\ SessionsOfTenant'
<1> DEFINE Goal == ColumnInv' /\ CacheInv' /\ ViewInv' /\ SessionsOfTenant'
<1> USE DEF IndInv, TypeOK, None, table, stripe, local,
            ColumnInv, CacheInv, ViewInv, SessionsOfTenant, Known
<1>1. ASSUME NEW r \in Requests, End(r), UNCHANGED <<column, stored, cache>>,
             sessions' \in {sessions, sessions \cup {view[r]}},
             pc[r] = "session" \/ UNCHANGED sessions
      PROVE  Goal
  BY <1>1 DEF End, Goto
<1>2. ASSUME NEW r \in Requests, Arrive(r) PROVE Goal
  BY <1>2 DEF Arrive, Goto
<1>3. ASSUME NEW r \in Requests, Hit(r) PROVE Goal
  BY <1>3, BeginType DEF Hit, Goto
<1>4. ASSUME NEW r \in Requests, Miss(r) \/ Load(r) PROVE Goal
  BY <1>4 DEF Miss, Load, Goto
<1>5. ASSUME NEW r \in Requests, Store(r) PROVE Goal
  BY <1>5, BeginType DEF Store, Goto
<1>6. ASSUME NEW r \in Requests, create_customer(r) PROVE Goal
  BY <1>6 DEF create_customer, Goto
<1>7. ASSUME NEW r \in Requests, commit(r) PROVE Goal
  BY <1>7 DEF commit, Written, Goto
<1>8. ASSUME NEW r \in Requests, refresh(r) PROVE Goal
  BY <1>1, <1>8 DEF refresh, Goto
<1>9. ASSUME NEW r \in Requests, create_checkout_session(r) \/ create_portal_session(r)
      PROVE  Goal
  BY <1>1, <1>9 DEF create_checkout_session, create_portal_session, Opened
<1>10. ASSUME NEW r \in Requests, Answer(r) \/ Fails(r) PROVE Goal
  BY <1>1, <1>10 DEF Answer, Fails
<1>11. ASSUME NEW r \in Requests, FailsAfter(r) PROVE Goal
  BY <1>11 DEF FailsAfter, Written, End, Goto
<1>12. CASE ExpireTenant \/ UNCHANGED vars
  BY <1>12 DEF ExpireTenant, vars
<1>13. CASE Crash
  BY <1>13 DEF Crash
<1> QED
  BY <1>2, <1>3, <1>4, <1>5, <1>6, <1>7, <1>8, <1>9, <1>10, <1>11, <1>12, <1>13
  DEF Next, get_current_tenant, endpoint

\* Every step of a settled tenant keeps it settled.
LEMMA SettledStep ==
    ASSUME IndInv, [Next]_vars, Settled
    PROVE  Settled' /\ column' = column /\ customers' = customers
<1> DEFINE Goal == Settled' /\ column' = column /\ customers' = customers
<1> USE AbsentAssumption DEF IndInv, TypeOK, None, Settled, table, stripe, local
<1>1. ASSUME NEW r \in Requests, End(r), UNCHANGED <<column, cache, customers>> PROVE Goal
  BY <1>1 DEF End, Goto
<1>2. ASSUME NEW r \in Requests, Arrive(r) \/ Miss(r) PROVE Goal
  BY <1>2 DEF Arrive, Miss, Goto
<1>3. ASSUME NEW r \in Requests, Hit(r) PROVE Goal
  BY <1>3, BeginType DEF Hit, Goto
<1>4. ASSUME NEW r \in Requests, Load(r) PROVE Goal
  BY <1>4 DEF Load, Goto
<1>5. ASSUME NEW r \in Requests, Store(r) PROVE Goal
  BY <1>5, BeginType DEF Store, Goto
<1>6. ASSUME NEW r \in Requests, create_customer(r) \/ commit(r) \/ FailsAfter(r) PROVE FALSE
  BY <1>6 DEF create_customer, commit, FailsAfter
<1>7. ASSUME NEW r \in Requests, refresh(r) PROVE Goal
  BY <1>1, <1>7 DEF refresh, Goto
<1>8. ASSUME NEW r \in Requests,
             create_checkout_session(r) \/ create_portal_session(r) \/ Answer(r) \/ Fails(r)
      PROVE  Goal
  BY <1>1, <1>8 DEF create_checkout_session, create_portal_session, Opened, Answer, Fails
<1>9. CASE ExpireTenant \/ Crash \/ UNCHANGED vars
  BY <1>9 DEF ExpireTenant, Crash, vars
<1> QED
  BY <1>2, <1>3, <1>4, <1>5, <1>6, <1>7, <1>8, <1>9 DEF Next, get_current_tenant, endpoint

----
\* Theorems.

\* The inductive invariant holds of every behaviour; in particular the state
\* keeps its types, and no customer is stored before Stripe has created it.
THEOREM Invariant == Spec => []IndInv
<1>1. Init => IndInv
  BY InitInv
<1>2. IndInv /\ [Next]_vars => IndInv'
  BY NextType, NextSessions DEF IndInv
<1> QED BY <1>1, <1>2, PTL DEF Spec

\* Every variable keeps its type; in particular only customers that Stripe has
\* created are stored or in a session (checkout.py:29-62).
THEOREM TypeCorrect == Spec => []TypeOK
<1>1. IndInv => TypeOK
  BY DEF IndInv
<1> QED BY <1>1, Invariant, PTL

\* A checkout or portal session is opened only for a customer that the tenant
\* has, or had when the request read it (checkout.py:34-62, billing.py:28-31).
THEOREM SessionsAreOfTenant == Spec => []SessionsOfTenant
<1>1. IndInv => SessionsOfTenant
  BY DEF IndInv
<1> QED BY <1>1, Invariant, PTL

\* Once the tenant's customer is settled, no request, expiry or crash changes it
\* or makes Stripe create another (auth.py:29-63, checkout.py:29-36).
THEOREM StaysSettled == Spec => SettledForGood
<1>1. IndInv /\ [Next]_vars
        => [Settled => Settled' /\ column' = column /\ customers' = customers]_vars
  BY SettledStep
<1> QED BY <1>1, Invariant, PTL DEF Spec, SettledForGood

====
