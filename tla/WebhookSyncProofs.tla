---- MODULE WebhookSyncProofs ----
(***************************************************************************)
(* Where deliveries neither overlap nor overtake each other, the           *)
(* subscriptions agree with Stripe once it has no event left to deliver.   *)
(***************************************************************************)
EXTENDS WebhookMirrorProofs

----
\* The inductive invariant.

\* The processed events that speak of the status, and those that speak of the plan,
\* of their subscription.
Speaks(e) == e.kind # "other"
Plans(e)  == e.kind \in {"checkout", "updated"} /\ NewPlan(e) # Keep
Speaking  == {e \in 1 .. Len(history) : processed[e] > 0 /\ Speaks(history[e])}
Planning  == {e \in 1 .. Len(history) : processed[e] > 0 /\ Plans(history[e])}

Latest(e, S) == e \in S /\ \A f \in S : history[f].sid = history[e].sid => f <= e

\* A subscription has one row.
UniqueRows ==
    \A sid \in Sids : \A t, u \in Tenants : Mirror!Holds(t, sid) /\ Mirror!Holds(u, sid) => t = u

\* The events before one that is at work, or processed, are processed.
InOrder ==
    /\ \A d \in Workers : pc[d] # "idle" => \A f \in 1 .. ev[d] - 1 : processed[f] > 0
    /\ \A e \in Events : processed[e] > 0 => \A f \in 1 .. e - 1 : processed[f] > 0

\* A subscription that an event has spoken of has a row, and the columns the latest
\* of these events have given it.
Agreed ==
    /\ \A e \in Speaking : \E t \in Tenants : Mirror!Holds(t, history[e].sid)
    /\ \A e \in Events : \A t \in Tenants :
          Latest(e, Speaking) /\ Mirror!Holds(t, history[e].sid)
              => rows[t].status = NewStatus(history[e])
    /\ \A e \in Events : \A t \in Tenants :
          Latest(e, Planning) /\ Mirror!Holds(t, history[e].sid)
              => rows[t].plan = NewPlan(history[e])

SyncInv ==
    /\ InitialTenants \subseteq tenants
    /\ UniqueRows
    /\ history \in Ordered => InOrder /\ Agreed

----
\* The order of the deliveries.

LEMMA Continues ==
    ASSUME IndInv, [Next]_vars, NEW o \in Workers
    PROVE  \/ pc'[o] = "idle"
           \/ pc[o] # "idle" /\ ev'[o] = ev[o]
           \/ \E e \in Events : Deliver(o, e)
<1> DEFINE Goal == \/ pc'[o] = "idle"
                   \/ pc[o] # "idle" /\ ev'[o] = ev[o]
                   \/ \E e \in Events : Deliver(o, e)
<1> USE DEF IndInv, TypeOK, Goto
<1>1. ASSUME NEW d \in Workers, Release(d) PROVE Goal
  BY <1>1 DEF Release
<1>2. ASSUME NEW d \in Workers, NEW e \in Events, Deliver(d, e) PROVE Goal
  BY <1>2 DEF Deliver
<1>3. ASSUME NEW d \in Workers, is_processed(d) PROVE Goal
  BY <1>1, <1>3 DEF is_processed, Raise, Answer200
<1>4. ASSUME NEW d \in Workers, Read(d) PROVE Goal
  BY <1>4 DEF Read
<1>5. ASSUME NEW d \in Workers, UpdateRow(d) \/ upsert_from_stripe(d) \/ CreateRow(d) PROVE Goal
  <2>1. pc[d] = "write" /\ (Raise(d) \/ \E w \in Write \cup {NoWrite} : Wrote(d, w))
    BY <1>5, Handlers
  <2> QED BY <1>1, <2>1 DEF Raise, Wrote
<1>6. ASSUME NEW d \in Workers, mark_processed(d) PROVE Goal
  BY <1>6 DEF mark_processed
<1>7. ASSUME NEW d \in Workers, Answer(d) \/ Fails(d) PROVE Goal
  BY <1>1, <1>7 DEF Answer, Answer200, Fails
<1>8. CASE Emit \/ Crash \/ UNCHANGED vars
  BY <1>8 DEF Emit, Crash, vars
<1> QED BY <1>2, <1>3, <1>4, <1>5, <1>6, <1>7, <1>8 DEF Next, Handle

LEMMA NextInOrder ==
    ASSUME IndInv, history \in Ordered, InOrder, [Next]_vars
    PROVE  InOrder'
<1> USE DEF IndInv
<1>1. \A e \in Events : processed[e] > 0 => processed'[e] > 0
  BY TablesGrow
<1>2. ASSUME NEW d \in Workers, pc'[d] # "idle", NEW f \in 1 .. ev'[d] - 1
      PROVE  processed'[f] > 0
  <2>1. CASE pc[d] # "idle" /\ ev'[d] = ev[d]
    <3>1. ev[d] \in Events /\ f \in Events /\ processed[f] > 0
      BY <1>2, <2>1, EventOf, HistoryAssumption DEF InOrder, Events
    <3> QED BY <1>1, <3>1
  <2>2. ASSUME NEW e \in Events, Deliver(d, e) PROVE processed'[f] > 0
    <3>1. ev'[d] = e /\ \A g \in 1 .. e - 1 : g \in acked
      BY <2>2 DEF Deliver, TypeOK
    <3>2. f \in acked /\ f \in Events
      BY <1>2, <3>1, HistoryAssumption DEF Events
    <3> QED BY <1>1, <3>2 DEF AckedIsProcessed
  <2> QED BY <1>2, <2>1, <2>2, Continues
<1>3. ASSUME NEW e \in Events, processed'[e] > 0, NEW f \in 1 .. e - 1
      PROVE  processed'[f] > 0
  <2>1. f \in Events
    BY HistoryAssumption DEF Events
  <2>2. CASE processed[e] > 0
    BY <1>1, <2>1, <2>2 DEF InOrder
  <2>3. CASE ~ (processed[e] > 0)
    <3>1. PICK d \in Workers : mark_processed(d)
      BY <1>3, <2>3, TableStep DEF tables
    <3>2. e = ev[d] /\ pc[d] # "idle"
      BY <1>3, <2>3, <3>1, MarkOf DEF mark_processed
    <3> QED BY <1>1, <2>1, <3>2 DEF InOrder
  <2> QED BY <2>2, <2>3
<1> QED BY <1>2, <1>3 DEF InOrder

----
\* What the commit of a marker does to the rows.

\* The row of t, that of the event's subscription or a new one, is the only one that
\* changes, and has the columns the event says.
Sets(t, e, R) ==
    /\ Mirror!Holds(t, e.sid) \/ (Mirror!Unknown(e.sid) /\ rows[t] = NoRow)
    /\ \A u \in Tenants \ {t} : R[u] = rows[u]
    /\ R[t] # NoRow /\ R[t].sid = e.sid
    /\ R[t].status = NewStatus(e)
    /\ Plans(e) => R[t].plan = NewPlan(e)
    /\ Mirror!Holds(t, e.sid) /\ ~Plans(e) => R[t].plan = rows[t].plan

LEMMA EffectRow ==
    ASSUME TypeOK, NEW e \in Event, NEW R, NEW T, Effect(e, R, T), ~Ignored(e, R, T)
    PROVE  \E t \in Tenants : Sets(t, e, R)
<1>1. rows \in [Tenants -> Row \cup {NoRow}] /\ NoRow \notin Row
  BY NullAssumption DEF TypeOK
<1>2. e.sid \in Sids \cup {NoSid}
  BY DEF Event
<1>3. CASE Subscribed(e, R, T)
  <2> DEFINE row == [sid |-> e.sid, status |-> "active", plan |-> NewPlan(e)]
  <2>1. /\ NewPlan(e) \in Tiers /\ NewPlan(e) # Keep /\ NewStatus(e) = "active"
        /\ "active" \in Statuses /\ Plans(e)
    BY <1>3, PlanOf, StatusOf DEF Subscribed, Statuses, Plans
  <2>2. row \in Row
    BY <1>2, <2>1 DEF Row
  <2>3. PICK t \in Tenants :
          /\ \/ Mirror!Holds(t, e.sid)
             \/ Mirror!Unknown(e.sid) /\ t = Owner(e) /\ rows[t] = NoRow
          /\ R = [rows EXCEPT ![t] = row]
    BY <1>3 DEF Subscribed
  <2>4. R[t] = row /\ \A u \in Tenants \ {t} : R[u] = rows[u]
    BY <1>1, <2>3
  <2>5. Sets(t, e, R)
    BY <1>1, <2>1, <2>2, <2>3, <2>4 DEF Sets
  <2> QED BY <2>5
<1>4. CASE Registered(e, R, T)
  <2> DEFINE t == e.tenant
             row == [sid |-> e.sid, status |-> e.status, plan |-> NewPlan(e)]
  <2>1. /\ NewPlan(e) \in Tiers /\ NewStatus(e) = e.status /\ e.status \in Statuses
        /\ t \in Tenants /\ ~Plans(e)
    BY <1>4, PlanOf, StatusOf DEF Registered, Event, Plans, TypeOK
  <2>2. row \in Row
    BY <1>2, <2>1 DEF Row
  <2>3. Mirror!Unknown(e.sid) /\ rows[t] = NoRow /\ ~Mirror!Holds(t, e.sid)
    BY <1>4 DEF Registered, Mirror!Holds
  <2>4. R[t] = row /\ \A u \in Tenants \ {t} : R[u] = rows[u]
    BY <1>1, <1>4, <2>1 DEF Registered
  <2>5. Sets(t, e, R)
    BY <1>1, <2>1, <2>2, <2>3, <2>4 DEF Sets
  <2> QED BY <2>1, <2>5
<1>5. CASE Changes(e, R, T)
  <2> DEFINE plan(t) == IF e.kind = "updated" /\ e.plan # Keep THEN e.plan ELSE rows[t].plan
  <2>1. /\ NewStatus(e) \in Statuses /\ e.plan \in Tiers \cup {Keep}
        /\ Plans(e) <=> e.kind = "updated" /\ e.plan # Keep
        /\ Plans(e) => NewPlan(e) = e.plan
    BY <1>5, PlanOf, StatusOf DEF Changes, Event, Plans
  <2>2. PICK t \in Tenants :
          /\ Mirror!Holds(t, e.sid)
          /\ R = [rows EXCEPT ![t].status = NewStatus(e),
                              ![t].plan = IF e.kind = "updated" /\ e.plan # Keep THEN e.plan ELSE @]
    BY <1>5 DEF Changes
  <2>3. rows[t] \in Row /\ rows[t].sid = e.sid
    BY <1>1, <2>2 DEF Mirror!Holds
  <2>4. /\ R[t] = [rows[t] EXCEPT !.status = NewStatus(e), !.plan = plan(t)]
        /\ \A u \in Tenants \ {t} : R[u] = rows[u]
    BY <1>1, <2>2, <2>3 DEF Row
  <2>5. plan(t) \in Tiers
    BY <2>1, <2>3 DEF Row
  <2>6. R[t] = [sid |-> e.sid, status |-> NewStatus(e), plan |-> plan(t)]
    BY <2>3, <2>4, RowExcept
  <2>7. R[t] \in Row
    BY <1>2, <2>1, <2>5, <2>6 DEF Row
  <2>8. Sets(t, e, R)
    BY <1>1, <2>1, <2>2, <2>4, <2>6, <2>7 DEF Sets
  <2> QED BY <2>8
<1> QED BY <1>3, <1>4, <1>5 DEF Effect

\* Delivered in order, a marker whose event speaks of a subscription is committed
\* with an effect: its row is there, or is made.
LEMMA Effective ==
    ASSUME IndInv, SyncInv, history \in Ordered, NEW d \in Workers, pc[d] = "mark",
           Speaks(E(d)), NEW R, NEW T
    PROVE  ~Ignored(E(d), R, T)
<1> DEFINE e == E(d)
<1>1. ev[d] \in 1 .. Len(history) /\ e = history[ev[d]] /\ Len(history) \in Nat
  BY EventOf, HistoryAssumption DEF IndInv, E, TypeOK
<1>2. CASE e.kind \notin {"checkout", "created"}
  <2>1. PICK f \in 1 .. ev[d] - 1 :
            history[f].sid = e.sid /\ history[f].kind \in {"checkout", "created"}
    BY <1>1, <1>2, OrderAssumption DEF Speaks
  <2>2. f \in Speaking
    BY <1>1, <2>1 DEF SyncInv, InOrder, Speaking, Speaks
  <2>3. \E t \in Tenants : Mirror!Holds(t, e.sid)
    BY <2>1, <2>2 DEF SyncInv, Agreed
  <2> QED BY <1>2, <2>3 DEF Ignored, Speaks, Mirror!Unknown
<1>3. CASE e.kind = "checkout"
  <2>1. e.tenant \in tenants \cup {NoTenant}
    BY <1>1, <1>3, OrderAssumption DEF SyncInv
  <2> QED BY <1>3, <2>1 DEF Ignored
<1>4. CASE e.kind = "created"
  BY <1>4 DEF Ignored
<1> QED BY <1>2, <1>3, <1>4

LEMMA MarkedRow ==
    ASSUME IndInv, SerialInv, SyncInv, [Next]_vars, NEW d \in Workers, mark_processed(d)
    PROVE  /\ InitialTenants \subseteq tenants'
           /\ \/ rows' = rows /\ (history \in Ordered => ~Speaks(E(d)))
              \/ Speaks(E(d)) /\ \E t \in Tenants : Sets(t, E(d), rows')
<1> DEFINE e == E(d)
           R == RowsOf(write[d])
           T == TenantsOf(write[d])
<1>1. pc[d] = "mark" /\ e \in Event /\ Effect(e, R, T)
  BY MarkOf DEF mark_processed, SerialInv
<1>2. rows' = R /\ tenants' = T
  BY MarkOf DEF RowsOf, TenantsOf
<1>3. InitialTenants \subseteq T
  BY DEF TenantsOf, SyncInv
<1>4. CASE Ignored(e, R, T)
  <2>1. rows' = rows
    BY <1>2, <1>4 DEF Ignored
  <2>2. history \in Ordered => ~Speaks(e)
    BY <1>1, <1>4, Effective
  <2> QED BY <1>2, <1>3, <2>1, <2>2
<1>5. CASE ~Ignored(e, R, T)
  <2>1. Speaks(e)
    BY <1>1, <1>5 DEF Effect, Subscribed, Registered, Changes, Speaks
  <2>2. \E t \in Tenants : Sets(t, e, R)
    BY <1>1, <1>5, EffectRow DEF IndInv
  <2>3. \A t \in Tenants : Sets(t, e, R) => Sets(t, e, rows')
    BY <1>2 DEF Sets
  <2> QED BY <1>2, <1>3, <2>1, <2>2, <2>3
<1> QED BY <1>4, <1>5

\* After the step, too, the subscription of an event has one row.
LEMMA SetsUnique ==
    ASSUME UniqueRows, NEW e \in Event, NEW t \in Tenants, Sets(t, e, rows'),
           NEW u \in Tenants, rows'[u] # NoRow
    PROVE  rows'[u].sid = e.sid <=> u = t
<1>1. e.sid \in Sids
  BY DEF Event
<1>2. CASE u = t
  BY <1>2 DEF Sets
<1>3. CASE u # t
  <2>1. rows'[u] = rows[u]
    BY <1>3 DEF Sets
  <2>2. ~Mirror!Holds(u, e.sid)
    BY <1>1, <1>3 DEF Sets, UniqueRows, Mirror!Unknown
  <2> QED BY <1>3, <2>1, <2>2 DEF Mirror!Holds
<1> QED BY <1>2, <1>3

LEMMA NextUnique ==
    ASSUME IndInv, SerialInv, SyncInv, [Next]_vars
    PROVE  InitialTenants \subseteq tenants' /\ UniqueRows'
<1>1. CASE UNCHANGED tables
  BY <1>1 DEF tables, UniqueRows, Mirror!Holds, SyncInv
<1>2. ASSUME NEW d \in Workers, mark_processed(d)
      PROVE  InitialTenants \subseteq tenants' /\ UniqueRows'
  <2>1. E(d) \in Event
    BY <1>2, MarkOf
  <2>2. CASE rows' = rows
    BY <1>2, <2>2, MarkedRow DEF UniqueRows, Mirror!Holds, SyncInv
  <2>3. ASSUME NEW t \in Tenants, Sets(t, E(d), rows') PROVE UniqueRows'
    <3>1. \A u \in Tenants : rows'[u] # NoRow => (rows'[u].sid = E(d).sid <=> u = t)
      BY <2>1, <2>3, SetsUnique DEF SyncInv
    <3>2. \A u \in Tenants \ {t} : rows'[u] = rows[u]
      BY <2>3 DEF Sets
    <3> QED BY <3>1, <3>2 DEF UniqueRows, Mirror!Holds, SyncInv
  <2> QED BY <1>2, <2>2, <2>3, MarkedRow
<1> QED BY <1>1, <1>2, TableStep

\* The event whose marker is committed becomes the latest one.
LEMMA MarkedLatest ==
    ASSUME IndInv, SerialInv, SyncInv, history \in Ordered, NEW d \in Workers, mark_processed(d)
    PROVE  /\ ev[d] \in 1 .. Len(history) /\ history' = history
           /\ \A e \in Speaking \cup Planning : e \in Nat /\ e < ev[d]
           /\ Speaking' = Speaking \cup (IF Speaks(E(d)) THEN {ev[d]} ELSE {})
           /\ Planning' = Planning \cup (IF Plans(E(d)) THEN {ev[d]} ELSE {})
<1>1. /\ ev[d] \in 1 .. Len(history) /\ ev[d] \in Nat /\ E(d) = history[ev[d]]
      /\ 1 .. Len(history) \subseteq Events
  <2>1. Len(history) \in Nat /\ Len(history) <= MaxEvents
    BY HistoryAssumption DEF IndInv, TypeOK
  <2> QED BY <2>1, EventOf, HistoryAssumption DEF mark_processed, IndInv, E, Events
<1>2. /\ history' = history /\ processed[ev[d]] = 0 /\ processed'[ev[d]] > 0
      /\ \A e \in Events \ {ev[d]} : processed'[e] = processed[e]
  <2>1. /\ history' = history /\ processed'[ev[d]] = processed[ev[d]] + 1
        /\ \A e \in Events \ {ev[d]} : processed'[e] = processed[e]
    BY MarkOf
  <2>2. processed[ev[d]] = 0
    BY DEF SerialInv, Unmarked, mark_processed
  <2> QED BY <2>1, <2>2
<1>3. \A e \in Speaking \cup Planning : e \in Nat /\ e < ev[d]
  <2> SUFFICES ASSUME NEW e \in 1 .. Len(history), processed[e] > 0, ~ (e < ev[d]) PROVE FALSE
    BY <1>1 DEF Speaking, Planning
  <2>1. ev[d] \in 1 .. e - 1
    BY <1>1, <1>2
  <2> QED BY <1>1, <1>2, <2>1 DEF SyncInv, InOrder
<1>4. /\ Speaking' = Speaking \cup (IF Speaks(E(d)) THEN {ev[d]} ELSE {})
      /\ Planning' = Planning \cup (IF Plans(E(d)) THEN {ev[d]} ELSE {})
  BY <1>1, <1>2 DEF Speaking, Planning
<1> QED BY <1>1, <1>2, <1>3, <1>4

LEMMA PlansSpeaks ==
    ASSUME NEW e, Plans(e)
    PROVE  Speaks(e)
  BY DEF Plans, Speaks

LEMMA NextAgreed ==
    ASSUME IndInv, SerialInv, SyncInv, history \in Ordered, [Next]_vars
    PROVE  Agreed'
<1>1. CASE UNCHANGED tables
  <2>1. history' = history
    BY TableStep
  <2>2. Speaking' = Speaking /\ Planning' = Planning
    BY <1>1, <2>1 DEF Speaking, Planning, tables
  <2> QED BY <1>1, <2>1, <2>2 DEF SyncInv, Agreed, Latest, Mirror!Holds, tables
<1>2. ASSUME NEW d \in Workers, mark_processed(d) PROVE Agreed'
  <2> DEFINE e == E(d)
  <2> PICK x \in 1 .. Len(history) : x = ev[d]
    BY <1>2, MarkedLatest
  <2>1. /\ history' = history /\ e = history[x] /\ e \in Event /\ x \in Nat
        /\ \A f \in Speaking \cup Planning : f \in Nat /\ f < x
        /\ Speaking' = Speaking \cup (IF Speaks(e) THEN {x} ELSE {})
        /\ Planning' = Planning \cup (IF Plans(e) THEN {x} ELSE {})
        /\ Planning \subseteq Speaking
    BY <1>2, MarkedLatest, MarkOf, PlansSpeaks DEF E, Planning, Speaking
  <2> HIDE DEF e
  <2>2. CASE rows' = rows /\ ~Speaks(e)
    BY <2>1, <2>2, PlansSpeaks DEF SyncInv, Agreed, Latest, Mirror!Holds
  <2>3. ASSUME Speaks(e), NEW t \in Tenants, Sets(t, e, rows') PROVE Agreed'
    <3>1. \A u \in Tenants : rows'[u] # NoRow => (rows'[u].sid = e.sid <=> u = t)
      BY <2>1, <2>3, SetsUnique DEF SyncInv
    <3>2. ASSUME NEW f \in Speaking' PROVE \E u \in Tenants : Mirror!Holds(u, history[f].sid)'
      <4>1. CASE f = x
        BY <2>1, <2>3, <4>1 DEF Sets, Mirror!Holds
      <4>2. CASE f # x
        <5>1. PICK u \in Tenants : Mirror!Holds(u, history[f].sid)
          BY <2>1, <3>2, <4>2 DEF SyncInv, Agreed
        <5> QED BY <2>1, <5>1, TablesGrow DEF Mirror!Holds
      <4> QED BY <4>1, <4>2
    <3>3. ASSUME NEW f \in Events, NEW u \in Tenants, Latest(f, Speaking)',
                 Mirror!Holds(u, history[f].sid)'
          PROVE  rows'[u].status = NewStatus(history[f])
      <4>1. CASE f = x
        BY <2>1, <2>3, <3>1, <3>3, <4>1 DEF Sets, Mirror!Holds
      <4>2. CASE f # x
        <5>1. f \in Speaking /\ history[f].sid # e.sid /\ Latest(f, Speaking)
          BY <2>1, <2>3, <3>3, <4>2 DEF Latest
        <5>2. rows'[u] = rows[u]
          BY <2>1, <2>3, <3>3, <5>1 DEF Sets, Mirror!Holds
        <5> QED BY <2>1, <3>3, <5>1, <5>2 DEF SyncInv, Agreed, Mirror!Holds
      <4> QED BY <4>1, <4>2
    <3>4. ASSUME NEW f \in Events, NEW u \in Tenants, Latest(f, Planning)',
                 Mirror!Holds(u, history[f].sid)'
          PROVE  rows'[u].plan = NewPlan(history[f])
      <4>1. CASE Plans(e) /\ f = x
        BY <2>1, <2>3, <3>1, <3>4, <4>1 DEF Sets, Mirror!Holds
      <4>2. CASE ~ (Plans(e) /\ f = x)
        <5>1. f \in Planning /\ f < x /\ Latest(f, Planning)
          BY <2>1, <3>4, <4>2 DEF Latest
        <5>2. history[f].sid = e.sid => ~Plans(e)
          BY <2>1, <3>4, <5>1 DEF Latest
        <5>3. CASE history[f].sid # e.sid
          <6>1. rows'[u] = rows[u]
            BY <2>1, <2>3, <3>4, <5>3 DEF Sets, Mirror!Holds
          <6> QED BY <2>1, <3>4, <5>1, <6>1 DEF SyncInv, Agreed, Mirror!Holds
        <5>4. CASE history[f].sid = e.sid
          <6>1. u = t
            BY <2>1, <3>1, <3>4, <5>4 DEF Mirror!Holds
          <6>2. Mirror!Holds(t, e.sid)
            BY <2>1, <2>3, <5>1, <5>4 DEF SyncInv, Agreed, Sets, Mirror!Unknown
          <6>3. rows'[t].plan = rows[t].plan
            BY <2>3, <5>2, <5>4, <6>2 DEF Sets
          <6> QED BY <5>1, <5>4, <6>1, <6>2, <6>3 DEF SyncInv, Agreed
        <5> QED BY <5>3, <5>4
      <4> QED BY <4>1, <4>2
    <3> QED BY <2>1, <3>2, <3>3, <3>4 DEF Agreed
  <2> QED BY <1>2, <2>2, <2>3, MarkedRow DEF e
<1> QED BY <1>1, <1>2, TableStep

----
\* Theorems.

\* At every moment of an ordered delivery the rows agree with the events processed so
\* far, which are the first of the history (webhook.py:109-131).
THEOREM SyncInvariant ==
    ASSUME Serial
    PROVE  Spec => []SyncInv
<1>1. Init => SyncInv
  <2> SUFFICES ASSUME Init PROVE SyncInv
    OBVIOUS
  <2>1. \A e \in Events : processed[e] = 0
    BY DEF Init
  <2>2. 1 .. Len(history) \subseteq Events
    <3>1. Len(history) \in Nat /\ Len(history) <= MaxEvents
      BY HistoryAssumption DEF Init
    <3> QED BY <3>1, HistoryAssumption DEF Events
  <2>3. Speaking = {} /\ Planning = {}
    BY <2>1, <2>2 DEF Speaking, Planning
  <2>4. InOrder /\ Agreed
    BY <2>1, <2>3 DEF Init, InOrder, Agreed, Latest
  <2>5. InitialTenants \subseteq tenants /\ UniqueRows
    BY UniqueAssumption DEF Init, UniqueRows, Mirror!Holds
  <2> QED BY <2>4, <2>5 DEF SyncInv
<1>2. IndInv /\ SerialInv /\ SyncInv /\ [Next]_vars => SyncInv'
  <2> SUFFICES ASSUME IndInv, SerialInv, SyncInv, [Next]_vars PROVE SyncInv'
    OBVIOUS
  <2>1. history' = history
    BY TableStep
  <2> QED BY <2>1, NextUnique, NextInOrder, NextAgreed DEF SyncInv
<1> QED BY <1>1, <1>2, Invariant, SerialInvariant, PTL DEF Spec

\* When the deliveries neither overlap nor overtake each other and all of Stripe's
\* events are acknowledged, every subscription has the status and the plan of the
\* last events that speak of them, through redelivery, failures and crashes
\* (webhook.py:185-417).
THEOREM AgreesWithStripe ==
    ASSUME Serial
    PROVE  Spec => []InSync
<1>1. IndInv /\ SyncInv => InSync
  <2> SUFFICES ASSUME IndInv, SyncInv, history \in Ordered, acked = 1 .. Len(history),
                      NEW e \in 1 .. Len(history)
               PROVE  LET same    == {f \in 1 .. Len(history) : history[f].sid = history[e].sid}
                          t       == get_by_stripe_id(history[e].sid)
                          speaks  == {f \in same : history[f].kind # "other"}
                          planned == {f \in same : /\ history[f].kind \in {"checkout", "updated"}
                                                  /\ NewPlan(history[f]) # Keep}
                      IN  /\ (e \in speaks /\ \A f \in speaks : f <= e)
                                 => t # NoTenant /\ rows[t].status = NewStatus(history[e])
                          /\ (e \in planned /\ \A f \in planned : f <= e)
                                 => t # NoTenant /\ rows[t].plan = NewPlan(history[e])
    BY DEF InSync
  <2> DEFINE same    == {f \in 1 .. Len(history) : history[f].sid = history[e].sid}
             speaks  == {f \in same : history[f].kind # "other"}
             planned == {f \in same : /\ history[f].kind \in {"checkout", "updated"}
                                     /\ NewPlan(history[f]) # Keep}
             t       == get_by_stripe_id(history[e].sid)
  <2>1. e \in Events
    <3>1. Len(history) \in Nat /\ Len(history) <= MaxEvents
      BY HistoryAssumption DEF IndInv, TypeOK
    <3> QED BY <3>1, HistoryAssumption DEF Events
  <2>2. /\ Speaking = {f \in 1 .. Len(history) : Speaks(history[f])}
        /\ Planning = {f \in 1 .. Len(history) : Plans(history[f])}
    BY DEF Speaking, Planning, IndInv, AckedIsProcessed
  <2>3. Speaks(history[e]) => t # NoTenant /\ t \in Tenants /\ Mirror!Holds(t, history[e].sid)
    BY <2>2, HoldsUnknown DEF SyncInv, Agreed, Mirror!Unknown
  <2>4. (e \in speaks /\ \A f \in speaks : f <= e) => Speaks(history[e]) /\ Latest(e, Speaking)
    BY <2>2 DEF Latest, Speaks
  <2>5. (e \in planned /\ \A f \in planned : f <= e) => Speaks(history[e]) /\ Latest(e, Planning)
    BY <2>2, PlansSpeaks DEF Latest, Plans
  <2>6. (e \in speaks /\ \A f \in speaks : f <= e)
            => t # NoTenant /\ rows[t].status = NewStatus(history[e])
    BY <2>1, <2>3, <2>4 DEF SyncInv, Agreed
  <2>7. (e \in planned /\ \A f \in planned : f <= e)
            => t # NoTenant /\ rows[t].plan = NewPlan(history[e])
    BY <2>1, <2>3, <2>5 DEF SyncInv, Agreed
  <2> QED BY <2>6, <2>7
<1> QED BY <1>1, Invariant, SyncInvariant, PTL

====
