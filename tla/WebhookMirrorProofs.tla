---- MODULE WebhookMirrorProofs ----
(***************************************************************************)
(* Where deliveries do not overlap, the webhook implements the abstract    *)
(* SubscriptionMirror.                                                     *)
(***************************************************************************)
EXTENDS WebhookProofs

Serial == \A d, o \in Workers : d = o

----
\* What the handler of an event has read, and what its write will do.

\* The tables after the commit of a write.
RowsOf(w) == IF w = NoWrite THEN rows ELSE Apply(w)
TenantsOf(w) == IF w = NoWrite THEN tenants ELSE tenants \cup ({w.create} \ {NoTenant})

\* The mirror's step for an event, with the tables R and T that result.
Subscribed(e, R, T) ==
    /\ e.kind = "checkout"
    /\ e.tenant = NoTenant => e.customer \notin tenants
    /\ e.tenant # NoTenant => e.tenant \in tenants
    /\ \E t \in Tenants :
        /\ \/ Mirror!Holds(t, e.sid)
           \/ Mirror!Unknown(e.sid) /\ t = Owner(e) /\ rows[t] = NoRow
        /\ R = [rows EXCEPT ![t] = [sid |-> e.sid, status |-> "active", plan |-> NewPlan(e)]]
    /\ T = tenants \cup {Owner(e)}

Registered(e, R, T) ==
    /\ e.kind = "created"
    /\ Mirror!Unknown(e.sid)
    /\ e.status # "unknown"
    /\ e.tenant \in tenants /\ rows[e.tenant] = NoRow
    /\ R = [rows EXCEPT ![e.tenant] = [sid |-> e.sid, status |-> e.status, plan |-> NewPlan(e)]]
    /\ T = tenants

Changes(e, R, T) ==
    /\ e.kind \in Kinds \ {"checkout", "other"}
    /\ NewStatus(e) # "unknown"
    /\ \E t \in Tenants :
        /\ Mirror!Holds(t, e.sid)
        /\ R = [rows EXCEPT ![t].status = NewStatus(e),
                            ![t].plan = IF e.kind = "updated" /\ e.plan # Keep THEN e.plan ELSE @]
    /\ T = tenants

Ignored(e, R, T) ==
    /\ \/ e.kind = "other"
       \/ e.kind \notin {"checkout", "created"} /\ Mirror!Unknown(e.sid)
       \/ e.kind = "checkout" /\ e.tenant \notin tenants \cup {NoTenant}
    /\ R = rows /\ T = tenants

Effect(e, R, T) ==
    Subscribed(e, R, T) \/ Registered(e, R, T) \/ Changes(e, R, T) \/ Ignored(e, R, T)

\* Nothing comes between what a delivery has read and its commit.
Fresh(d) ==
    /\ found[d] = get_by_stripe_id(E(d).sid)
    /\ seen[d] = IF found[d] = NoTenant THEN NoRow ELSE rows[found[d]]
    /\ E(d).kind # "other"
    /\ E(d).kind \in {"payment_succeeded", "payment_failed", "updated", "deleted"} => found[d] # NoTenant
    /\ E(d).kind = "checkout" => E(d).tenant \in tenants \cup {NoTenant}

SerialInv ==
    /\ Unmarked
    /\ \A d \in Workers :
        /\ pc[d] = "write" => Fresh(d)
        /\ pc[d] = "mark" => Effect(E(d), RowsOf(write[d]), TenantsOf(write[d]))

----
\* The handlers do what the mirror does.

LEMMA HoldsUnknown ==
    ASSUME NEW sid
    PROVE  LET t == get_by_stripe_id(sid)
           IN  /\ t # NoTenant => t \in Tenants /\ Mirror!Holds(t, sid)
               /\ t = NoTenant => Mirror!Unknown(sid)
  BY RowOfId DEF Mirror!Holds, Mirror!Unknown

LEMMA ReadEffect ==
    ASSUME TypeOK, EvInv, NEW d \in Workers, Read(d), write[d] = NoWrite
    PROVE  \/ pc'[d] = "mark" /\ Effect(E(d), rows, tenants)
           \/ pc'[d] = "write" /\ Fresh(d)'
<1> DEFINE t == get_by_stripe_id(E(d).sid)
           nothing == \/ E(d).kind = "other"
                      \/ /\ E(d).kind \in {"payment_succeeded", "payment_failed", "updated", "deleted"}
                         /\ t = NoTenant
                      \/ /\ E(d).kind = "checkout"
                         /\ E(d).tenant # NoTenant /\ E(d).tenant \notin tenants
<1>1. E(d) \in Event
  BY EventOf DEF Read
<1>2. pc'[d] = IF nothing THEN "mark" ELSE "write"
  BY DEF Read, Goto, TypeOK
<1>3. CASE nothing
  <2>1. t = NoTenant => Mirror!Unknown(E(d).sid)
    BY HoldsUnknown
  <2>2. Ignored(E(d), rows, tenants)
    BY <1>3, <2>1 DEF Ignored
  <2> QED BY <1>2, <1>3, <2>2 DEF Effect
<1>4. CASE ~nothing
  <2>1. /\ ev'[d] = ev[d] /\ history' = history /\ rows' = rows /\ tenants' = tenants
        /\ found'[d] = t /\ seen'[d] = IF t = NoTenant THEN NoRow ELSE rows[t]
    BY DEF Read, TypeOK, tables, stripe
  <2>2. E(d)' = E(d) /\ get_by_stripe_id(E(d).sid)' = t
    BY <2>1 DEF E, get_by_stripe_id
  <2> HIDE DEF t
  <2> QED BY <1>2, <1>4, <2>1, <2>2 DEF Fresh
<1> QED BY <1>3, <1>4

\* Of an update, the write that is left out when nothing changes included.
LEMMA UpdateEffect ==
    ASSUME TypeOK, NEW d \in Workers, E(d) \in Event, Fresh(d), found[d] # NoTenant,
           E(d).kind # "checkout", NewStatus(E(d)) # "unknown"
    PROVE  /\ Changes(E(d), Apply(Update(d)), tenants)
           /\ Update(d).status = Keep /\ Update(d).plan = Keep => Changes(E(d), rows, tenants)
           /\ Update(d).create = NoTenant
<1> DEFINE e == E(d)
           w == Update(d)
           t == found[d]
           old == rows[t]
           plan == IF e.kind = "updated" /\ e.plan # Keep THEN e.plan ELSE old.plan
           row == [old EXCEPT !.status = NewStatus(e), !.plan = plan]
<1>1. t \in Tenants /\ Mirror!Holds(t, e.sid) /\ seen[d] = old /\ old \in Row
  BY HoldsUnknown DEF Fresh, TypeOK, Mirror!Holds
<1>2. e.kind \in Kinds \ {"checkout", "other"} /\ NewStatus(e) \in Statuses
  BY StatusOf DEF Fresh, Event
<1>3. /\ old.status \in Statuses /\ old.plan \in Tiers /\ e.plan \in Tiers \cup {Keep}
      /\ old.status # Keep /\ old.plan # Keep /\ NewStatus(e) # Keep
  BY <1>1, <1>2 DEF Row, Event, Statuses, Tiers, Keep
<1>4. /\ w.insert = FALSE /\ w.tenant = t /\ w.create = NoTenant
      /\ w.status = Changed(NewStatus(e), old.status)
      /\ w.plan = IF e.kind = "updated" THEN Changed(e.plan, old.plan) ELSE Keep
  BY <1>1, PlanOf DEF Update
<1>5. /\ (IF w.status = Keep THEN old.status ELSE w.status) = NewStatus(e)
      /\ (IF w.plan = Keep THEN old.plan ELSE w.plan) = plan
  BY <1>3, <1>4 DEF Changed
<1>6. /\ Apply(w) = [rows EXCEPT ![t] = row]
      /\ [rows EXCEPT ![t].status = NewStatus(e),
                      ![t].plan = IF e.kind = "updated" /\ e.plan # Keep THEN e.plan ELSE @]
            = [rows EXCEPT ![t] = row]
  <2>1. Apply(w) = [rows EXCEPT ![t] =
          [old EXCEPT !.status = IF w.status = Keep THEN old.status ELSE w.status,
                      !.plan = IF w.plan = Keep THEN old.plan ELSE w.plan]]
    BY <1>1, <1>4 DEF Apply, TypeOK, Row
  <2>2. [rows EXCEPT ![t].status = NewStatus(e),
                     ![t].plan = IF e.kind = "updated" /\ e.plan # Keep THEN e.plan ELSE @]
            = [rows EXCEPT ![t] = row]
    BY <1>1 DEF TypeOK, Row
  <2> QED BY <1>5, <2>1, <2>2
<1>7. w.status = Keep /\ w.plan = Keep => [rows EXCEPT ![t] = row] = rows
  <2> SUFFICES ASSUME w.status = Keep, w.plan = Keep PROVE [rows EXCEPT ![t] = row] = rows
    OBVIOUS
  <2>1. old.status = NewStatus(e) /\ old.plan = plan
    BY <1>5
  <2>2. row = old
    BY <1>1, <2>1 DEF Row
  <2> QED BY <1>1, <2>2 DEF TypeOK
<1> QED BY <1>1, <1>2, <1>4, <1>6, <1>7 DEF Changes

LEMMA RowExcept ==
    ASSUME NEW old \in Row, NEW status, NEW plan
    PROVE  [old EXCEPT !.status = status, !.plan = plan]
              = [sid |-> old.sid, status |-> status, plan |-> plan]
<1> DEFINE new == [old EXCEPT !.status = status, !.plan = plan]
<1>1. new \in [sid : Sids \cup {NoSid}, status : {status}, plan : {plan}] /\ new.sid = old.sid
  BY DEF Row
<1> HIDE DEF new
<1>2. new = [sid |-> new.sid, status |-> new.status, plan |-> new.plan]
  BY <1>1
<1>3. new = [sid |-> old.sid, status |-> status, plan |-> plan]
  BY <1>1, <1>2
<1> QED BY <1>3 DEF new

LEMMA UpsertEffect ==
    ASSUME TypeOK, NEW d \in Workers, E(d) \in Event, Fresh(d), upsert_from_stripe(d)
    PROVE  \/ Raise(d)
           \/ \E w \in Write : Wrote(d, w) /\ Effect(E(d), Apply(w), TenantsOf(w))
<1> DEFINE e == E(d)
           w == Insert(d)
           t == get_by_stripe_id(w.sid)
           u == [w EXCEPT !.tenant = t, !.insert = FALSE]
           row == [sid |-> e.sid, status |-> "active", plan |-> NewPlan(e)]
<1> USE NullAssumption
<1>1. e.kind = "checkout" /\ NewStatus(e) = "active"
  BY StatusOf DEF upsert_from_stripe
<1>2. /\ w \in Write /\ w.insert = TRUE /\ w.sid = e.sid /\ w.tenant = Owner(e)
      /\ w.status = "active" /\ w.plan = NewPlan(e)
      /\ w.plan # Keep /\ w.status # Keep
  BY <1>1, InsertOf, PlanOf DEF Statuses, Keep
<1>3. w.create = IF e.tenant = NoTenant THEN e.customer ELSE NoTenant
  BY <1>1 DEF Insert
<1>4. e.tenant \in tenants \cup {NoTenant} /\ e.customer \in Tenants /\ Owner(e) \in Tenants
  BY <1>1 DEF Fresh, Event, Owner, TypeOK
<1> HIDE DEF w
<1>5. CASE w.create \in tenants
  BY <1>5, <1>3, <1>2 DEF upsert_from_stripe, Wrote, w, TypeOK
<1>6. CASE w.create \notin tenants
  <2>1. /\ e.tenant = NoTenant => e.customer \notin tenants
        /\ e.tenant # NoTenant => e.tenant \in tenants
        /\ tenants \cup ({w.create} \ {NoTenant}) = tenants \cup {Owner(e)}
    BY <1>3, <1>4, <1>6 DEF Owner
  <2>2. CASE t = NoTenant /\ rows[w.tenant] = NoRow /\ Wrote(d, w)
    <3>1. Apply(w) = [rows EXCEPT ![Owner(e)] = row]
      BY <1>2 DEF Apply
    <3>2. Mirror!Unknown(e.sid)
      BY <1>2, <2>2, HoldsUnknown
    <3>3. w # NoWrite
      BY <1>2, DeliveryAssumption
    <3>4. Subscribed(e, Apply(w), TenantsOf(w))
      BY <1>1, <1>2, <1>4, <2>1, <2>2, <3>1, <3>2, <3>3 DEF Subscribed, TenantsOf
    <3> QED BY <1>2, <2>2, <3>4 DEF Effect
  <2>3. CASE t # NoTenant /\ Wrote(d, u)
    <3>1. t \in Tenants /\ Mirror!Holds(t, e.sid)
      BY <1>2, <2>3, HoldsUnknown
    <3>2. u \in Write
      BY <1>2, <3>1 DEF Write
    <3>3. /\ u.insert = FALSE /\ u.tenant = t /\ u.create = w.create
          /\ u.status = "active" /\ u.plan = NewPlan(e) /\ u.plan # Keep /\ u.status # Keep
      BY <1>2 DEF Write
    <3>4. u # NoWrite
      BY <3>2, DeliveryAssumption
    <3>5. rows[t] \in Row /\ rows[t].sid = e.sid
      BY <3>1 DEF TypeOK, Mirror!Holds
    <3> HIDE DEF u, t
    <3>6. Apply(u) = [rows EXCEPT ![t] = row]
      <4>1. Apply(u) = [rows EXCEPT ![t] = [rows[t] EXCEPT !.status = "active", !.plan = NewPlan(e)]]
        BY <3>1, <3>3, <3>5 DEF Apply, TypeOK, Row
      <4>2. [rows[t] EXCEPT !.status = "active", !.plan = NewPlan(e)] = row
        BY <3>5, RowExcept
      <4> QED BY <4>1, <4>2
    <3>7. Subscribed(e, Apply(u), TenantsOf(u))
      BY <1>1, <2>1, <3>1, <3>3, <3>4, <3>6 DEF Subscribed, TenantsOf
    <3> QED BY <2>3, <3>2, <3>7 DEF Effect
  <2> QED BY <1>6, <2>2, <2>3 DEF upsert_from_stripe, w
<1> QED BY <1>5, <1>6

LEMMA CreateEffect ==
    ASSUME TypeOK, NEW d \in Workers, E(d) \in Event, CreateRow(d)
    PROVE  \/ Raise(d)
           \/ \E w \in Write : Wrote(d, w) /\ Effect(E(d), Apply(w), TenantsOf(w))
<1> DEFINE e == E(d)
           w == Insert(d)
<1> USE NullAssumption
<1>1. CASE e.status = "unknown" \/ e.tenant \notin tenants
  BY <1>1 DEF CreateRow
<1>2. CASE e.status # "unknown" /\ e.tenant \in tenants
  <2>1. e.kind = "created" /\ NewStatus(e) = e.status
    BY StatusOf DEF CreateRow
  <2>2. /\ w \in Write /\ w.insert = TRUE /\ w.sid = e.sid /\ w.tenant = e.tenant
        /\ w.status = e.status /\ w.plan = NewPlan(e) /\ w.create = NoTenant
    <3>1. w.create = NoTenant
      BY <2>1 DEF Insert
    <3>2. Owner(e) = e.tenant
      BY <1>2 DEF Owner, TypeOK
    <3> QED BY <1>2, <2>1, <3>1, <3>2, InsertOf
  <2> HIDE DEF w
  <2>3. CASE rows[w.tenant] = NoRow /\ get_by_stripe_id(w.sid) = NoTenant /\ Wrote(d, w)
    <3>1. Apply(w) = [rows EXCEPT ![e.tenant] =
                        [sid |-> e.sid, status |-> e.status, plan |-> NewPlan(e)]]
      BY <2>2 DEF Apply
    <3>2. Mirror!Unknown(e.sid) /\ w # NoWrite
      BY <2>2, <2>3, HoldsUnknown, DeliveryAssumption
    <3>3. Registered(e, Apply(w), TenantsOf(w))
      BY <1>2, <2>1, <2>2, <2>3, <3>1, <3>2 DEF Registered, TenantsOf
    <3> QED BY <2>2, <2>3, <3>3 DEF Effect
  <2> QED BY <1>2, <2>3 DEF CreateRow, w
<1> QED BY <1>1, <1>2

LEMMA HandlersEffect ==
    ASSUME IndInv, NEW d \in Workers, Fresh(d),
           UpdateRow(d) \/ upsert_from_stripe(d) \/ CreateRow(d)
    PROVE  \/ Raise(d)
           \/ Wrote(d, NoWrite) /\ Effect(E(d), rows, tenants)
           \/ \E w \in Write : Wrote(d, w) /\ Effect(E(d), Apply(w), TenantsOf(w))
<1>1. E(d) \in Event
  BY EventOf DEF IndInv, UpdateRow, upsert_from_stripe, CreateRow
<1>2. CASE UpdateRow(d) /\ NewStatus(E(d)) # "unknown"
  <2> DEFINE w == Update(d)
  <2>1. /\ Changes(E(d), Apply(w), tenants)
        /\ w.status = Keep /\ w.plan = Keep => Changes(E(d), rows, tenants)
        /\ w.create = NoTenant
    BY <1>1, <1>2, UpdateEffect DEF UpdateRow, IndInv
  <2>2. w \in Write
    BY <1>1, <1>2, UpdateOf DEF UpdateRow, IndInv, TypeOK, PhaseInv
  <2>3. w # NoWrite /\ TenantsOf(w) = tenants
    BY <2>1, <2>2, DeliveryAssumption DEF TenantsOf
  <2> HIDE DEF w
  <2> QED BY <1>2, <2>1, <2>2, <2>3 DEF UpdateRow, Effect, w
<1>3. CASE UpdateRow(d) /\ NewStatus(E(d)) = "unknown"
  BY <1>3 DEF UpdateRow
<1>4. CASE upsert_from_stripe(d)
  BY <1>1, <1>4, UpsertEffect DEF IndInv
<1>5. CASE CreateRow(d)
  BY <1>1, <1>5, CreateEffect DEF IndInv
<1> QED BY <1>2, <1>3, <1>4, <1>5

----
\* The invariant of a single worker.

LEMMA NextSerial ==
    ASSUME Serial, IndInv, SerialInv, [Next]_vars
    PROVE  SerialInv'
<1> USE DEF IndInv, tables, stripe
<1> SUFFICES ASSUME NEW d \in Workers
             PROVE  /\ pc'[d] = "write" => Fresh(d)'
                    /\ pc'[d] = "mark" => Effect(E(d), RowsOf(write[d]), TenantsOf(write[d]))'
  BY NextUnmarked DEF SerialInv, Serial, Exclusive
<1> DEFINE Goal == /\ pc'[d] = "write" => Fresh(d)'
                   /\ pc'[d] = "mark" => Effect(E(d), RowsOf(write[d]), TenantsOf(write[d]))'
<1>0. \A o \in Workers : o = d
  BY DEF Serial
<1>1. ASSUME Same(d), UNCHANGED tables, history' = history PROVE Goal
  <2>1. E(d)' = E(d) /\ get_by_stripe_id(E(d).sid)' = get_by_stripe_id(E(d).sid)
    BY <1>1 DEF E, Same, get_by_stripe_id
  <2>2. Fresh(d)' <=> Fresh(d)
    BY <1>1, <2>1 DEF Fresh, Same
  <2>3. Effect(E(d), RowsOf(write[d]), TenantsOf(write[d]))'
            <=> Effect(E(d), RowsOf(write[d]), TenantsOf(write[d]))
    BY <1>1, <2>1 DEF Effect, Subscribed, Registered, Changes, Ignored, RowsOf, TenantsOf,
       Apply, Same, Mirror!Holds, Mirror!Unknown
  <2> QED BY <1>1, <2>2, <2>3 DEF SerialInv, Same
<1>2. ASSUME pc'[d] \notin {"read", "write", "mark"} PROVE Goal
  BY <1>2
<1>3. CASE is_processed(d)
  BY <1>2, <1>3 DEF is_processed, Raise, Answer200, Release, Goto, TypeOK
<1>4. CASE Read(d)
  <2>1. /\ pc[d] = "read" /\ ev'[d] = ev[d] /\ processed' = processed /\ write[d] = NoWrite
        /\ write'[d] = NoWrite /\ rows' = rows /\ tenants' = tenants /\ history' = history
    BY <1>4 DEF Read, WriteInv
  <2>2. pc'[d] = "mark" => Effect(E(d), RowsOf(write[d]), TenantsOf(write[d]))'
    <3>1. pc'[d] = "mark" => Effect(E(d), rows, tenants)
      BY <1>4, <2>1, ReadEffect
    <3> QED BY <2>1, <3>1 DEF E, RowsOf, TenantsOf, Effect, Subscribed, Registered, Changes,
            Ignored, Mirror!Holds, Mirror!Unknown
  <2>3. pc'[d] = "write" => Fresh(d)'
    BY <1>4, <2>1, ReadEffect
  <2> QED BY <2>2, <2>3
<1>5. CASE UpdateRow(d) \/ upsert_from_stripe(d) \/ CreateRow(d)
  <2>1. pc[d] = "write" /\ Fresh(d)
    BY <1>5, Handlers DEF SerialInv
  <2>2. CASE Raise(d)
    BY <1>2, <2>2 DEF Raise, Release, TypeOK
  <2>3. ASSUME NEW w \in Write \cup {NoWrite}, Wrote(d, w), Effect(E(d), RowsOf(w), TenantsOf(w))
        PROVE  Goal
    <3>1. /\ pc'[d] = "mark" /\ ev' = ev /\ write'[d] = w
          /\ processed' = processed /\ rows' = rows /\ tenants' = tenants /\ history' = history
      BY <2>3 DEF Wrote, Goto, TypeOK
    <3> DEFINE R == RowsOf(w)
               T == TenantsOf(w)
    <3>2. E(d)' = E(d) /\ RowsOf(write[d])' = R /\ TenantsOf(write[d])' = T
      BY <3>1 DEF E, RowsOf, TenantsOf, Apply
    <3>3. Effect(E(d), R, T)
      BY <2>3
    <3> HIDE DEF R, T
    <3>4. Effect(E(d), RowsOf(write[d]), TenantsOf(write[d]))'
      BY <3>1, <3>2, <3>3 DEF Effect, Subscribed, Registered, Changes, Ignored,
         Mirror!Holds, Mirror!Unknown
    <3> QED BY <2>1, <3>1, <3>4
  <2>4. CASE Wrote(d, NoWrite) /\ Effect(E(d), rows, tenants)
    BY <2>3, <2>4 DEF RowsOf, TenantsOf
  <2>5. ASSUME NEW w \in Write, Wrote(d, w), Effect(E(d), Apply(w), TenantsOf(w)) PROVE Goal
    BY <2>3, <2>5, DeliveryAssumption DEF RowsOf
  <2> QED BY <1>5, <2>1, <2>2, <2>4, <2>5, HandlersEffect
<1>6. CASE mark_processed(d)
  BY <1>2, <1>6 DEF mark_processed, Goto, TypeOK
<1>7. CASE Answer(d) \/ Fails(d)
  BY <1>2, <1>7 DEF Answer, Answer200, Fails, Release, TypeOK
<1>8. ASSUME NEW e \in Events, Deliver(d, e) PROVE Goal
  BY <1>2, <1>8 DEF Deliver, Goto, TypeOK
<1>9. CASE Emit \/ UNCHANGED vars
  BY <1>1, <1>9 DEF Emit, vars, Same
<1>10. CASE Crash
  BY <1>2, <1>10 DEF Crash
<1> QED
  BY <1>0, <1>3, <1>4, <1>5, <1>6, <1>7, <1>8, <1>9, <1>10 DEF Next, Handle

\* Webhook and its mirror speak of the same data.
LEMMA MirrorData ==
    /\ Mirror!Kinds = Kinds /\ Mirror!Keep = Keep
    /\ \A e : /\ Mirror!Owner(e) = Owner(e)
             /\ Mirror!NewStatus(e) = NewStatus(e)
             /\ Mirror!NewPlan(e) = NewPlan(e)
  BY DEF Mirror!Kinds, Kinds, Mirror!Keep, Keep, Mirror!Owner, Owner, Mirror!NewStatus,
     NewStatus, Mirror!NewPlan, NewPlan

\* The commit of a marker is the mirror's step for its event.
LEMMA MirrorStep ==
    ASSUME IndInv, SerialInv, [Next]_vars
    PROVE  [Mirror!Next]_(Mirror!vars)
<1>1. CASE UNCHANGED tables
  <2>1. {e \in Events : processed[e] > 0}' = {e \in Events : processed[e] > 0}
    BY <1>1 DEF tables
  <2> QED BY <1>1, <2>1, TableStep DEF tables, Mirror!vars
<1>2. ASSUME NEW d \in Workers, mark_processed(d) PROVE Mirror!Next
  <2> DEFINE applied == {e \in Events : processed[e] > 0}
  <2>0. ev[d] \in 1 .. Len(history)
    BY <1>2, EventOf DEF mark_processed, IndInv
  <2> PICK x \in 1 .. Len(history) : x = ev[d]
    BY <2>0
  <2>1. /\ x \in 1 .. Len(history) /\ x \in Events /\ E(d) = history[x]
        /\ processed[x] = 0 /\ history' = history
    BY <1>2, EventOf, MarkOf DEF mark_processed, IndInv, SerialInv, Unmarked, E
  <2>2. x \notin applied /\ applied' = applied \cup {x}
    <3>1. processed'[x] = processed[x] + 1 /\ \A e \in Events \ {x} : processed'[e] = processed[e]
      BY <1>2, MarkOf
    <3> QED BY <2>1, <3>1
  <2>3. Effect(history[x], rows', tenants')
    <3>1. Effect(history[x], RowsOf(write[d]), TenantsOf(write[d]))
      BY <1>2, <2>1 DEF SerialInv, mark_processed
    <3>2. rows' = RowsOf(write[d]) /\ tenants' = TenantsOf(write[d])
      BY <1>2, MarkOf DEF RowsOf, TenantsOf
    <3> QED BY <3>1, <3>2
  <2>4. \/ Mirror!Subscribe(history[x]) \/ Mirror!Register(history[x])
        \/ Mirror!Change(history[x]) \/ Mirror!Ignore(history[x])
    BY <2>3, MirrorData DEF Effect, Subscribed, Registered, Changes, Ignored,
       Mirror!Subscribe, Mirror!Register, Mirror!Change, Mirror!Ignore
  <2>5. Mirror!Apply(x)
    BY <2>1, <2>2, <2>4 DEF Mirror!Apply
  <2> QED BY <2>5 DEF Mirror!Next
<1> QED BY <1>1, <1>2, TableStep

----
\* Theorems.

\* Where deliveries do not overlap, nothing changes between a handler's read and its
\* commit, and its write is the mirror's step (webhook.py:109-131).
THEOREM SerialInvariant ==
    ASSUME Serial
    PROVE  Spec => []SerialInv
<1>1. Init => SerialInv
  BY DEF Init, SerialInv, Unmarked
<1>2. IndInv /\ SerialInv /\ [Next]_vars => SerialInv'
  BY NextSerial
<1> QED BY <1>1, <1>2, Invariant, PTL DEF Spec

\* Where deliveries do not overlap, the subscriptions table mirrors Stripe: each
\* event whose marker is committed has been applied once, as a whole, in the
\* order of the commits (webhook.py:109-131).
THEOREM ImplementsMirror ==
    ASSUME Serial
    PROVE  Spec => MirrorSpec
<1>1. Init => Mirror!Init
  <2> SUFFICES ASSUME Init PROVE {e \in Events : processed[e] > 0} = {}
    BY DEF Init, Mirror!Init
  <2> QED BY DEF Init
<1>2. IndInv /\ SerialInv /\ [Next]_vars => [Mirror!Next]_(Mirror!vars)
  BY MirrorStep
<1>3. Spec => Mirror!Spec
  BY <1>1, <1>2, Invariant, SerialInvariant, PTL DEF Spec, Mirror!Spec
<1> QED BY <1>3 DEF MirrorSpec

====
