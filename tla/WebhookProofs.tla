---- MODULE WebhookProofs ----
(***************************************************************************)
(* Theorems about Webhook, for any histories, initial rows and number of   *)
(* workers: deliveries overlap, repeat, overtake each other and fail.      *)
(***************************************************************************)
EXTENDS Webhook, TLAPS

----
\* The inductive invariant.

\* A delivery at work handles an event that Stripe has emitted.
EvInv == \A d \in Workers : pc[d] # "idle" => ev[d] \in 1 .. emitted

\* The row a handler has found keeps its subscription id; the answer follows
\* the commit of the marker.
PhaseInv ==
    \A d \in Workers :
        /\ pc[d] = "write" /\ found[d] # NoTenant =>
               /\ rows[found[d]] # NoRow /\ rows[found[d]].sid = E(d).sid
               /\ seen[d] # NoRow
        /\ pc[d] = "answer" => processed[ev[d]] > 0

\* An uncommitted write says what its event says, of a row that is still absent
\* if it inserts one and still that of its subscription if it updates one.
Fits(w, e) ==
    /\ w.sid = e.sid
    /\ w.status \in {Keep, NewStatus(e)}
    /\ w.plan \in {Keep, NewPlan(e)}
    /\ w.insert => w.status # Keep /\ w.plan # Keep /\ rows[w.tenant] = NoRow
    /\ ~w.insert => rows[w.tenant] # NoRow /\ rows[w.tenant].sid = w.sid

WriteInv == \A d \in Workers : write[d] # NoWrite => pc[d] = "mark" /\ Fits(write[d], E(d))

\* No two uncommitted writes are of the same row.
LockInv ==
    \A d, o \in Workers :
        write[d] # NoWrite /\ write[o] # NoWrite /\ d # o => write[d].tenant # write[o].tenant

IndInv ==
    /\ TypeOK
    /\ EvInv
    /\ PhaseInv
    /\ WriteInv
    /\ LockInv
    /\ AckedIsProcessed
    /\ ColumnsFromEvents

----
\* Events, rows and writes.

LEMMA EventOf ==
    ASSUME TypeOK, EvInv, NEW d \in Workers, pc[d] # "idle"
    PROVE  ev[d] \in 1 .. Len(history) /\ ev[d] \in Events /\ E(d) \in Event
<1>1. history \in Seq(Event) /\ Len(history) \in Nat /\ Len(history) <= MaxEvents
  BY HistoryAssumption DEF TypeOK
<1>2. ev[d] \in 1 .. Len(history)
  BY <1>1 DEF TypeOK, EvInv
<1>3. history[ev[d]] \in Event
  BY <1>1, <1>2
<1> QED BY <1>1, <1>2, <1>3, HistoryAssumption DEF Events, E

LEMMA StatusOf ==
    ASSUME NEW e \in Event
    PROVE  /\ NewStatus(e) \in Statuses \cup {"unknown"}
           /\ e.kind = "checkout" => NewStatus(e) = "active"
           /\ e.kind = "created" => NewStatus(e) = e.status
           /\ NewStatus(e) # Keep
  BY DEF NewStatus, Event, Kinds, Statuses, Keep

LEMMA PlanOf ==
    ASSUME NEW e \in Event
    PROVE  /\ NewPlan(e) \in Tiers \cup {Keep}
           /\ e.kind \in {"checkout", "created"} => NewPlan(e) \in Tiers /\ NewPlan(e) # Keep
           /\ e.kind = "updated" => NewPlan(e) = e.plan
  BY DEF NewPlan, Event, Kinds, Tiers, Keep

LEMMA RowOfId ==
    ASSUME NEW sid
    PROVE  /\ get_by_stripe_id(sid) \in Tenants \cup {NoTenant}
           /\ get_by_stripe_id(sid) # NoTenant =>
                 /\ get_by_stripe_id(sid) \in Tenants
                 /\ rows[get_by_stripe_id(sid)] # NoRow
                 /\ rows[get_by_stripe_id(sid)].sid = sid
           /\ get_by_stripe_id(sid) = NoTenant =>
                 \A t \in Tenants : rows[t] # NoRow => rows[t].sid # sid
<1>1. CASE \E t \in Tenants : rows[t] # NoRow /\ rows[t].sid = sid
  <2> DEFINE t == CHOOSE t \in Tenants : rows[t] # NoRow /\ rows[t].sid = sid
  <2>1. t \in Tenants /\ rows[t] # NoRow /\ rows[t].sid = sid
    BY <1>1
  <2>2. get_by_stripe_id(sid) = t
    BY <1>1 DEF get_by_stripe_id
  <2> QED BY <2>1, <2>2, NullAssumption
<1>2. CASE ~ \E t \in Tenants : rows[t] # NoRow /\ rows[t].sid = sid
  BY <1>2 DEF get_by_stripe_id
<1> QED BY <1>1, <1>2

LEMMA InsertOf ==
    ASSUME NEW d \in Workers, E(d) \in Event, E(d).kind \in {"checkout", "created"},
           NewStatus(E(d)) # "unknown"
    PROVE  /\ Insert(d) \in Write /\ Insert(d).insert = TRUE
           /\ Insert(d).sid = E(d).sid /\ Insert(d).tenant = Owner(E(d))
           /\ Insert(d).status = NewStatus(E(d)) /\ Insert(d).plan = NewPlan(E(d))
           /\ Insert(d).status \in Statuses /\ Insert(d).plan \in Tiers
<1>1. /\ NewStatus(E(d)) \in Statuses /\ NewPlan(E(d)) \in Tiers
      /\ Owner(E(d)) \in Tenants /\ E(d).customer \in Tenants /\ E(d).sid \in Sids
  BY StatusOf, PlanOf DEF Owner, Event
<1> QED BY <1>1 DEF Insert, Write

LEMMA UpdateOf ==
    ASSUME NEW d \in Workers, E(d) \in Event, NewStatus(E(d)) # "unknown",
           found[d] \in Tenants, seen[d] \in Row
    PROVE  /\ Update(d) \in Write /\ Update(d).insert = FALSE
           /\ Update(d).sid = E(d).sid /\ Update(d).tenant = found[d]
           /\ Update(d).status \in {Keep, NewStatus(E(d))}
           /\ Update(d).plan \in {Keep, NewPlan(E(d))}
<1>1. /\ NewStatus(E(d)) \in Statuses /\ NewPlan(E(d)) \in Tiers \cup {Keep}
      /\ E(d).sid \in Sids
  BY StatusOf, PlanOf DEF Event
<1>2. /\ Changed(NewStatus(E(d)), seen[d].status) \in {Keep, NewStatus(E(d))}
      /\ Changed(NewPlan(E(d)), seen[d].plan) \in {Keep, NewPlan(E(d))}
  BY DEF Changed
<1> QED BY <1>1, <1>2 DEF Update, Write

\* What the three handlers do to a delivery that has something to write: an
\* exception, or a write that fits its event and that no other one precludes.
LEMMA Handlers ==
    ASSUME TypeOK, EvInv, PhaseInv, NEW d \in Workers,
           UpdateRow(d) \/ upsert_from_stripe(d) \/ CreateRow(d)
    PROVE  /\ pc[d] = "write"
           /\ \/ Raise(d)
              \/ Wrote(d, NoWrite)
              \/ \E w \in Write : Fits(w, E(d)) /\ Unlocked(d, w) /\ Wrote(d, w)
<1> DEFINE Goal == \/ Raise(d)
                   \/ Wrote(d, NoWrite)
                   \/ \E w \in Write : Fits(w, E(d)) /\ Unlocked(d, w) /\ Wrote(d, w)
<1>0. pc[d] = "write"
  BY DEF UpdateRow, upsert_from_stripe, CreateRow
<1> SUFFICES Goal
  BY <1>0
<1>1. E(d) \in Event
  BY <1>0, EventOf
<1>2. CASE UpdateRow(d)
  <2>1. CASE NewStatus(E(d)) = "unknown"
    BY <1>2, <2>1 DEF UpdateRow
  <2>2. CASE NewStatus(E(d)) # "unknown"
    <3>1. found[d] \in Tenants /\ seen[d] \in Row /\ rows[found[d]] # NoRow
          /\ rows[found[d]].sid = E(d).sid
      BY <1>0, <1>2 DEF UpdateRow, TypeOK, PhaseInv
    <3>2. Update(d) \in Write /\ Fits(Update(d), E(d))
      BY <1>1, <2>2, <3>1, UpdateOf DEF Fits
    <3> QED BY <1>2, <2>2, <3>2 DEF UpdateRow
  <2> QED BY <2>1, <2>2
<1>3. CASE upsert_from_stripe(d)
  <2> DEFINE w == Insert(d)
             t == get_by_stripe_id(w.sid)
             u == [w EXCEPT !.tenant = t, !.insert = FALSE]
  <2>1. E(d).kind = "checkout" /\ NewStatus(E(d)) # "unknown"
    BY <1>1, <1>3, StatusOf DEF upsert_from_stripe
  <2>2. /\ w \in Write /\ w.insert = TRUE /\ w.sid = E(d).sid
        /\ w.status = NewStatus(E(d)) /\ w.plan = NewPlan(E(d))
        /\ w.status # Keep /\ w.plan # Keep
    BY <1>1, <2>1, InsertOf, StatusOf, PlanOf
  <2> HIDE DEF w
  <2>3. CASE t = NoTenant /\ rows[w.tenant] = NoRow /\ Wrote(d, w)
    <3>1. Fits(w, E(d)) /\ Unlocked(d, w)
      BY <1>3, <2>2, <2>3 DEF Fits, upsert_from_stripe, w
    <3> QED BY <2>2, <2>3, <3>1
  <2>4. CASE t # NoTenant /\ Unlocked(d, [w EXCEPT !.tenant = t]) /\ Wrote(d, u)
    <3>1. t \in Tenants /\ rows[t] # NoRow /\ rows[t].sid = w.sid
      BY <2>4, RowOfId
    <3>2. u \in Write
      BY <2>2, <3>1 DEF Write
    <3>3. /\ u.insert = FALSE /\ u.tenant = t /\ u.sid = w.sid /\ u.create = w.create
          /\ u.status = w.status /\ u.plan = w.plan
      BY <2>2 DEF Write
    <3>4. [w EXCEPT !.tenant = t].tenant = t /\ [w EXCEPT !.tenant = t].sid = w.sid
          /\ [w EXCEPT !.tenant = t].create = w.create
      BY <2>2 DEF Write
    <3>5. Unlocked(d, u)
      BY <2>4, <3>3, <3>4 DEF Unlocked
    <3>6. Fits(u, E(d))
      BY <2>2, <3>1, <3>3 DEF Fits
    <3> QED BY <2>4, <3>2, <3>5, <3>6
  <2> QED BY <1>3, <2>3, <2>4 DEF upsert_from_stripe, w
<1>4. CASE CreateRow(d)
  <2> DEFINE w == Insert(d)
  <2>1. CASE E(d).status = "unknown" \/ E(d).tenant \notin tenants
    BY <1>4, <2>1 DEF CreateRow
  <2>2. CASE E(d).status # "unknown" /\ E(d).tenant \in tenants
    <3>1. E(d).kind = "created" /\ NewStatus(E(d)) # "unknown"
      BY <1>1, <1>4, <2>2, StatusOf DEF CreateRow
    <3>2. /\ w \in Write /\ w.insert = TRUE /\ w.sid = E(d).sid
          /\ w.status = NewStatus(E(d)) /\ w.plan = NewPlan(E(d))
          /\ w.status # Keep /\ w.plan # Keep
      BY <1>1, <3>1, InsertOf, StatusOf, PlanOf
    <3>3. CASE Raise(d)
      BY <3>3
    <3>4. CASE rows[w.tenant] = NoRow /\ Wrote(d, w)
      <4>1. Fits(w, E(d)) /\ Unlocked(d, w)
        BY <1>4, <2>2, <3>2, <3>4 DEF Fits, CreateRow
      <4> QED BY <3>2, <3>4, <4>1
    <3> QED BY <1>4, <2>2, <3>3, <3>4 DEF CreateRow
  <2> QED BY <2>1, <2>2
<1> QED BY <1>2, <1>3, <1>4

----
\* Each step preserves each part.

LEMMA InitInv == Init => IndInv
<1> SUFFICES ASSUME Init PROVE IndInv
  OBVIOUS
<1> USE HistoryAssumption, DeliveryAssumption, NullAssumption DEF Init
<1>1. TypeOK
  <2>1. Len(history) \in Nat
    OBVIOUS
  <2> QED BY <2>1 DEF TypeOK
<1>2. EvInv /\ PhaseInv /\ WriteInv /\ LockInv /\ AckedIsProcessed
  BY DEF EvInv, PhaseInv, WriteInv, LockInv, AckedIsProcessed
<1>3. ColumnsFromEvents
  BY DEF ColumnsFromEvents
<1> QED BY <1>1, <1>2, <1>3 DEF IndInv

\* A row after the write is applied: still a row, of the same subscription if
\* there was one, with columns as before or as the event says.
LEMMA ApplyOf ==
    ASSUME TypeOK, NEW e \in Event, NEW w \in Write, Fits(w, e)
    PROVE  /\ Apply(w) \in [Tenants -> Row \cup {NoRow}]
           /\ \A t \in Tenants \ {w.tenant} : Apply(w)[t] = rows[t]
           /\ Apply(w)[w.tenant] # NoRow /\ Apply(w)[w.tenant].sid = e.sid
           /\ rows[w.tenant] # NoRow => rows[w.tenant].sid = e.sid
           /\ \/ Apply(w)[w.tenant].status = NewStatus(e)
              \/ rows[w.tenant] # NoRow /\ Apply(w)[w.tenant].status = rows[w.tenant].status
           /\ \/ Apply(w)[w.tenant].plan = NewPlan(e)
              \/ rows[w.tenant] # NoRow /\ Apply(w)[w.tenant].plan = rows[w.tenant].plan
<1> USE NullAssumption DEF TypeOK, Fits
<1>1. /\ w.tenant \in Tenants /\ w.sid \in Sids /\ w.insert \in BOOLEAN
      /\ w.status \in Statuses \cup {Keep} /\ w.plan \in Tiers \cup {Keep}
  BY DEF Write
<1>2. CASE w.insert
  <2> DEFINE row == [sid |-> w.sid, status |-> w.status, plan |-> w.plan]
  <2>1. row \in Row
    BY <1>1, <1>2 DEF Row
  <2>2. Apply(w) = [rows EXCEPT ![w.tenant] = row]
    BY <1>2 DEF Apply
  <2> QED BY <1>1, <1>2, <2>1, <2>2
<1>3. CASE ~w.insert
  <2> DEFINE old == rows[w.tenant]
             row == [old EXCEPT !.status = IF w.status = Keep THEN @ ELSE w.status,
                                !.plan = IF w.plan = Keep THEN @ ELSE w.plan]
  <2>1. old \in Row /\ old.sid = w.sid
    BY <1>1, <1>3
  <2>2. Apply(w) = [rows EXCEPT ![w.tenant] = row]
    BY <1>1, <1>3 DEF Apply
  <2> HIDE DEF old
  <2>3. /\ row \in Row /\ row.sid = w.sid
        /\ row.status = IF w.status = Keep THEN old.status ELSE w.status
        /\ row.plan = IF w.plan = Keep THEN old.plan ELSE w.plan
    BY <1>1, <2>1 DEF Row
  <2> HIDE DEF row
  <2>4. Apply(w)[w.tenant] = row
    BY <1>1, <2>2
  <2> QED BY <1>1, <1>3, <2>1, <2>2, <2>3, <2>4 DEF old
<1> QED BY <1>2, <1>3

\* The tables move only when a marker is committed, and then as its delivery
\* has written.
LEMMA TableStep ==
    ASSUME [Next]_vars
    PROVE  /\ history' = history
           /\ UNCHANGED tables \/ \E d \in Workers : mark_processed(d)
<1> USE DEF tables, stripe
<1>1. ASSUME NEW d \in Workers, Handle(d) \/ Fails(d), ~mark_processed(d)
      PROVE  history' = history /\ UNCHANGED tables
  BY <1>1 DEF Handle, is_processed, Read, UpdateRow, upsert_from_stripe, CreateRow, Answer,
     Fails, Raise, Answer200, Wrote
<1>2. ASSUME NEW d \in Workers, NEW e \in Events, Deliver(d, e)
      PROVE  history' = history /\ UNCHANGED tables
  BY <1>2 DEF Deliver
<1>3. CASE Emit \/ Crash \/ UNCHANGED vars
  BY <1>3 DEF Emit, Crash, vars
<1>4. ASSUME NEW d \in Workers, mark_processed(d) PROVE history' = history
  BY <1>4 DEF mark_processed
<1> QED BY <1>1, <1>2, <1>3, <1>4 DEF Next

\* What mark_processed does to the tables.
LEMMA MarkOf ==
    ASSUME IndInv, NEW d \in Workers, mark_processed(d)
    PROVE  /\ ev[d] \in Events /\ E(d) \in Event /\ history' = history
           /\ processed' \in [Events -> Nat]
           /\ processed'[ev[d]] = processed[ev[d]] + 1
           /\ \A e \in Events \ {ev[d]} : processed'[e] = processed[e]
           /\ write[d] = NoWrite => UNCHANGED <<rows, tenants>>
           /\ write[d] # NoWrite =>
                 /\ write[d] \in Write /\ Fits(write[d], E(d))
                 /\ rows' = Apply(write[d])
                 /\ tenants' = tenants \cup ({write[d].create} \ {NoTenant})
<1> USE DEF IndInv
<1>1. ev[d] \in Events /\ E(d) \in Event
  BY EventOf DEF mark_processed
<1>2. processed' = [processed EXCEPT ![ev[d]] = @ + 1]
  BY DEF mark_processed
<1>3. write[d] # NoWrite => write[d] \in Write /\ Fits(write[d], E(d))
  BY DEF TypeOK, WriteInv
<1> QED BY <1>1, <1>2, <1>3 DEF mark_processed, stripe, TypeOK

\* Rows are never deleted nor given to another subscription, and markers stay.
LEMMA TablesGrow ==
    ASSUME IndInv, [Next]_vars
    PROVE  /\ \A t \in Tenants : rows[t] # NoRow => rows'[t] # NoRow /\ rows'[t].sid = rows[t].sid
           /\ \A e \in Events : processed[e] > 0 => processed'[e] > 0
<1>1. CASE UNCHANGED tables
  BY <1>1 DEF tables
<1>2. ASSUME NEW d \in Workers, mark_processed(d)
      PROVE  /\ \A t \in Tenants : rows[t] # NoRow =>
                    rows'[t] # NoRow /\ rows'[t].sid = rows[t].sid
             /\ \A e \in Events : processed[e] > 0 => processed'[e] > 0
  <2>1. \A e \in Events : processed[e] > 0 => processed'[e] > 0
    <3>1. processed \in [Events -> Nat]
      BY DEF IndInv, TypeOK
    <3>2. /\ ev[d] \in Events /\ processed'[ev[d]] = processed[ev[d]] + 1
          /\ \A e \in Events \ {ev[d]} : processed'[e] = processed[e]
      BY <1>2, MarkOf
    <3> QED BY <3>1, <3>2
  <2>2. CASE write[d] = NoWrite
    BY <1>2, <2>1, <2>2, MarkOf
  <2>3. CASE write[d] # NoWrite
    BY <1>2, <2>1, <2>3, MarkOf, ApplyOf DEF IndInv
  <2> QED BY <2>2, <2>3
<1> QED BY <1>1, <1>2, TableStep

LEMMA NextType ==
    ASSUME IndInv, [Next]_vars
    PROVE  TypeOK'
<1> USE HistoryAssumption DEF IndInv, TypeOK, tables, stripe, Goto
<1>1. ASSUME NEW d \in Workers, Release(d), UNCHANGED <<history, tables, emitted>>,
             acked' \subseteq Events, rejected' \subseteq Events, failures' \in Nat
      PROVE  TypeOK'
  BY <1>1 DEF Release
<1>2. ASSUME NEW d \in Workers, pc[d] # "idle", Raise(d) \/ Answer200(d) PROVE TypeOK'
  <2>1. ev[d] \in Events
    BY <1>2, EventOf
  <2> QED BY <1>1, <1>2, <2>1 DEF Raise, Answer200
<1>3. CASE Emit
  <2>1. emitted' \in 0 .. Len(history) /\ history' = history
    BY <1>3 DEF Emit
  <2>2. UNCHANGED <<pc, ev, found, seen, write, rows, tenants, processed, acked, rejected, failures>>
    BY <1>3 DEF Emit
  <2> QED BY <2>1, <2>2
<1>4. ASSUME NEW d \in Workers, NEW e \in Events, Deliver(d, e) PROVE TypeOK'
  BY <1>4 DEF Deliver
<1>5. ASSUME NEW d \in Workers, is_processed(d) PROVE TypeOK'
  <2>1. CASE Raise(d) \/ Answer200(d)
    BY <1>2, <1>5, <2>1 DEF is_processed
  <2>2. CASE Goto(d, "read") /\ UNCHANGED <<ev, found, seen, write, tables, stripe, failures>>
    BY <2>2
  <2> QED BY <1>5, <2>1, <2>2 DEF is_processed
<1>6. ASSUME NEW d \in Workers, Read(d) PROVE TypeOK'
  <2> DEFINE t == get_by_stripe_id(E(d).sid)
  <2>1. t \in Tenants \cup {NoTenant} /\ (IF t = NoTenant THEN NoRow ELSE rows[t]) \in Row \cup {NoRow}
    BY RowOfId
  <2>2. /\ pc' \in [Workers -> {"idle", "dedup", "read", "write", "mark", "answer"}]
        /\ found' = [found EXCEPT ![d] = t]
        /\ seen' = [seen EXCEPT ![d] = IF t = NoTenant THEN NoRow ELSE rows[t]]
        /\ UNCHANGED <<ev, write, tables, stripe, failures>>
    BY <1>6 DEF Read
  <2> HIDE DEF t
  <2> QED BY <2>1, <2>2
<1>7. ASSUME NEW d \in Workers, UpdateRow(d) \/ upsert_from_stripe(d) \/ CreateRow(d)
      PROVE  TypeOK'
  <2>1. ASSUME NEW w \in Write \cup {NoWrite}, Wrote(d, w) PROVE TypeOK'
    BY <2>1 DEF Wrote
  <2> QED BY <1>2, <1>7, <2>1, Handlers
<1>8. ASSUME NEW d \in Workers, mark_processed(d) PROVE TypeOK'
  <2>1. rows' \in [Tenants -> Row \cup {NoRow}] /\ tenants' \subseteq Tenants
    <3>1. CASE write[d] = NoWrite
      BY <1>8, <3>1, MarkOf
    <3>2. CASE write[d] # NoWrite
      <4>1. write[d] \in Write /\ rows' = Apply(write[d])
            /\ tenants' = tenants \cup ({write[d].create} \ {NoTenant})
        BY <1>8, <3>2, MarkOf
      <4>2. Apply(write[d]) \in [Tenants -> Row \cup {NoRow}]
        BY <1>8, <3>2, MarkOf, ApplyOf
      <4>3. write[d].create \in Tenants \cup {NoTenant}
        BY <4>1 DEF Write
      <4> QED BY <4>1, <4>2, <4>3
    <3> QED BY <3>1, <3>2
  <2>2. processed' \in [Events -> Nat]
    BY <1>8, MarkOf
  <2>3. /\ pc' = [pc EXCEPT ![d] = "answer"] /\ write' = [write EXCEPT ![d] = NoWrite]
        /\ UNCHANGED <<ev, found, seen, stripe, failures>>
    BY <1>8 DEF mark_processed
  <2> QED BY <2>1, <2>2, <2>3
<1>9. ASSUME NEW d \in Workers, Answer(d) PROVE TypeOK'
  BY <1>2, <1>9 DEF Answer
<1>10. ASSUME NEW d \in Workers, Fails(d) PROVE TypeOK'
  <2>1. ev[d] \in Events
    BY <1>10, EventOf DEF Fails
  <2> QED BY <1>1, <1>10, <2>1 DEF Fails
<1>11. CASE Crash
  BY <1>11 DEF Crash
<1>12. CASE UNCHANGED vars
  BY <1>12 DEF vars
<1> QED
  BY <1>3, <1>4, <1>5, <1>6, <1>7, <1>8, <1>9, <1>10, <1>11, <1>12 DEF Next, Handle

\* A delivery that another one leaves alone stays as it is.
Same(d) ==
    /\ pc'[d] = pc[d] /\ ev'[d] = ev[d] /\ found'[d] = found[d]
    /\ seen'[d] = seen[d] /\ write'[d] = write[d]

\* One that has ended holds nothing.
Freed(d) == pc'[d] = "idle" /\ write'[d] = NoWrite

\* What becomes of a delivery in a step. The steps that write are told apart,
\* with the write that has become of the row found.
Moved(d) ==
    \/ Same(d)
    \/ Freed(d)
    \/ /\ pc[d] = "idle" /\ pc'[d] = "dedup"
       /\ ev'[d] \in 1 .. emitted /\ write'[d] = write[d]
    \/ /\ pc[d] = "dedup" /\ pc'[d] = "read"
       /\ ev'[d] = ev[d] /\ write'[d] = write[d]
    \/ /\ pc[d] = "read" /\ pc'[d] \in {"mark", "write"}
       /\ ev'[d] = ev[d] /\ write'[d] = write[d]
       /\ found'[d] # NoTenant =>
              /\ found'[d] \in Tenants /\ rows[found'[d]] # NoRow
              /\ rows[found'[d]].sid = E(d).sid /\ seen'[d] = rows[found'[d]]
    \/ /\ pc[d] = "write" /\ pc'[d] = "mark" /\ ev'[d] = ev[d]
       /\ write'[d] = NoWrite \/ (Fits(write'[d], E(d)) /\ Unlocked(d, write'[d]))
       /\ \A o \in Workers \ {d} : write'[o] = write[o]
       /\ UNCHANGED tables
    \/ /\ pc[d] = "mark" /\ pc'[d] = "answer" /\ ev'[d] = ev[d] /\ write'[d] = NoWrite
       /\ processed'[ev[d]] > 0

LEMMA Moves ==
    ASSUME IndInv, [Next]_vars, NEW o \in Workers
    PROVE  emitted <= emitted' /\ Moved(o)
<1> DEFINE Goal == emitted <= emitted' /\ Moved(o)
<1> USE DEF tables, stripe, IndInv, TypeOK, Goto
<1>0. emitted \in Nat
  BY HistoryAssumption
<1>1. ASSUME NEW d \in Workers, Release(d), emitted' = emitted PROVE Goal
  BY <1>0, <1>1 DEF Release, Moved, Same, Freed
<1>2. CASE Emit
  BY <1>0, <1>2 DEF Emit, Moved, Same
<1>3. ASSUME NEW d \in Workers, NEW e \in Events, Deliver(d, e) PROVE Goal
  <2>1. e \in 1 .. emitted
    BY <1>0, <1>3, HistoryAssumption DEF Deliver, Events
  <2> QED BY <1>0, <1>3, <2>1 DEF Deliver, Moved, Same
<1>4. ASSUME NEW d \in Workers, is_processed(d) PROVE Goal
  BY <1>0, <1>1, <1>4 DEF is_processed, Raise, Answer200, Moved, Same
<1>5. ASSUME NEW d \in Workers, Read(d) PROVE Goal
  <2> DEFINE t == get_by_stripe_id(E(d).sid)
  <2>1. t # NoTenant => t \in Tenants /\ rows[t] # NoRow /\ rows[t].sid = E(d).sid
    BY RowOfId
  <2>2. /\ pc[d] = "read" /\ pc'[d] \in {"mark", "write"} /\ ev' = ev /\ write' = write
        /\ found'[d] = t /\ seen'[d] = IF t = NoTenant THEN NoRow ELSE rows[t]
        /\ emitted' = emitted
    BY <1>5 DEF Read
  <2>3. o # d => Same(o)
    BY <1>5 DEF Read, Same
  <2> HIDE DEF t
  <2> QED BY <1>0, <2>1, <2>2, <2>3 DEF Moved
<1>6. ASSUME NEW d \in Workers, UpdateRow(d) \/ upsert_from_stripe(d) \/ CreateRow(d)
      PROVE  Goal
  <2>1. pc[d] = "write"
    BY <1>6, Handlers
  <2>2. ASSUME NEW w \in Write, Wrote(d, w), Fits(w, E(d)), Unlocked(d, w) PROVE Goal
    BY <1>0, <2>1, <2>2 DEF Wrote, Moved, Same
  <2>3. CASE Raise(d)
    BY <1>1, <2>3 DEF Raise
  <2>4. \/ Raise(d)
        \/ Wrote(d, NoWrite)
        \/ \E w \in Write : Fits(w, E(d)) /\ Unlocked(d, w) /\ Wrote(d, w)
    BY <1>6, Handlers
  <2>5. CASE Wrote(d, NoWrite)
    BY <1>0, <2>1, <2>5 DEF Wrote, Moved, Same
  <2>6. CASE \E w \in Write : Fits(w, E(d)) /\ Unlocked(d, w) /\ Wrote(d, w)
    BY <2>2, <2>6
  <2> QED BY <2>3, <2>4, <2>5, <2>6
<1>7. ASSUME NEW d \in Workers, mark_processed(d) PROVE Goal
  <2>1. processed'[ev[d]] > 0
    BY <1>7, MarkOf
  <2>2. o # d => Same(o)
    BY <1>7 DEF mark_processed, Same
  <2>3. /\ pc[d] = "mark" /\ pc'[d] = "answer" /\ ev'[d] = ev[d] /\ write'[d] = NoWrite
        /\ emitted' = emitted
    BY <1>7 DEF mark_processed
  <2> QED BY <1>0, <2>1, <2>2, <2>3 DEF Moved
<1>8. ASSUME NEW d \in Workers, Answer(d) \/ Fails(d) PROVE Goal
  BY <1>1, <1>8 DEF Answer, Answer200, Fails
<1>9. CASE Crash
  BY <1>0, <1>9 DEF Crash, Moved, Freed
<1>10. CASE UNCHANGED vars
  BY <1>0, <1>10 DEF vars, Moved, Same
<1> QED
  BY <1>2, <1>3, <1>4, <1>5, <1>6, <1>7, <1>8, <1>9, <1>10 DEF Next, Handle

LEMMA NextPhase ==
    ASSUME IndInv, [Next]_vars
    PROVE  EvInv' /\ PhaseInv'
<1> SUFFICES ASSUME NEW d \in Workers
             PROVE  /\ pc'[d] # "idle" => ev'[d] \in 1 .. emitted'
                    /\ pc'[d] = "write" /\ found'[d] # NoTenant =>
                           /\ rows'[found'[d]] # NoRow
                           /\ rows'[found'[d]].sid = history'[ev'[d]].sid
                           /\ seen'[d] # NoRow
                    /\ pc'[d] = "answer" => processed'[ev'[d]] > 0
  BY DEF EvInv, PhaseInv, E
<1>1. emitted \in Nat /\ emitted' \in Nat /\ emitted <= emitted' /\ history' = history
  BY HistoryAssumption, Moves, TableStep, NextType DEF IndInv, TypeOK
<1>2. Moved(d)
  BY Moves
<1>3. pc[d] # "idle" => ev[d] \in 1 .. emitted /\ ev[d] \in Events
  BY EventOf DEF IndInv, EvInv
<1>4. pc'[d] # "idle" => ev'[d] \in 1 .. emitted'
  BY <1>1, <1>2, <1>3 DEF Moved, Same, Freed
<1>5. ASSUME pc'[d] = "write", found'[d] # NoTenant
      PROVE  /\ rows'[found'[d]] # NoRow /\ rows'[found'[d]].sid = history'[ev'[d]].sid
             /\ seen'[d] # NoRow
  <2>1. /\ found'[d] \in Tenants /\ rows[found'[d]] # NoRow
        /\ rows[found'[d]].sid = history[ev'[d]].sid /\ seen'[d] # NoRow
    BY <1>2, <1>5 DEF Moved, Same, Freed, IndInv, TypeOK, PhaseInv, E
  <2> QED BY <1>1, <2>1, TablesGrow
<1>6. ASSUME pc'[d] = "answer" PROVE processed'[ev'[d]] > 0
  BY <1>2, <1>3, <1>6, TablesGrow DEF Moved, Same, Freed, IndInv, PhaseInv
<1> QED BY <1>4, <1>5, <1>6

LEMMA NextWrite ==
    ASSUME IndInv, [Next]_vars
    PROVE  WriteInv' /\ LockInv'
<1> USE DEF IndInv
<1>0. history' = history
  BY TableStep
<1>1. ASSUME NEW d \in Workers, write'[d] # NoWrite
      PROVE  pc'[d] = "mark" /\ Fits(write[d], E(d))'
  <2>1. Moved(d)
    BY Moves
  <2>2. CASE Same(d)
    <3>1. /\ write[d] # NoWrite /\ pc[d] = "mark" /\ pc'[d] = "mark"
          /\ ev'[d] = ev[d] /\ write'[d] = write[d] /\ Fits(write[d], E(d))
          /\ write[d] \in Write
      BY <1>1, <2>2 DEF Same, WriteInv, TypeOK
    <3>2. rows'[write[d].tenant] = rows[write[d].tenant]
      <4>1. CASE UNCHANGED tables
        BY <4>1 DEF tables
      <4>2. ASSUME NEW o \in Workers, mark_processed(o)
            PROVE  rows'[write[d].tenant] = rows[write[d].tenant]
        <5>1. o # d
          BY <3>1, <4>2 DEF mark_processed, Goto, TypeOK
        <5>2. CASE write[o] = NoWrite
          BY <4>2, <5>2, MarkOf
        <5>3. CASE write[o] # NoWrite
          <6>1. write[o].tenant # write[d].tenant
            BY <3>1, <5>1, <5>3 DEF LockInv
          <6>2. write[d].tenant \in Tenants
            BY <3>1 DEF Write
          <6> QED BY <4>2, <5>3, <6>1, <6>2, MarkOf, ApplyOf
        <5> QED BY <5>2, <5>3
      <4> QED BY <4>1, <4>2, TableStep
    <3> QED BY <1>0, <3>1, <3>2 DEF Fits, E
  <2>3. CASE ~Same(d)
    <3>1. /\ pc'[d] = "mark" /\ ev'[d] = ev[d] /\ Fits(write'[d], E(d)) /\ UNCHANGED tables
      BY <1>1, <2>1, <2>3 DEF Moved, Freed, WriteInv
    <3> QED BY <1>0, <3>1 DEF Fits, E, tables
  <2> QED BY <2>2, <2>3
<1>2. ASSUME NEW d \in Workers, NEW o \in Workers, write'[d] # NoWrite, write'[o] # NoWrite, d # o
      PROVE  write'[d].tenant # write'[o].tenant
  <2>1. Moved(d) /\ Moved(o)
    BY Moves
  <2>2. CASE write'[d] = write[d] /\ write'[o] = write[o]
    BY <1>2, <2>2 DEF LockInv
  <2>3. CASE write'[d] # write[d]
    BY <1>2, <2>1, <2>3 DEF Moved, Same, Freed, Unlocked
  <2>4. CASE write'[o] # write[o]
    BY <1>2, <2>1, <2>4 DEF Moved, Same, Freed, Unlocked
  <2> QED BY <2>2, <2>3, <2>4
<1> QED BY <1>1, <1>2 DEF WriteInv, LockInv

\* Only a delivery that has seen the marker, or has committed it, is answered 200.
LEMMA NextAcked ==
    ASSUME IndInv, [Next]_vars
    PROVE  AckedIsProcessed'
<1> USE DEF IndInv, tables, stripe
<1>1. ASSUME acked' = acked PROVE AckedIsProcessed'
  BY <1>1, TablesGrow DEF AckedIsProcessed, TypeOK
<1>2. ASSUME NEW d \in Workers, pc[d] # "idle", processed[ev[d]] > 0, Answer200(d)
      PROVE  AckedIsProcessed'
  BY <1>2, TablesGrow, EventOf DEF AckedIsProcessed, Answer200, TypeOK
<1>3. ASSUME NEW d \in Workers, is_processed(d) PROVE AckedIsProcessed'
  BY <1>1, <1>2, <1>3 DEF is_processed, Raise
<1>4. ASSUME NEW d \in Workers, Answer(d) PROVE AckedIsProcessed'
  BY <1>2, <1>4 DEF Answer, PhaseInv
<1>5. ASSUME NEW d \in Workers, UpdateRow(d) \/ upsert_from_stripe(d) \/ CreateRow(d)
      PROVE  acked' = acked
  BY <1>5 DEF UpdateRow, upsert_from_stripe, CreateRow, Raise, Wrote
<1>6. ASSUME NEW d \in Workers,
             Read(d) \/ mark_processed(d) \/ Fails(d) \/ \E e \in Events : Deliver(d, e)
      PROVE  acked' = acked
  BY <1>6 DEF Read, mark_processed, Fails, Deliver
<1>7. CASE Emit \/ Crash \/ UNCHANGED vars
  BY <1>1, <1>7 DEF Emit, Crash, vars
<1> QED BY <1>1, <1>3, <1>4, <1>5, <1>6, <1>7 DEF Next, Handle

\* A row moves in the step that commits the marker of an event of its
\* subscription; its columns are as before or as that event says.
LEMMA RowMove ==
    ASSUME IndInv, [Next]_vars, NEW t \in Tenants, rows'[t] # rows[t]
    PROVE  \E e \in Events :
              /\ processed'[e] = processed[e] + 1 /\ processed'[e] > 0
              /\ rows'[t] # NoRow /\ rows'[t].sid = history[e].sid
              /\ rows[t] # NoRow => rows[t].sid = history[e].sid
              /\ \/ rows'[t].status = NewStatus(history[e])
                 \/ rows[t] # NoRow /\ rows'[t].status = rows[t].status
              /\ \/ rows'[t].plan = NewPlan(history[e])
                 \/ rows[t] # NoRow /\ rows'[t].plan = rows[t].plan
<1>1. PICK d \in Workers : mark_processed(d)
  BY TableStep DEF tables
<1>2. /\ ev[d] \in Events /\ E(d) = history[ev[d]] /\ E(d) \in Event
      /\ processed'[ev[d]] = processed[ev[d]] + 1 /\ processed[ev[d]] \in Nat
  BY <1>1, MarkOf DEF E, IndInv, TypeOK
<1>3. /\ write[d] \in Write /\ Fits(write[d], E(d)) /\ rows' = Apply(write[d])
  BY <1>1, MarkOf
<1>4. t = write[d].tenant
  BY <1>2, <1>3, ApplyOf DEF IndInv
<1>5. /\ rows'[t] # NoRow /\ rows'[t].sid = E(d).sid
      /\ rows[t] # NoRow => rows[t].sid = E(d).sid
      /\ \/ rows'[t].status = NewStatus(E(d))
         \/ rows[t] # NoRow /\ rows'[t].status = rows[t].status
      /\ \/ rows'[t].plan = NewPlan(E(d))
         \/ rows[t] # NoRow /\ rows'[t].plan = rows[t].plan
  BY <1>2, <1>3, <1>4, ApplyOf DEF IndInv
<1>6. processed'[ev[d]] > 0
  BY <1>2
<1> QED BY <1>2, <1>5, <1>6

LEMMA NextColumns ==
    ASSUME IndInv, [Next]_vars
    PROVE  ColumnsFromEvents'
<1> DEFINE Said(e, sid) == processed[e] > 0 /\ history[e].sid = sid
<1>0. history' = history
  BY TableStep
<1>1. ColumnsFromEvents <=>
        \A t \in Tenants : rows[t] # NoRow =>
            /\ \/ InitialRows[t] # NoRow /\ rows[t].status = InitialRows[t].status
               \/ \E e \in Events : Said(e, rows[t].sid) /\ rows[t].status = NewStatus(history[e])
            /\ \/ InitialRows[t] # NoRow /\ rows[t].plan = InitialRows[t].plan
               \/ \E e \in Events : Said(e, rows[t].sid) /\ rows[t].plan = NewPlan(history[e])
  BY DEF ColumnsFromEvents
<1>2. \A e \in Events : \A sid : Said(e, sid) => Said(e, sid)'
  BY <1>0, TablesGrow
<1> SUFFICES ASSUME NEW t \in Tenants, rows'[t] # NoRow
             PROVE  /\ \/ InitialRows[t] # NoRow /\ rows'[t].status = InitialRows[t].status
                       \/ \E e \in Events : /\ processed'[e] > 0 /\ history'[e].sid = rows'[t].sid
                                            /\ rows'[t].status = NewStatus(history'[e])
                    /\ \/ InitialRows[t] # NoRow /\ rows'[t].plan = InitialRows[t].plan
                       \/ \E e \in Events : /\ processed'[e] > 0 /\ history'[e].sid = rows'[t].sid
                                            /\ rows'[t].plan = NewPlan(history'[e])
  BY DEF ColumnsFromEvents
<1> USE DEF IndInv
<1>3. CASE rows'[t] = rows[t]
  BY <1>0, <1>1, <1>3, TablesGrow
<1>4. CASE rows'[t] # rows[t]
  <2>1. PICK e \in Events :
              /\ processed'[e] > 0
              /\ rows'[t] # NoRow /\ rows'[t].sid = history[e].sid
              /\ rows[t] # NoRow => rows[t].sid = history[e].sid
              /\ \/ rows'[t].status = NewStatus(history[e])
                 \/ rows[t] # NoRow /\ rows'[t].status = rows[t].status
              /\ \/ rows'[t].plan = NewPlan(history[e])
                 \/ rows[t] # NoRow /\ rows'[t].plan = rows[t].plan
    BY <1>4, RowMove
  <2>2. rows[t] # NoRow => rows'[t].sid = rows[t].sid
    BY TablesGrow
  <2> QED BY <1>0, <1>1, <2>1, <2>2, TablesGrow
<1> QED BY <1>3, <1>4

\* A delivery goes on past the lookup only when it has found no marker.
LEMMA LookedUp ==
    ASSUME IndInv, [Next]_vars, NEW o \in Workers, pc[o] = "dedup", pc'[o] = "read"
    PROVE  processed[ev[o]] = 0
<1> DEFINE Goal == processed[ev[o]] = 0
<1> USE DEF IndInv, TypeOK, Goto
<1>1. ASSUME NEW d \in Workers, Release(d) PROVE FALSE
  BY <1>1 DEF Release
<1>2. ASSUME NEW d \in Workers, is_processed(d) PROVE Goal
  BY <1>1, <1>2 DEF is_processed, Raise, Answer200
<1>3. ASSUME NEW d \in Workers,
             Read(d) \/ mark_processed(d) \/ \E e \in Events : Deliver(d, e)
      PROVE  FALSE
  BY <1>3 DEF Read, mark_processed, Deliver
<1>4. ASSUME NEW d \in Workers, UpdateRow(d) \/ upsert_from_stripe(d) \/ CreateRow(d)
      PROVE  FALSE
  <2>1. pc[d] = "write" /\ (Raise(d) \/ \E w \in Write \cup {NoWrite} : Wrote(d, w))
    BY <1>4, Handlers
  <2> QED BY <1>1, <2>1 DEF Raise, Wrote
<1>5. ASSUME NEW d \in Workers, Answer(d) \/ Fails(d) PROVE FALSE
  BY <1>1, <1>5 DEF Answer, Answer200, Fails
<1>6. CASE Emit \/ Crash \/ UNCHANGED vars
  BY <1>6 DEF Emit, Crash, vars
<1> QED BY <1>2, <1>3, <1>4, <1>5, <1>6 DEF Next, Handle

\* Of the deliveries that overlap, no two are of the same event.
Exclusive ==
    \A d, o \in Workers : pc[d] # "idle" /\ pc[o] # "idle" /\ ev[d] = ev[o] => d = o

\* The lookup of a delivery that goes on still holds.
Unmarked == \A d \in Workers : pc[d] \in {"read", "write", "mark"} => processed[ev[d]] = 0

LEMMA NextUnmarked ==
    ASSUME IndInv, Exclusive, Unmarked, [Next]_vars
    PROVE  Unmarked'
<1> SUFFICES ASSUME NEW d \in Workers, pc'[d] \in {"read", "write", "mark"}
             PROVE  processed'[ev'[d]] = 0
  BY DEF Unmarked
<1> USE DEF IndInv
<1>1. pc[d] # "idle" /\ ev'[d] = ev[d] /\ ev[d] \in Events
  BY Moves, EventOf DEF Moved, Same, Freed
<1>2. CASE UNCHANGED tables
  <2>1. CASE pc[d] \in {"read", "write", "mark"}
    BY <1>1, <1>2, <2>1 DEF Unmarked, tables
  <2>2. CASE pc[d] \notin {"read", "write", "mark"}
    <3>1. pc[d] = "dedup" /\ pc'[d] = "read"
      BY <2>2, Moves DEF Moved, Same, Freed
    <3>2. processed[ev[d]] = 0
      BY <3>1, LookedUp
    <3> QED BY <1>1, <1>2, <3>2 DEF tables
  <2> QED BY <2>1, <2>2
<1>3. ASSUME NEW o \in Workers, mark_processed(o) PROVE processed'[ev[d]] = 0
  <2>1. o # d /\ pc'[d] = pc[d] /\ pc[o] # "idle"
    BY <1>3 DEF mark_processed, Goto, TypeOK
  <2>2. ev[o] # ev[d]
    BY <1>1, <2>1 DEF Exclusive
  <2> QED BY <1>1, <1>3, <2>1, <2>2, MarkOf DEF Unmarked
<1> QED BY <1>1, <1>2, <1>3, TableStep

LEMMA NextOnce ==
    ASSUME IndInv, Unmarked, AppliedOnce, [Next]_vars
    PROVE  AppliedOnce'
<1>1. CASE UNCHANGED tables
  BY <1>1 DEF tables, AppliedOnce
<1>2. ASSUME NEW d \in Workers, mark_processed(d) PROVE AppliedOnce'
  <2>1. /\ processed'[ev[d]] = processed[ev[d]] + 1 /\ processed[ev[d]] = 0
        /\ \A e \in Events \ {ev[d]} : processed'[e] = processed[e]
    BY <1>2, MarkOf DEF Unmarked, mark_processed
  <2> QED BY <2>1 DEF AppliedOnce
<1> QED BY <1>1, <1>2, TableStep

----
\* Theorems.

\* The inductive invariant holds of every behaviour; in particular the state
\* keeps its types.
THEOREM Invariant == Spec => []IndInv
<1>1. Init => IndInv
  BY InitInv
<1>2. IndInv /\ [Next]_vars => IndInv'
  BY NextType, NextPhase, NextWrite, NextAcked, NextColumns DEF IndInv
<1> QED BY <1>1, <1>2, PTL DEF Spec

\* Every variable keeps its type: no row gets a status or a plan outside the
\* enumerations, whatever Stripe sends (webhook.py:366-380).
THEOREM TypeCorrect == Spec => []TypeOK
<1>1. IndInv => TypeOK
  BY DEF IndInv
<1> QED BY <1>1, Invariant, PTL

\* No delivery is acknowledged before the marker of its event is committed, so no
\* event Stripe will not deliver again is lost (webhook.py:113-137).
THEOREM NoEventLost == Spec => []AckedIsProcessed
<1>1. IndInv => AckedIsProcessed
  BY DEF IndInv
<1> QED BY <1>1, Invariant, PTL

\* Every column of every row comes from the initial row or from a processed event
\* of that row's subscription, in whatever order deliveries overlap.
THEOREM ColumnsAreOfEvents == Spec => []ColumnsFromEvents
<1>1. IndInv => ColumnsFromEvents
  BY DEF IndInv
<1> QED BY <1>1, Invariant, PTL

\* A row moves only together with the marker of an event of its subscription, and
\* no row ever passes to another subscription.
THEOREM RowsMoveWithTheirMark == Spec => RowsMoveWithMark
<1> DEFINE Step ==
        \A t \in Tenants : rows'[t] # rows[t] =>
            \E e \in Events :
                /\ processed'[e] = processed[e] + 1
                /\ rows'[t] # NoRow /\ rows'[t].sid = history[e].sid
                /\ rows[t] # NoRow => rows[t].sid = history[e].sid
<1>1. IndInv /\ [Next]_vars => [Step]_vars
  <2> SUFFICES ASSUME IndInv, [Next]_vars PROVE Step
    OBVIOUS
  <2> QED BY RowMove
<1> QED BY <1>1, Invariant, PTL DEF Spec, RowsMoveWithMark

\* As long as no two deliveries of one event overlap, an event takes effect at most
\* once, whatever other deliveries overlap with it, through redelivery, failures and
\* crashes (is_processed, webhook.py:109).
THEOREM AtMostOnce == Spec /\ []Exclusive => []AppliedOnce
<1>1. Init => Unmarked /\ AppliedOnce
  BY DEF Init, Unmarked, AppliedOnce
<1>2. IndInv /\ Exclusive /\ Unmarked /\ AppliedOnce /\ [Next]_vars => (Unmarked /\ AppliedOnce)'
  BY NextUnmarked, NextOnce
<1> QED BY <1>1, <1>2, Invariant, PTL DEF Spec

====
