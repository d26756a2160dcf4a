---- MODULE MeteringLedgerProofs ----
(***************************************************************************)
(* Metering implements UsageLedger; and, where nothing fails, every answer *)
(* to an idempotency key names the one usage event of its slot.            *)
(***************************************************************************)
EXTENDS MeteringProofs

----
\* The refinement.

LEMMA LedgerInit == Init => Ledger!Init
  BY DEF Init, Ledger!Init, Months, Ledger!Months

\* A commit of a new row is a Charge of the ledger.
LEMMA CommitCharges ==
    ASSUME IndInv, NEW r \in Req, Commit(r), event[r] = r
    PROVE  Ledger!Next
<1> DEFINE s == Slot(r)
           t == req[r].type
           q == req[r].qty
<1> USE DEF IndInv
<1>1. s \in Slots /\ t \in Types /\ q \in 1 .. MaxQty
  BY DEF TypeOK, Request, Slot, Slots
<1>2. Pending(r) /\ tx[r] \in Months /\ tx[r] <= month
  BY DEF Commit, Pending, PhaseInv, TypeOK
<1>3. s \notin {Slot(e) : e \in events}
  <2>1. r \notin events
    BY DEF PhaseInv, Commit
  <2>2. r \in Live /\ events \subseteq Live
    BY <1>2 DEF Live
  <2> QED BY <2>1, <2>2 DEF SlotInv
<1>4. tx[r] \in 1 .. month
  BY <1>2 DEF Months, TypeOK
<1>5. tx[r] = month => usage[month][t] + q <= Ceiling[t]
  <2> SUFFICES ASSUME tx[r] = month PROVE usage[month][t] + q <= Ceiling[t]
    OBVIOUS
  <2>1. /\ usage[month][t] \in Nat /\ q \in Nat /\ Ceiling[t] \in Nat
        /\ Admitted(t) \in SUBSET Req /\ r \in Admitted(t)
    BY <1>1, <1>2, QuotaNat, BoundsAssumption DEF TypeOK, Admitted
  <2>2. Covered(usage[month][t] + q, Admitted(t) \ {r}, t)
    BY <1>1, <2>1, CoveredCharge DEF CoverInv, TypeOK
  <2>3. Covered(usage[month][t] + q, {}, t)
    <3>1. usage[month][t] + q \in Nat /\ Admitted(t) \ {r} \in SUBSET Req
      BY <2>1
    <3> QED BY <1>1, <2>2, <3>1, CoveredShrink DEF TypeOK
  <2>4. (usage[month][t] + q) + Cardinality({}) * MaxQty <= Ceiling[t]
    BY <2>3 DEF Covered
  <2> QED BY <2>1, <2>4, FS_EmptySet, BoundsAssumption
<1>6. {Slot(e) : e \in events}' = {Slot(e) : e \in events} \cup {s}
  BY DEF Commit, Slot
<1>7. usage' = [n \in Ledger!Months |-> [u \in Types |->
                  IF n <= tx[r] /\ u = t THEN usage[n][u] + q ELSE usage[n][u]]]
  BY DEF Commit, WithRow, Months, Ledger!Months
<1>8. Ledger!Charge(s, t, q, tx[r])
  BY <1>3, <1>4, <1>5, <1>6, <1>7 DEF Ledger!Charge, Commit
<1> QED BY <1>1, <1>2, <1>8 DEF Ledger!Next, Months, Ledger!Months

\* Every other step leaves the ledger alone or begins a month.
LEMMA LedgerStep ==
    IndInv /\ [Next]_vars => [Ledger!Next]_(Ledger!ledgerVars)
<1> SUFFICES ASSUME IndInv, [Next]_vars PROVE [Ledger!Next]_(Ledger!ledgerVars)
  OBVIOUS
<1> DEFINE Kept == UNCHANGED <<req, events, usage, month>>
<1>1. Kept => UNCHANGED Ledger!ledgerVars
  BY DEF Ledger!ledgerVars, Slot
<1>2. ASSUME NEW r \in Req, Commit(r) PROVE [Ledger!Next]_(Ledger!ledgerVars)
  <2>1. CASE event[r] = r
    BY <1>2, <2>1, CommitCharges
  <2>2. CASE event[r] # r
    BY <1>1, <1>2, <2>2 DEF Commit
  <2> QED BY <2>1, <2>2
<1>3. CASE NextMonth
  <2>1. {Slot(e) : e \in events}' = {Slot(e) : e \in events}
    BY <1>3 DEF NextMonth, Slot
  <2>2. Ledger!NextMonth
    BY <1>3, <2>1 DEF NextMonth, Ledger!NextMonth
  <2> QED BY <2>2 DEF Ledger!Next
<1>4. ASSUME NEW r \in Req, Serve(r), ~ Commit(r) PROVE Kept
  BY <1>4 DEF Serve, get_current_tenant, ReplayCached, MissCached, ReadSubscription,
     ReadUsage, record_usage, Respond, shared
<1>5. ASSUME NEW r \in Req, StatementFails(r) \/ CommitFails(r) PROVE Kept
  BY <1>5 DEF StatementFails, CommitFails, shared
<1>6. CASE Crash \/ SyncSubscription \/ UNCHANGED vars
  BY <1>1, <1>6 DEF Crash, SyncSubscription, vars, shared
<1>7. ASSUME NEW s \in Slots, ExpireReply(s) PROVE Kept
  BY <1>7 DEF ExpireReply
<1> QED BY <1>1, <1>2, <1>3, <1>4, <1>5, <1>6, <1>7 DEF Next

\* The usage_events table behaves as the ledger: however requests interleave and
\* fail, a slot is charged at most once, and a charge to the current month stays
\* under the ceiling of its type.
THEOREM ImplementsLedger == Spec => LedgerSpec
<1>1. Init => Ledger!Init
  BY LedgerInit
<1>2. IndInv /\ [Next]_vars => [Ledger!Next]_(Ledger!ledgerVars)
  BY LedgerStep
<1>3. Spec => Ledger!Spec
  BY <1>1, <1>2, Invariant, PTL DEF Spec, Ledger!Spec
<1> QED BY <1>3 DEF LedgerSpec

----
\* One event per slot, where no statement, commit or process fails.

\* Every event a request holds, a cached reply names or a client has been told
\* of is a row of the right slot.
Names(e, s) == e \in Live /\ Slot(e) = s
ReplyInv ==
    /\ \A r \in Req : event[r] # NoEvent => Names(event[r], Slot(r))
    /\ \A s \in Slots : cache[s] # NoReply => Names(cache[s].event, s)
    /\ \A r \in Req : reply[r].code = "200" => Names(reply[r].event, Slot(r))

\* Without failures a row that is inserted stays.
LEMMA LiveGrows ==
    ASSUME MayFail = FALSE, IndInv, [Next]_vars
    PROVE  req' = req /\ Live \subseteq Live'
<1> USE DEF IndInv, TypeOK
<1>1. ASSUME NEW r \in Req, Serve(r) PROVE req' = req /\ Live \subseteq Live'
  <2>1. req' = req
    BY <1>1 DEF Serve, get_current_tenant, ReplayCached, MissCached, ReadSubscription,
       ReadUsage, record_usage, Respond, Commit
  <2>2. events \subseteq events'
    BY <1>1 DEF Serve, get_current_tenant, ReplayCached, MissCached, ReadSubscription,
       ReadUsage, record_usage, Respond, Commit, shared
  <2>3. \A o \in Req \ {r} : Pending(o) => Pending(o)'
    BY <1>1 DEF Serve, get_current_tenant, ReplayCached, MissCached, ReadSubscription,
       ReadUsage, record_usage, Respond, Commit, Pending, Goto, Refuse
  <2>4. ASSUME Pending(r) PROVE r \in Live'
    <3>1. pc[r] \in {"respond", "commit"} /\ event[r] = r
      BY <2>4 DEF Pending
    <3>2. CASE Respond(r)
      BY <3>1, <3>2 DEF Respond, Goto, Live, Pending
    <3>3. CASE Commit(r)
      BY <3>1, <3>3 DEF Commit, Live
    <3> QED BY <1>1, <3>1, <3>2, <3>3 DEF Serve, get_current_tenant, ReplayCached,
            MissCached, ReadSubscription, ReadUsage, record_usage
  <2> QED BY <2>1, <2>2, <2>3, <2>4 DEF Live
<1>2. CASE SyncSubscription \/ NextMonth \/ UNCHANGED vars
  BY <1>2 DEF SyncSubscription, NextMonth, vars, Live, Pending
<1>3. ASSUME NEW s \in Slots, ExpireReply(s) PROVE req' = req /\ Live \subseteq Live'
  BY <1>3 DEF ExpireReply, Live, Pending
<1> QED BY <1>1, <1>2, <1>3 DEF Next, StatementFails, CommitFails, Crash

LEMMA NextReply ==
    ASSUME MayFail = FALSE, IndInv, ReplyInv, [Next]_vars
    PROVE  ReplyInv'
<1> USE DEF IndInv, TypeOK
<1>s. \A r \in Req : Slot(r) \in Slots
  BY DEF Slot, Slots, Request
<1>n. \A e, s : Names(e, s) => Names(e, s)'
  BY LiveGrows DEF Names, Slot
<1>p. \A r \in Req : Slot(r)' = Slot(r)
  BY LiveGrows DEF Slot
<1>0. ASSUME UNCHANGED <<event, cache, reply>> PROVE ReplyInv'
  BY <1>0, <1>n, <1>p DEF ReplyInv
<1>1. ASSUME NEW r \in Req, Refuse(r, "401") \/ Refuse(r, "402") \/ Refuse(r, "429"),
             UNCHANGED <<event, cache>>
      PROVE  ReplyInv'
  BY <1>1, <1>n, <1>p DEF ReplyInv, Refuse, Refusal
<1>2. ASSUME NEW r \in Req, get_current_tenant(r) PROVE ReplyInv'
  BY <1>0, <1>1, <1>2 DEF get_current_tenant, shared
<1>3. ASSUME NEW r \in Req, ReplayCached(r) PROVE ReplyInv'
  BY <1>3, <1>n, <1>p, <1>s DEF ReplayCached, ReplyInv, shared
<1>4. ASSUME NEW r \in Req, MissCached(r) PROVE ReplyInv'
  BY <1>0, <1>4 DEF MissCached, shared
<1>5. ASSUME NEW r \in Req, ReadSubscription(r) PROVE ReplyInv'
  BY <1>0, <1>1, <1>5 DEF ReadSubscription, shared
<1>6. ASSUME NEW r \in Req, ReadUsage(r) PROVE ReplyInv'
  BY <1>0, <1>1, <1>6 DEF ReadUsage, shared
<1>7. ASSUME NEW r \in Req, record_usage(r) PROVE ReplyInv'
  <2> USE <1>7 DEF record_usage, shared
  <2>1. \A o \in Req \ {r} : event'[o] = event[o]
    OBVIOUS
  <2>2. Names(event[r], Slot(r))'
    <3>1. CASE event'[r] = r
      BY <3>1, <1>p DEF Names, Live, Pending, Goto
    <3>2. CASE event'[r] # r
      BY <3>2, <1>p, <1>n DEF Names, Live
    <3> QED BY <3>1, <3>2
  <2> QED BY <2>1, <2>2, <1>n, <1>p DEF ReplyInv
<1>8. ASSUME NEW r \in Req, Respond(r) PROVE ReplyInv'
  <2> USE <1>8 DEF Respond
  <2>1. Names(event[r], Slot(r)) /\ MeterResponse(r).event = event[r]
    BY DEF ReplyInv, MeterResponse, PhaseInv
  <2> QED BY <2>1, <1>n, <1>p, <1>s DEF ReplyInv
<1>9. ASSUME NEW r \in Req, Commit(r) PROVE ReplyInv'
  BY <1>0, <1>9 DEF Commit
<1>10. ASSUME NEW s \in Slots, ExpireReply(s) PROVE ReplyInv'
  BY <1>10, <1>n, <1>p DEF ExpireReply, ReplyInv
<1>11. CASE SyncSubscription \/ NextMonth \/ UNCHANGED vars
  BY <1>0, <1>11 DEF SyncSubscription, NextMonth, vars
<1> QED
  BY <1>2, <1>3, <1>4, <1>5, <1>6, <1>7, <1>8, <1>9, <1>10, <1>11
  DEF Next, Serve, StatementFails, CommitFails, Crash

\* Where nothing fails, a client told 200 holds an event of its slot that is
\* recorded or about to be, although the answer and its cached copy go out
\* before the commit.
THEOREM AnsweredRecorded ==
    ASSUME MayFail = FALSE
    PROVE  Spec => []AnsweredIsRecorded
<1>1. Init => ReplyInv
  BY DEF Init, ReplyInv, NoReply
<1>2. IndInv /\ ReplyInv /\ [Next]_vars => ReplyInv'
  BY NextReply
<1>3. IndInv /\ ReplyInv => AnsweredIsRecorded
  BY DEF IndInv, TypeOK, ReplyInv, AnsweredIsRecorded, Names, Live
<1> QED BY <1>1, <1>2, <1>3, Invariant, PTL DEF Spec

\* Where nothing fails, all the 200 answers of a slot name the same event.
THEOREM OneEventPerSlot ==
    ASSUME MayFail = FALSE
    PROVE  Spec => []RepliesNameOneEvent
<1>1. IndInv /\ AnsweredIsRecorded => RepliesNameOneEvent
  <2> SUFFICES ASSUME IndInv, AnsweredIsRecorded, NEW r \in Req, NEW o \in Req,
                      reply[r].code = "200", reply[o].code = "200", Slot(r) = Slot(o)
               PROVE  reply[r].event = reply[o].event
    BY DEF RepliesNameOneEvent
  <2>1. /\ reply[r].event \in Live /\ Slot(reply[r].event) = Slot(r)
        /\ reply[o].event \in Live /\ Slot(reply[o].event) = Slot(o)
    BY DEF AnsweredIsRecorded, Live
  <2> QED BY <2>1 DEF IndInv, SlotInv
<1> QED BY <1>1, AnsweredRecorded, Invariant, PTL

====
