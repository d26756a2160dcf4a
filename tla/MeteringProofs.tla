---- MODULE MeteringProofs ----
(***************************************************************************)
(* Theorems about Metering, for every set of requests, keys, types and     *)
(* plans, every pool size and every length of the calendar.                *)
(***************************************************************************)
EXTENDS Metering, FiniteSetTheorems, TLAPS

\* The quota of a plan, and the larger of the two tiers', is a natural number.
LEMMA QuotaNat ==
    ASSUME NEW t \in Types
    PROVE  /\ \A p \in Tiers : QuotaOf(p, t) \in Nat
           /\ \A p \in Tiers : QuotaOf(p, t) <= LargestQuota(t)
           /\ LargestQuota(t) \in Nat
           /\ Ceiling[t] = LargestQuota(t) + (PoolSize - 1) * MaxQty
           /\ Ceiling[t] \in Nat
<1>1. \A p \in Tiers : QuotaOf(p, t) \in Nat
  BY PlanAssumption DEF QuotaOf, Tiers
<1>2. /\ \A p \in Tiers : QuotaOf(p, t) <= LargestQuota(t)
      /\ LargestQuota(t) \in Nat
  BY <1>1 DEF LargestQuota, Tiers
<1>3. Ceiling[t] = LargestQuota(t) + (PoolSize - 1) * MaxQty
  BY DEF Ceiling
<1>4. (PoolSize - 1) * MaxQty \in Nat
  <2>1. PoolSize - 1 \in Nat /\ MaxQty \in Nat
    BY BoundsAssumption
  <2> QED BY <2>1
<1> QED BY <1>1, <1>2, <1>3, <1>4

\* Charging a row of a request of the workload keeps the sums natural numbers.
LEMMA WithRowType ==
    ASSUME usage \in [Months -> [Types -> Nat]], NEW t, NEW q \in Nat, NEW m
    PROVE  WithRow(t, q, m) \in [Months -> [Types -> Nat]]
  BY DEF WithRow

\* The reply of a request is a record with a natural number as its remainder.
LEMMA MeterResponseType ==
    ASSUME TypeOK, NEW r \in Req
    PROVE  MeterResponse(r) \in Reply
<1>1. Remaining(r) \in Nat
  <2>1. /\ quota_info[r].limit \in Nat /\ quota_info[r].used \in Nat
        /\ req[r].qty \in Nat
    BY BoundsAssumption DEF TypeOK, Request
  <2> QED BY <2>1 DEF Remaining
<1>2. event[r] \in Req \cup {NoEvent}
  BY DEF TypeOK
<1> QED BY <1>1, <1>2 DEF MeterResponse, Reply, Codes

LEMMA InitType == Init => TypeOK
<1> SUFFICES ASSUME Init PROVE TypeOK
  OBVIOUS
<1>1. 1 \in Months
  BY BoundsAssumption DEF Months
<1>2. NoReply \in Reply
  BY DEF NoReply, Reply, Codes
<1> QED BY <1>1, <1>2, EnvAssumption DEF Init, TypeOK, Phases, NoTx

\* Every step keeps every variable in its type.
LEMMA NextType == TypeOK /\ [Next]_vars => TypeOK'
<1> SUFFICES ASSUME TypeOK, [Next]_vars PROVE TypeOK'
  OBVIOUS
<1> USE DEF TypeOK
<1>refuse. ASSUME NEW r \in Req, NEW code \in Codes, Refuse(r, code)
           PROVE  pc' \in [Req -> Phases] /\ reply' \in [Req -> Reply]
  BY <1>refuse DEF Refuse, Goto, Refusal, Reply, Phases
<1>begin. ASSUME NEW r \in Req, Begin(r)
          PROVE  tx' \in [Req -> Months \cup {NoTx}]
  BY <1>begin DEF Begin
<1>1. ASSUME NEW r \in Req, get_current_tenant(r) PROVE TypeOK'
  BY <1>1, <1>refuse, <1>begin DEF get_current_tenant, Goto, Phases, Codes, shared
<1>2. ASSUME NEW r \in Req, ReplayCached(r) PROVE TypeOK'
  <2>1. Slot(r) \in Slots
    BY DEF Slot, Slots, Request
  <2> QED BY <1>2, <2>1 DEF ReplayCached, Goto, Phases, shared
<1>3. ASSUME NEW r \in Req, MissCached(r) PROVE TypeOK'
  BY <1>3 DEF MissCached, Goto, Phases, shared
<1>4. ASSUME NEW r \in Req, ReadSubscription(r) PROVE TypeOK'
  <2>1. QuotaOf(subscription.plan, req[r].type) \in Nat
    BY QuotaNat DEF Request
  <2>2. quota_info' \in [Req -> [used : Nat, limit : Nat]]
    BY <1>4, <2>1 DEF ReadSubscription
  <2>3. pc' \in [Req -> Phases] /\ reply' \in [Req -> Reply]
    BY <1>4, <1>refuse DEF ReadSubscription, Goto, Phases, Codes
  <2> QED BY <1>4, <1>begin, <2>2, <2>3 DEF ReadSubscription, shared
<1>5. ASSUME NEW r \in Req, ReadUsage(r) PROVE TypeOK'
  <2>1. get_monthly_usage(req[r].type, month) \in Nat
    BY DEF get_monthly_usage, Request
  <2>2. quota_info' \in [Req -> [used : Nat, limit : Nat]]
    BY <1>5, <2>1 DEF ReadUsage
  <2>3. pc' \in [Req -> Phases] /\ reply' \in [Req -> Reply]
    BY <1>5, <1>refuse DEF ReadUsage, Goto, Phases, Codes
  <2> QED BY <1>5, <2>2, <2>3 DEF ReadUsage, shared
<1>6. ASSUME NEW r \in Req, record_usage(r) PROVE TypeOK'
  BY <1>6 DEF record_usage, Goto, Phases, shared
<1>7. ASSUME NEW r \in Req, Respond(r) PROVE TypeOK'
  <2>1. MeterResponse(r) \in Reply
    BY MeterResponseType
  <2> QED BY <1>7, <2>1 DEF Respond, Goto, Phases
<1>8. ASSUME NEW r \in Req, Commit(r) PROVE TypeOK'
  <2>1. req[r].qty \in Nat
    BY BoundsAssumption DEF Request
  <2>2. WithRow(req[r].type, req[r].qty, tx[r]) \in [Months -> [Types -> Nat]]
    BY <2>1, WithRowType
  <2> QED BY <1>8, <2>2 DEF Commit, Goto, Phases
<1>9. ASSUME NEW r \in Req, StatementFails(r) PROVE TypeOK'
  BY <1>9, <1>refuse DEF StatementFails, Codes, shared
<1>10. ASSUME NEW r \in Req, CommitFails(r) PROVE TypeOK'
  BY <1>10 DEF CommitFails, Goto, Phases, shared
<1>11. CASE Crash
  BY <1>11 DEF Crash, Phases, shared
<1>12. ASSUME NEW s \in Slots, ExpireReply(s) PROVE TypeOK'
  BY <1>12 DEF ExpireReply, NoReply, Reply, Codes
<1>13. CASE SyncSubscription
  BY <1>13, EnvAssumption DEF SyncSubscription
<1>14. CASE NextMonth
  BY <1>14, BoundsAssumption DEF NextMonth, Months
<1>15. CASE UNCHANGED vars
  BY <1>15 DEF vars
<1> QED
  BY <1>1, <1>2, <1>3, <1>4, <1>5, <1>6, <1>7, <1>8, <1>9, <1>10, <1>11, <1>12,
     <1>13, <1>14, <1>15 DEF Next, Serve

\* Every variable keeps to its type: no handler stores a malformed reply, a
\* negative remainder or a transaction outside the calendar.
THEOREM TypeCorrect == Spec => []TypeOK
<1>1. Init => TypeOK
  BY InitType
<1>2. TypeOK /\ [Next]_vars => TypeOK'
  BY NextType
<1> QED BY <1>1, <1>2, PTL DEF Spec

----
\* What Covered allows: fewer requests, a charge of an admitted one, a new one.

LEMMA SubsetFinite ==
    ASSUME NEW A \in SUBSET Req
    PROVE  IsFiniteSet(A) /\ Cardinality(A) \in Nat
  BY ReqAssumption, FS_Subset, FS_CardinalityType

LEMMA TimesMonotone ==
    ASSUME NEW a \in Nat, NEW b \in Nat, a <= b
    PROVE  /\ a * MaxQty <= b * MaxQty
           /\ a * MaxQty \in Nat
<1>1. MaxQty \in Nat
  BY BoundsAssumption
<1>2. (b - a) * MaxQty \in Nat
  <2>1. b - a \in Nat
    OBVIOUS
  <2> QED BY <2>1, <1>1
<1>3. b * MaxQty = a * MaxQty + (b - a) * MaxQty
  BY <1>1
<1>4. a * MaxQty \in Nat
  BY <1>1
<1> QED BY <1>1, <1>2, <1>3, <1>4

LEMMA CoveredShrink ==
    ASSUME NEW t \in Types, NEW u \in Nat, NEW A \in SUBSET Req, NEW B \in SUBSET A,
           req \in [Req -> Request], Covered(u, A, t)
    PROVE  Covered(u, B, t)
<1>c. Ceiling[t] \in Nat
  BY QuotaNat
<1>q. \A r \in Req : req[r].qty \in Nat
  BY BoundsAssumption DEF Request
<1>1. ASSUME NEW C \in SUBSET Req, NEW D \in SUBSET C
      PROVE  /\ Cardinality(D) * MaxQty <= Cardinality(C) * MaxQty
             /\ Cardinality(D) * MaxQty \in Nat
             /\ Cardinality(C) * MaxQty \in Nat
  <2>1. Cardinality(C) \in Nat /\ Cardinality(D) \in Nat
    BY SubsetFinite
  <2>2. Cardinality(D) <= Cardinality(C)
    BY SubsetFinite, FS_Subset
  <2> QED BY <2>1, <2>2, TimesMonotone
<1>2. CASE u + Cardinality(A) * MaxQty <= Ceiling[t]
  <2>1. u + Cardinality(B) * MaxQty <= Ceiling[t]
    BY <1>1, <1>2, <1>c
  <2> QED BY <2>1 DEF Covered
<1>3. ASSUME NEW last \in A, u + req[last].qty + Cardinality(A \ {last}) * MaxQty <= Ceiling[t]
      PROVE  Covered(u, B, t)
  <2>1. CASE last \in B
    <3>1. B \ {last} \in SUBSET (A \ {last})
      OBVIOUS
    <3>2. u + req[last].qty + Cardinality(B \ {last}) * MaxQty <= Ceiling[t]
      BY <3>1, <1>1, <1>3, <1>c, <1>q
    <3> QED BY <2>1, <3>2 DEF Covered
  <2>2. CASE last \notin B
    <3>1. B \in SUBSET (A \ {last})
      BY <2>2
    <3>2. u + Cardinality(B) * MaxQty <= Ceiling[t]
      BY <3>1, <1>1, <1>3, <1>c, <1>q
    <3> QED BY <3>2 DEF Covered
  <2> QED BY <2>1, <2>2
<1> QED BY <1>2, <1>3 DEF Covered

LEMMA CoveredCharge ==
    ASSUME NEW t \in Types, NEW u \in Nat, NEW A \in SUBSET Req, NEW r \in A,
           req \in [Req -> Request], Covered(u, A, t)
    PROVE  Covered(u + req[r].qty, A \ {r}, t)
<1>c. Ceiling[t] \in Nat
  BY QuotaNat
<1>q. \A o \in Req : req[o].qty \in Nat /\ req[o].qty <= MaxQty
  BY BoundsAssumption DEF Request
<1>m. MaxQty \in Nat
  BY BoundsAssumption
<1>1. ASSUME NEW C \in SUBSET Req, NEW x \in C
      PROVE  /\ Cardinality(C) * MaxQty = Cardinality(C \ {x}) * MaxQty + MaxQty
             /\ Cardinality(C \ {x}) * MaxQty \in Nat
  <2>1. Cardinality(C \ {x}) = Cardinality(C) - 1 /\ Cardinality(C \ {x}) \in Nat
    BY SubsetFinite, FS_RemoveElement
  <2>2. Cardinality(C) \in Nat
    BY SubsetFinite
  <2>3. \A k, n \in Nat : n = k - 1 => k * MaxQty = n * MaxQty + MaxQty /\ n * MaxQty \in Nat
    BY <1>m
  <2> QED BY <2>1, <2>2, <2>3
<1>2. CASE u + Cardinality(A) * MaxQty <= Ceiling[t]
  <2>1. u + req[r].qty + Cardinality(A \ {r}) * MaxQty <= Ceiling[t]
    BY <1>1, <1>2, <1>c, <1>q, <1>m
  <2> QED BY <2>1 DEF Covered
<1>3. ASSUME NEW last \in A, u + req[last].qty + Cardinality(A \ {last}) * MaxQty <= Ceiling[t]
      PROVE  Covered(u + req[r].qty, A \ {r}, t)
  <2>1. CASE last = r
    BY <1>3, <2>1 DEF Covered
  <2>2. CASE last # r
    <3>1. (A \ {last}) \ {r} = (A \ {r}) \ {last} /\ r \in A \ {last} /\ last \in A \ {r}
      BY <2>2
    <3>2. Cardinality(A \ {last}) * MaxQty = Cardinality((A \ {r}) \ {last}) * MaxQty + MaxQty
      BY <3>1, <1>1
    <3>3. Cardinality((A \ {r}) \ {last}) * MaxQty \in Nat
      BY <3>1, <1>1
    <3>4. (u + req[r].qty) + req[last].qty + Cardinality((A \ {r}) \ {last}) * MaxQty <= Ceiling[t]
      BY <3>2, <3>3, <1>3, <1>c, <1>q, <1>m
    <3> QED BY <3>1, <3>4 DEF Covered
  <2> QED BY <2>1, <2>2
<1> QED BY <1>2, <1>3 DEF Covered

LEMMA CoveredAdmit ==
    ASSUME NEW t \in Types, NEW u \in Nat, NEW A \in SUBSET Req, NEW r \in A,
           req \in [Req -> Request],
           u + req[r].qty <= LargestQuota(t), Cardinality(A) <= PoolSize
    PROVE  Covered(u, A, t)
<1>1. Cardinality(A \ {r}) = Cardinality(A) - 1 /\ Cardinality(A \ {r}) \in Nat
  BY SubsetFinite, FS_RemoveElement
<1>2. PoolSize - 1 \in Nat /\ Cardinality(A \ {r}) <= PoolSize - 1
  BY <1>1, SubsetFinite, BoundsAssumption
<1>3. /\ Cardinality(A \ {r}) * MaxQty <= (PoolSize - 1) * MaxQty
      /\ Cardinality(A \ {r}) * MaxQty \in Nat /\ (PoolSize - 1) * MaxQty \in Nat
  BY <1>1, <1>2, TimesMonotone
<1>4. req[r].qty \in Nat
  BY BoundsAssumption DEF Request
<1>5. u + req[r].qty + Cardinality(A \ {r}) * MaxQty <= Ceiling[t]
  BY <1>3, <1>4, QuotaNat
<1> QED BY <1>5 DEF Covered

----
\* The inductive invariant.

LEMMA InitInv == Init => IndInv
<1> SUFFICES ASSUME Init PROVE IndInv
  OBVIOUS
<1>1. TypeOK
  BY InitType
<1>2. PhaseInv
  <2>1. \A r \in Req : req[r].type \in Types
    BY <1>1 DEF TypeOK, Request
  <2>2. \A r \in Req : quota_info[r].limit <= LargestQuota(req[r].type)
    BY <2>1, QuotaNat DEF Init
  <2>3. \A r \in Req : ~ Pending(r)
    BY DEF Init, Pending
  <2>4. \A r \in Req : tx[r] <= month
    BY DEF Init, NoTx
  <2> QED BY <2>2, <2>3, <2>4 DEF Init, PhaseInv, NoReply
<1>3. CacheInv
  BY DEF Init, CacheInv, NoReply
<1>4. PoolInv
  <2>1. Holding = {}
    BY DEF Init, Holding, InFlight
  <2> QED BY <2>1, FS_EmptySet, BoundsAssumption DEF PoolInv
<1>5. SlotInv
  BY DEF Init, SlotInv, Live, Pending
<1>6. FutureInv
  BY DEF Init, FutureInv
<1>7. CoverInv
  <2> SUFFICES ASSUME NEW t \in Types PROVE Covered(usage[month][t], Admitted(t), t)
    BY DEF CoverInv
  <2>1. Admitted(t) = {}
    BY DEF Init, Admitted, Pending
  <2>2. usage[month][t] = 0
    BY BoundsAssumption DEF Init, Months
  <2>3. usage[month][t] + Cardinality({}) * MaxQty <= Ceiling[t]
    BY <2>2, FS_EmptySet, QuotaNat, BoundsAssumption
  <2> QED BY <2>1, <2>3 DEF Covered
<1> QED BY <1>1, <1>2, <1>3, <1>4, <1>5, <1>6, <1>7 DEF IndInv

\* Holding is a finite set: its cardinality is a number and shrinks with it.
LEMMA PoolFrame ==
    ASSUME PoolInv, Holding' \subseteq Holding
    PROVE  PoolInv'
<1>1. Holding \in SUBSET Req
  BY DEF Holding, InFlight
<1>2. IsFiniteSet(Holding) /\ Cardinality(Holding) \in Nat
  BY <1>1, SubsetFinite
<1>3. Cardinality(Holding') <= Cardinality(Holding) /\ Cardinality(Holding') \in Nat
  BY <1>2, FS_Subset, FS_CardinalityType
<1> QED BY <1>2, <1>3, BoundsAssumption DEF PoolInv

\* A first statement takes one more connection only when one is free.
LEMMA PoolTake ==
    ASSUME NEW r \in Req, PoolInv, ConnectionFree, Holding' \subseteq Holding \cup {r}
    PROVE  PoolInv'
<1>1. Holding \in SUBSET Req /\ Holding \cup {r} \in SUBSET Req
  BY DEF Holding, InFlight
<1>2. IsFiniteSet(Holding) /\ Cardinality(Holding) \in Nat
  BY <1>1, SubsetFinite
<1>3. Cardinality(Holding \cup {r}) <= Cardinality(Holding) + 1
  <2>1. Cardinality(Holding \cup {r}) =
          IF r \in Holding THEN Cardinality(Holding) ELSE Cardinality(Holding) + 1
    BY <1>2, FS_AddElement
  <2> QED BY <2>1, <1>2
<1>4. IsFiniteSet(Holding \cup {r}) /\ Cardinality(Holding \cup {r}) \in Nat
  BY <1>1, SubsetFinite
<1>5. Cardinality(Holding') <= Cardinality(Holding \cup {r}) /\ Cardinality(Holding') \in Nat
  BY <1>4, FS_Subset, FS_CardinalityType
<1> QED BY <1>2, <1>3, <1>4, <1>5, BoundsAssumption DEF PoolInv, ConnectionFree

\* A step that charges nothing and admits nobody keeps the rest of IndInv.
LEMMA FrameInv ==
    ASSUME IndInv, UNCHANGED <<req, usage, month>>, Live' \subseteq Live,
           \A t \in Types : Admitted(t)' \subseteq Admitted(t)
    PROVE  SlotInv' /\ FutureInv' /\ CoverInv'
<1> USE DEF IndInv
<1>1. SlotInv'
  BY DEF SlotInv, Slot
<1>2. FutureInv'
  BY DEF FutureInv
<1>3. CoverInv'
  <2> SUFFICES ASSUME NEW t \in Types PROVE Covered(usage[month][t], Admitted(t), t)'
    BY DEF CoverInv
  <2>1. Admitted(t) \in SUBSET Req /\ Admitted(t)' \in SUBSET Admitted(t)
    BY DEF Admitted
  <2>2. usage[month][t] \in Nat
    BY DEF TypeOK
  <2>3. Covered(usage[month][t], Admitted(t)', t)
    BY <2>1, <2>2, CoveredShrink DEF CoverInv, TypeOK
  <2> QED BY <2>3 DEF Covered
<1> QED BY <1>1, <1>2, <1>3

\* Every step keeps the inductive invariant.
LEMMA NextInv == IndInv /\ [Next]_vars => IndInv'
<1> SUFFICES ASSUME IndInv, [Next]_vars PROVE IndInv'
  OBVIOUS
<1> USE DEF IndInv
<1>t. TypeOK'
  BY NextType
<1>l. \A r \in Req : req[r].type \in Types /\ req[r].qty \in Nat /\ Slot(r) \in Slots
  BY BoundsAssumption DEF TypeOK, Request, Slot, Slots
<1>m. month \in Nat /\ \A r \in Req : tx[r] \in Nat
  BY DEF TypeOK, Months, NoTx
<1>1. ASSUME NEW r \in Req, get_current_tenant(r) PROVE IndInv'
  <2> USE <1>1 DEF get_current_tenant, shared, Goto
  <2>0. /\ pc[r] = "arrive" /\ tx[r] = NoTx /\ event[r] = NoEvent
        /\ pc' \in {[pc EXCEPT ![r] = "lookup"], [pc EXCEPT ![r] = "done"]}
    BY DEF PhaseInv, Refuse
  <2>1. PhaseInv'
    BY <1>m DEF PhaseInv, Pending, Refuse, Refusal, Begin, TypeOK, NoTx
  <2>2. CacheInv'
    BY DEF CacheInv
  <2>3. PoolInv'
    <3>1. CASE tx' = tx
      <4>1. Holding' \subseteq Holding
        BY <3>1, <2>0 DEF Holding, InFlight, TypeOK
      <4> QED BY <4>1, PoolFrame
    <3>2. CASE Begin(r)
      <4>1. ConnectionFree
        BY <3>2, <2>0 DEF Begin
      <4>2. Holding' \subseteq Holding \cup {r}
        BY <3>2, <2>0 DEF Begin, Holding, InFlight, TypeOK
      <4> QED BY <4>1, <4>2, PoolTake
    <3> QED BY <3>1, <3>2
  <2>4. Live' \subseteq Live
    BY <2>0 DEF Live, Pending, TypeOK
  <2>5. \A t \in Types : Admitted(t)' \subseteq Admitted(t)
    BY <2>0 DEF Admitted, Pending, TypeOK, Begin
  <2> QED BY <1>t, <2>1, <2>2, <2>3, <2>4, <2>5, FrameInv
<1>2. ASSUME NEW r \in Req, ReplayCached(r) PROVE IndInv'
  <2> USE <1>2 DEF ReplayCached, shared, Goto
  <2>0. reply'[r].code = "200"
    <3>1. cache[Slot(r)].code = "200"
      BY <1>l DEF CacheInv
    <3> QED BY <3>1 DEF TypeOK
  <2>1. PhaseInv'
    BY <2>0, ReqAssumption DEF PhaseInv, Pending, TypeOK
  <2>2. CacheInv'
    BY DEF CacheInv
  <2>3. PoolInv'
    <3>1. Holding' \subseteq Holding
      BY DEF Holding, InFlight, TypeOK
    <3> QED BY <3>1, PoolFrame
  <2>4. Live' \subseteq Live
    BY ReqAssumption DEF Live, Pending, PhaseInv, TypeOK
  <2>5. \A t \in Types : Admitted(t)' \subseteq Admitted(t)
    BY ReqAssumption DEF Admitted, Pending, PhaseInv, TypeOK
  <2> QED BY <1>t, <2>1, <2>2, <2>3, <2>4, <2>5, FrameInv
<1>3. ASSUME NEW r \in Req, MissCached(r) PROVE IndInv'
  <2> USE <1>3 DEF MissCached, shared, Goto
  <2>1. PhaseInv'
    BY DEF PhaseInv, Pending, TypeOK
  <2>2. CacheInv'
    BY DEF CacheInv
  <2>3. PoolInv'
    <3>1. Holding' \subseteq Holding
      BY DEF Holding, InFlight, TypeOK
    <3> QED BY <3>1, PoolFrame
  <2>4. Live' \subseteq Live
    BY DEF Live, Pending, TypeOK
  <2>5. \A t \in Types : Admitted(t)' \subseteq Admitted(t)
    BY DEF Admitted, Pending, TypeOK
  <2> QED BY <1>t, <2>1, <2>2, <2>3, <2>4, <2>5, FrameInv
<1>4. ASSUME NEW r \in Req, ReadSubscription(r) PROVE IndInv'
  <2> USE <1>4 DEF ReadSubscription, shared, Goto
  <2>0. /\ pc[r] = "quota" /\ event[r] = NoEvent
        /\ pc' \in {[pc EXCEPT ![r] = "usage"], [pc EXCEPT ![r] = "done"]}
    BY DEF PhaseInv, Refuse
  <2>1. PhaseInv'
    <3>1. QuotaOf(subscription.plan, req[r].type) <= LargestQuota(req[r].type)
      BY <1>l, QuotaNat DEF TypeOK
    <3>2. \A o \in Req : quota_info'[o].limit <= LargestQuota(req[o].type)
      BY <3>1 DEF PhaseInv, TypeOK
    <3>3. /\ tx'[r] # NoTx /\ \A o \in Req : tx'[o] <= month
          /\ \A o \in Req \ {r} : tx'[o] = tx[o]
      BY <1>m DEF Begin, PhaseInv, TypeOK, Months, NoTx
    <3>4. \A o \in Req : o # r => reply'[o] = reply[o] /\ pc'[o] = pc[o]
      BY <2>0 DEF Refuse, TypeOK
    <3>5. (pc'[r] = "usage" /\ reply'[r] = reply[r]) \/ pc'[r] = "done"
      BY DEF Refuse, TypeOK
    <3> QED BY <2>0, <3>2, <3>3, <3>4, <3>5 DEF PhaseInv, Pending, TypeOK
  <2>2. CacheInv'
    BY DEF CacheInv
  <2>3. PoolInv'
    <3>1. CASE tx[r] # NoTx
      <4>1. Holding' \subseteq Holding
        BY <3>1, <2>0 DEF Begin, Holding, InFlight, TypeOK
      <4> QED BY <4>1, PoolFrame
    <3>2. CASE ConnectionFree
      <4>1. Holding' \subseteq Holding \cup {r}
        BY <2>0 DEF Begin, Holding, InFlight, TypeOK
      <4> QED BY <3>2, <4>1, PoolTake
    <3> QED BY <3>1, <3>2 DEF Begin
  <2>4. Live' \subseteq Live
    BY <2>0 DEF Live, Pending, TypeOK
  <2>5. \A t \in Types : Admitted(t)' \subseteq Admitted(t)
    BY <2>0 DEF Admitted, Pending, TypeOK, Begin
  <2> QED BY <1>t, <2>1, <2>2, <2>3, <2>4, <2>5, FrameInv
<1>5. ASSUME NEW r \in Req, ReadUsage(r) PROVE IndInv'
  <2> DEFINE t0 == req[r].type
  <2> USE <1>5 DEF ReadUsage, shared, get_monthly_usage
  <2>0. /\ pc[r] = "usage" /\ event[r] = NoEvent /\ tx[r] # NoTx
        /\ pc' \in {[pc EXCEPT ![r] = "insert"], [pc EXCEPT ![r] = "done"]}
    BY DEF PhaseInv, Refuse, Goto
  <2>1. PhaseInv'
    <3>2. \A o \in Req : quota_info'[o].limit = quota_info[o].limit
      BY DEF TypeOK
    <3>4. \A o \in Req : o # r => reply'[o] = reply[o] /\ pc'[o] = pc[o]
      BY <2>0 DEF Refuse, TypeOK
    <3>5. (pc'[r] = "insert" /\ reply'[r] = reply[r]) \/ pc'[r] = "done"
      BY DEF Refuse, Goto, TypeOK
    <3> QED BY <2>0, <3>2, <3>4, <3>5 DEF PhaseInv, Pending, TypeOK
  <2>2. CacheInv'
    BY DEF CacheInv
  <2>3. PoolInv'
    <3>1. Holding' \subseteq Holding
      BY <2>0 DEF Holding, InFlight, TypeOK
    <3> QED BY <3>1, PoolFrame
  <2>4. Live' = Live
    BY <2>0 DEF Live, Pending, TypeOK
  <2>5. SlotInv' /\ FutureInv'
    BY <2>4 DEF SlotInv, FutureInv, Slot
  <2>6. CoverInv'
    <3> SUFFICES ASSUME NEW t \in Types PROVE Covered(usage[month][t], Admitted(t), t)'
      BY DEF CoverInv
    <3>1. usage[month][t] \in Nat /\ Admitted(t) \in SUBSET Req /\ Admitted(t)' \in SUBSET Req
      BY DEF TypeOK, Admitted
    <3>2. CASE r \notin Admitted(t)'
      <4>1. Admitted(t)' \in SUBSET Admitted(t)
        BY <2>0, <3>2 DEF Admitted, Pending, TypeOK
      <4>2. Covered(usage[month][t], Admitted(t)', t)
        BY <3>1, <4>1, CoveredShrink DEF CoverInv, TypeOK
      <4> QED BY <4>2 DEF Covered
    <3>3. CASE r \in Admitted(t)'
      <4>1. t = t0 /\ pc'[r] = "insert"
        BY <2>0, <3>3, ReqAssumption DEF Admitted, Pending, TypeOK
      <4>2. usage[month][t] + req[r].qty <= quota_info[r].limit
        BY <4>1 DEF Refuse, Goto, TypeOK
      <4>3. usage[month][t] + req[r].qty <= LargestQuota(t)
        BY <4>1, <4>2, <3>1, <1>l, QuotaNat DEF PhaseInv, TypeOK
      <4>4. Cardinality(Admitted(t)') <= PoolSize
        <5>1. Admitted(t)' \subseteq Holding'
          BY <2>1 DEF Admitted, Holding, InFlight, Pending, PhaseInv
        <5>2. Holding' \in SUBSET Req
          BY DEF Holding, InFlight
        <5>3. /\ Cardinality(Admitted(t)') <= Cardinality(Holding')
              /\ Cardinality(Admitted(t)') \in Nat /\ Cardinality(Holding') \in Nat
          BY <5>1, <5>2, <3>1, SubsetFinite, FS_Subset
        <5> QED BY <5>3, <2>3, BoundsAssumption DEF PoolInv
      <4>5. Covered(usage[month][t], Admitted(t)', t)
        BY <3>1, <3>3, <4>3, <4>4, CoveredAdmit DEF TypeOK
      <4> QED BY <4>5 DEF Covered
    <3> QED BY <3>2, <3>3
  <2> QED BY <1>t, <2>1, <2>2, <2>3, <2>5, <2>6
<1>6. ASSUME NEW r \in Req, record_usage(r) PROVE IndInv'
  <2> USE <1>6 DEF record_usage, shared, Goto
  <2>0. pc[r] = "insert" /\ event[r] = NoEvent /\ tx[r] # NoTx
    BY DEF PhaseInv
  <2>1. PhaseInv'
    BY <2>0, ReqAssumption DEF PhaseInv, Pending, TypeOK
  <2>2. CacheInv'
    BY DEF CacheInv
  <2>3. PoolInv'
    <3>1. Holding' \subseteq Holding
      BY <2>0 DEF Holding, InFlight, TypeOK
    <3> QED BY <3>1, PoolFrame
  <2>4. SlotInv'
    <3>1. \A o \in Req \ {r} : Pending(o)' <=> Pending(o)
      BY DEF Pending, TypeOK
    <3>2. CASE event'[r] # r
      <4>1. Live' \subseteq Live
        BY <3>1, <3>2 DEF Live, Pending, TypeOK
      <4> QED BY <4>1 DEF SlotInv, Slot
    <3>3. CASE event'[r] = r
      <4>1. Live' \subseteq Live \cup {r}
        BY <3>1 DEF Live
      <4>2. r \notin events
        BY <2>0 DEF PhaseInv
      <4>3. \A e \in events : Slot(e) # Slot(r)
        BY <3>3, <4>2 DEF TypeOK
      <4>4. \A e \in Live \ {r} : Slot(e) # Slot(r)
        BY <4>3 DEF Live
      <4> QED BY <4>1, <4>4 DEF SlotInv, Slot
    <3> QED BY <3>2, <3>3
  <2>5. FutureInv'
    BY DEF FutureInv
  <2>6. CoverInv'
    <3> SUFFICES ASSUME NEW t \in Types PROVE Covered(usage[month][t], Admitted(t), t)'
      BY DEF CoverInv
    <3>1. usage[month][t] \in Nat /\ Admitted(t) \in SUBSET Req
      BY DEF TypeOK, Admitted
    <3>2. Admitted(t)' \in SUBSET Admitted(t)
      BY <2>0 DEF Admitted, Pending, TypeOK
    <3>3. Covered(usage[month][t], Admitted(t)', t)
      BY <3>1, <3>2, CoveredShrink DEF CoverInv, TypeOK
    <3> QED BY <3>3 DEF Covered
  <2> QED BY <1>t, <2>1, <2>2, <2>3, <2>4, <2>5, <2>6
<1>7. ASSUME NEW r \in Req, Respond(r) PROVE IndInv'
  <2> USE <1>7 DEF Respond, Goto
  <2>1. PhaseInv'
    BY DEF PhaseInv, Pending, MeterResponse, TypeOK
  <2>2. CacheInv'
    BY <1>l DEF CacheInv, MeterResponse, TypeOK
  <2>3. PoolInv'
    <3>1. Holding' \subseteq Holding
      BY DEF Holding, InFlight, TypeOK
    <3> QED BY <3>1, PoolFrame
  <2>4. Live' \subseteq Live
    BY DEF Live, Pending, TypeOK
  <2>5. \A t \in Types : Admitted(t)' \subseteq Admitted(t)
    BY DEF Admitted, Pending, TypeOK
  <2> QED BY <1>t, <2>1, <2>2, <2>3, <2>4, <2>5, FrameInv
<1>8. ASSUME NEW r \in Req, Commit(r) PROVE IndInv'
  <2> USE <1>8 DEF Commit, Goto
  <2>0. pc[r] = "commit" /\ reply[r].code = "200" /\ tx[r] <= month
    BY DEF PhaseInv
  <2>1. PhaseInv'
    BY <2>0 DEF PhaseInv, Pending, TypeOK
  <2>2. CacheInv'
    BY DEF CacheInv
  <2>3. PoolInv'
    <3>1. Holding' \subseteq Holding
      BY DEF Holding, InFlight, TypeOK
    <3> QED BY <3>1, PoolFrame
  <2>4. Live' \subseteq Live
    BY <2>0 DEF Live, Pending, TypeOK
  <2>5. \A t \in Types : Admitted(t)' \subseteq Admitted(t)
    BY DEF Admitted, Pending, TypeOK
  <2>6. CASE event[r] # r
    BY <2>6, <1>t, <2>1, <2>2, <2>3, <2>4, <2>5, FrameInv
  <2>7. CASE event[r] = r
    <3>0. tx[r] \in Months /\ req[r].type \in Types
      BY <2>0, <2>7, <1>l DEF PhaseInv, Pending, TypeOK
    <3>1. SlotInv'
      BY <2>4 DEF SlotInv, Slot
    <3>2. \A m \in Months, t \in Types :
            usage'[m][t] = IF m <= tx[r] /\ t = req[r].type
                           THEN usage[m][t] + req[r].qty ELSE usage[m][t]
      BY <2>7 DEF WithRow
    <3>3. FutureInv'
      BY <2>0, <3>0, <3>2, <1>m DEF FutureInv, Months
    <3>4. CoverInv'
      <4> SUFFICES ASSUME NEW t \in Types PROVE Covered(usage[month][t], Admitted(t), t)'
        BY DEF CoverInv
      <4>1. /\ usage[month][t] \in Nat /\ Admitted(t) \in SUBSET Req
            /\ Covered(usage[month][t], Admitted(t), t)
        BY DEF TypeOK, Admitted, CoverInv
      <4>2. r \notin Admitted(t)'
        BY <2>0 DEF Admitted, Pending, TypeOK
      <4>3. Admitted(t)' \in SUBSET (Admitted(t) \ {r})
        BY <2>5, <4>2
      <4>4. CASE t = req[r].type /\ tx[r] = month
        <5>1. r \in Admitted(t)
          BY <4>4, <2>0, <2>7 DEF Admitted, Pending
        <5>2. Covered(usage[month][t] + req[r].qty, Admitted(t) \ {r}, t)
          BY <4>1, <5>1, CoveredCharge DEF TypeOK
        <5>3. usage'[month][t] = usage[month][t] + req[r].qty
          BY <3>2, <4>4, <1>m DEF TypeOK
        <5>4. /\ usage[month][t] + req[r].qty \in Nat
              /\ Admitted(t) \ {r} \in SUBSET Req
          BY <4>1, <1>l
        <5>5. Covered(usage[month][t] + req[r].qty, Admitted(t)', t)
          BY <5>2, <5>4, <4>3, CoveredShrink DEF TypeOK
        <5> QED BY <5>3, <5>5 DEF Covered
      <4>5. CASE ~ (t = req[r].type /\ tx[r] = month)
        <5>1. usage'[month][t] = usage[month][t]
          <6>1. month \in Months
            BY DEF TypeOK
          <6>2. ~ (month <= tx[r] /\ t = req[r].type)
            BY <4>5, <2>0, <1>m
          <6> QED BY <3>2, <6>1, <6>2
        <5>2. Covered(usage[month][t], Admitted(t)', t)
          BY <4>1, <4>3, CoveredShrink DEF TypeOK
        <5> QED BY <5>1, <5>2 DEF Covered
      <4> QED BY <4>4, <4>5
    <3> QED BY <1>t, <2>1, <2>2, <2>3, <3>1, <3>3, <3>4
  <2> QED BY <2>6, <2>7
<1>9. ASSUME NEW r \in Req, StatementFails(r) PROVE IndInv'
  <2> USE <1>9 DEF StatementFails, Refuse, Refusal, shared, Goto
  <2>0. r \notin events
    BY DEF PhaseInv
  <2>1. PhaseInv'
    BY <2>0 DEF PhaseInv, Pending, TypeOK
  <2>2. CacheInv'
    BY DEF CacheInv
  <2>3. PoolInv'
    <3>1. Holding' \subseteq Holding
      BY DEF Holding, InFlight, TypeOK
    <3> QED BY <3>1, PoolFrame
  <2>4. Live' \subseteq Live
    BY DEF Live, Pending, TypeOK
  <2>5. \A t \in Types : Admitted(t)' \subseteq Admitted(t)
    BY DEF Admitted, Pending, TypeOK
  <2> QED BY <1>t, <2>1, <2>2, <2>3, <2>4, <2>5, FrameInv
<1>10. ASSUME NEW r \in Req, CommitFails(r) PROVE IndInv'
  <2> USE <1>10 DEF CommitFails, shared, Goto
  <2>1. PhaseInv'
    BY DEF PhaseInv, Pending, TypeOK
  <2>2. CacheInv'
    BY DEF CacheInv
  <2>3. PoolInv'
    <3>1. Holding' \subseteq Holding
      BY DEF Holding, InFlight, TypeOK
    <3> QED BY <3>1, PoolFrame
  <2>4. Live' \subseteq Live
    BY DEF Live, Pending, TypeOK
  <2>5. \A t \in Types : Admitted(t)' \subseteq Admitted(t)
    BY DEF Admitted, Pending, TypeOK
  <2> QED BY <1>t, <2>1, <2>2, <2>3, <2>4, <2>5, FrameInv
<1>11. CASE Crash
  <2> USE <1>11 DEF Crash, shared
  <2>1. PhaseInv'
    BY DEF PhaseInv, Pending, InFlight, TypeOK
  <2>2. CacheInv'
    BY DEF CacheInv
  <2>3. PoolInv'
    <3>1. Holding' \subseteq Holding
      BY DEF Holding, InFlight, TypeOK
    <3> QED BY <3>1, PoolFrame
  <2>4. Live' \subseteq Live
    BY DEF Live, Pending, InFlight, TypeOK
  <2>5. \A t \in Types : Admitted(t)' \subseteq Admitted(t)
    BY DEF Admitted, Pending, InFlight, TypeOK
  <2> QED BY <1>t, <2>1, <2>2, <2>3, <2>4, <2>5, FrameInv
<1>12. ASSUME NEW s \in Slots, ExpireReply(s) PROVE IndInv'
  <2> USE <1>12 DEF ExpireReply
  <2>1. PhaseInv' /\ PoolInv'
    BY DEF PhaseInv, Pending, PoolInv, Holding, InFlight
  <2>2. CacheInv'
    BY DEF CacheInv, TypeOK
  <2>3. Live' \subseteq Live /\ \A t \in Types : Admitted(t)' \subseteq Admitted(t)
    BY DEF Live, Admitted, Pending
  <2> QED BY <1>t, <2>1, <2>2, <2>3, FrameInv
<1>13. CASE SyncSubscription
  <2> USE <1>13 DEF SyncSubscription
  <2>1. PhaseInv' /\ PoolInv' /\ CacheInv'
    BY DEF PhaseInv, Pending, PoolInv, Holding, InFlight, CacheInv
  <2>2. Live' \subseteq Live /\ \A t \in Types : Admitted(t)' \subseteq Admitted(t)
    BY DEF Live, Admitted, Pending
  <2> QED BY <1>t, <2>1, <2>2, FrameInv
<1>14. CASE NextMonth
  <2> USE <1>14 DEF NextMonth
  <2>1. PhaseInv'
    BY <1>m DEF PhaseInv, Pending
  <2>2. PoolInv' /\ CacheInv' /\ SlotInv'
    BY DEF PoolInv, Holding, InFlight, CacheInv, SlotInv, Live, Pending, Slot
  <2>3. FutureInv'
    BY <1>m DEF FutureInv, Months
  <2>4. CoverInv'
    <3> SUFFICES ASSUME NEW t \in Types PROVE Covered(usage[month][t], Admitted(t), t)'
      BY DEF CoverInv
    <3>1. Admitted(t)' = {}
      BY <1>m DEF Admitted, PhaseInv
    <3>2. usage'[month'][t] = 0
      BY <1>m, <1>t DEF FutureInv, TypeOK
    <3>3. 0 + Cardinality({}) * MaxQty <= Ceiling[t]
      BY FS_EmptySet, QuotaNat, BoundsAssumption
    <3> QED BY <3>1, <3>2, <3>3 DEF Covered
  <2> QED BY <1>t, <2>1, <2>2, <2>3, <2>4
<1>15. CASE UNCHANGED vars
  <2> USE <1>15 DEF vars
  <2>1. PhaseInv' /\ PoolInv' /\ CacheInv'
    BY DEF PhaseInv, Pending, PoolInv, Holding, InFlight, CacheInv
  <2>2. Live' \subseteq Live /\ \A t \in Types : Admitted(t)' \subseteq Admitted(t)
    BY DEF Live, Admitted, Pending
  <2> QED BY <1>t, <2>1, <2>2, FrameInv
<1> QED
  BY <1>1, <1>2, <1>3, <1>4, <1>5, <1>6, <1>7, <1>8, <1>9, <1>10, <1>11, <1>12,
     <1>13, <1>14, <1>15 DEF Next, Serve

\* The inductive invariant holds of every behaviour.
THEOREM Invariant == Spec => []IndInv
<1>1. Init => IndInv
  BY InitInv
<1>2. IndInv /\ [Next]_vars => IndInv'
  BY NextInv
<1> QED BY <1>1, <1>2, PTL DEF Spec

\* However many requests there are, the connection pool bounds how far the gap
\* between the quota check and the insert lets them overrun the quota of the
\* current month: MaxQty for every connection but one.
THEOREM Overshoot == Spec => []OvershootBounded
<1>1. IndInv => OvershootBounded
  <2> SUFFICES ASSUME IndInv, NEW t \in Types PROVE usage[month][t] <= Ceiling[t]
    BY DEF OvershootBounded
  <2>1. usage[month][t] \in Nat /\ Ceiling[t] \in Nat
    BY QuotaNat DEF IndInv, TypeOK
  <2>2. Covered(usage[month][t], {}, t)
    <3>1. Admitted(t) \in SUBSET Req /\ {} \in SUBSET Admitted(t)
      BY DEF Admitted
    <3> QED BY <2>1, <3>1, CoveredShrink DEF IndInv, CoverInv, TypeOK
  <2>3. usage[month][t] + Cardinality({}) * MaxQty <= Ceiling[t]
    BY <2>2 DEF Covered
  <2> QED BY <2>1, <2>3, FS_EmptySet, BoundsAssumption
<1> QED BY <1>1, Invariant, PTL

\* A refused request has left nothing in the table and nothing on its way there.
THEOREM RefusedLeavesNothing == Spec => []RefusedNotCharged
<1>1. IndInv => RefusedNotCharged
  <2> SUFFICES ASSUME IndInv, NEW r \in Req, reply[r].code \notin {"none", "200"}
               PROVE  r \notin events /\ ~ Pending(r)
    BY DEF RefusedNotCharged
  <2> QED BY DEF IndInv, PhaseInv, Pending
<1> QED BY <1>1, Invariant, PTL

====
