---- MODULE Metering ----
(***************************************************************************)
(* POST /api/v1/meter for one tenant: the requests of its clients run      *)
(* interleaved, each through the same sequence of awaits                   *)
(*                                                                         *)
(*   authenticate -> idempotency lookup -> subscription -> monthly usage   *)
(*     -> insert -> store the reply and answer -> commit                   *)
(*                                                                         *)
(* against the state they share: the usage_events table (PostgreSQL, READ  *)
(* COMMITTED), the Redis idempotency cache, the connection pool, the       *)
(* subscription row that the Stripe webhooks write, and the calendar.      *)
(* Every query of this path filters on tenant_id, so tenants do not meet.  *)
(*                                                                         *)
(* Two facts of the code fix the order of the last two steps: get_db       *)
(* commits after its yield, which FastAPI resumes once the answer is sent, *)
(* and the handler stores the reply in Redis before it returns.            *)
(***************************************************************************)
EXTENDS Integers, FiniteSets

CONSTANTS
    Req,            \* requests; a retry of a client is a request of its own
    Keys,           \* idempotency keys
    Types,          \* usage types
    ApiCall,        \* the usage type that has the plan's api_call_quota
    MaxQty,         \* largest qty a request may carry
    Plan,           \* the plans table: tier -> quotas
    Subscriptions,  \* values the tenant's subscription row takes
    Workloads,      \* what the requests ask for, one function per scenario
    PoolSize,       \* DATABASE_POOL_SIZE + DATABASE_MAX_OVERFLOW
    MaxInFlight,    \* bound: requests the clients keep in flight at once
    LastMonth,      \* bound on the calendar
    MayFail,        \* statements and commits may fail, the process may crash
    CacheMayFail,   \* Redis may be unreachable or drop an entry
    NoEvent         \* no usage event

Tiers    == {"FREE", "PRO"}
Statuses == {"active", "past_due", "canceled", "incomplete", "trialing", "none"}
Metered  == {"active", "trialing", "incomplete"}
Request  == [key : Keys, type : Types, qty : 1 .. MaxQty]

ASSUME ReqAssumption ==
    /\ IsFiniteSet(Req)
    /\ NoEvent \notin Req
ASSUME BoundsAssumption ==
    /\ MaxQty \in Nat \ {0}
    /\ PoolSize \in Nat \ {0}
    /\ MaxInFlight \in Nat \ {0}
    /\ LastMonth \in Nat \ {0}
ASSUME PlanAssumption ==
    /\ ApiCall \in Types
    /\ Plan \in [Tiers -> [api_call_quota : Nat, ai_token_quota : Nat]]
ASSUME EnvAssumption ==
    /\ Subscriptions \subseteq [status : Statuses, plan : Tiers]
    /\ Workloads \subseteq [Req -> Request]
    /\ MayFail \in BOOLEAN /\ CacheMayFail \in BOOLEAN

Months == 1 .. LastMonth
NoTx   == 0

VARIABLES
    pc,            \* pc[r]: the step request r performs next
    req,           \* req[r]: what r asks for
    tx,            \* tx[r]: month in which r's transaction began, or NoTx
    quota_info,    \* quota_info[r]: the limit and the usage r has read
    event,         \* event[r]: the usage event r holds, named by the request
                   \* whose insert created it
    reply,         \* reply[r]: what the client of r has received
    events,        \* committed rows of usage_events
    usage,         \* usage[m][t]: sum of the quantities of the committed rows
                   \* of type t whose created_at is in month m or later
    cache,         \* cache[s]: the stored reply of slot s
    subscription,  \* the tenant's row of subscriptions
    month          \* the current UTC month

vars == <<pc, req, tx, quota_info, event, reply, events, usage, cache,
          subscription, month>>
shared == <<events, usage, cache, subscription, month>>

Phases == {"arrive", "lookup", "quota", "usage", "insert", "respond", "commit", "done"}
Codes  == {"none", "200", "401", "402", "429", "500"}
Reply  == [code : Codes, event : Req \cup {NoEvent}, remaining : Nat]

NoReply       == [code |-> "none", event |-> NoEvent, remaining |-> 0]
Refusal(code) == [code |-> code, event |-> NoEvent, remaining |-> 0]

\* The columns of the unique constraint (the tenant is fixed).
Slot(r) == <<req[r].key, req[r].type>>
Slots   == Keys \X Types

InFlight == {r \in Req : pc[r] \notin {"arrive", "done"}}

\* Mutant: sessions are never closed, so no connection returns to the pool.
Holding_NeverClosed == {r \in Req : tx[r] # NoTx}

\* Requests whose session has checked a connection out of the pool.
Holding        == {r \in InFlight : tx[r] # NoTx}
ConnectionFree == Cardinality(Holding) < PoolSize

\* r has inserted a row that no other transaction sees yet.
Pending(r) == event[r] = r /\ pc[r] \in {"respond", "commit"}

QuotaOf(plan, t) ==
    IF t = ApiCall THEN Plan[plan].api_call_quota ELSE Plan[plan].ai_token_quota

\* What get_monthly_usage returns for start_of_month in month m.
get_monthly_usage(t, m) == usage[m][t]

WithRow(t, q, m) ==
    [n \in Months |-> [u \in Types |->
        IF n <= m /\ u = t THEN usage[n][u] + q ELSE usage[n][u]]]

\* Mutant: the subtraction the wrong way round.
Remaining_Swapped(r) == quota_info[r].used + req[r].qty - quota_info[r].limit

Remaining(r) ==
    LET left == quota_info[r].limit - (quota_info[r].used + req[r].qty)
    IN  IF left > 0 THEN left ELSE 0

MeterResponse(r) ==
    [code |-> "200", event |-> event[r], remaining |-> Remaining(r)]

Init ==
    /\ pc = [r \in Req |-> "arrive"]
    /\ req \in Workloads
    /\ tx = [r \in Req |-> NoTx]
    /\ quota_info = [r \in Req |-> [used |-> 0, limit |-> 0]]
    /\ event = [r \in Req |-> NoEvent]
    /\ reply = [r \in Req |-> NoReply]
    /\ events = {}
    /\ usage = [m \in Months |-> [t \in Types |-> 0]]
    /\ cache = [s \in Slots |-> NoReply]
    /\ subscription \in Subscriptions
    /\ month = 1

----
\* Steps of one request.

Goto(r, phase) == pc' = [pc EXCEPT ![r] = phase]

\* Mutant: get_db commits in a finally clause, after an exception too.
Refuse_Commits(r, code) ==
    /\ Goto(r, IF pc[r] = "respond" THEN "commit" ELSE "done")
    /\ reply' = [reply EXCEPT ![r] = Refusal(code)]

\* An exception leaves the endpoint: get_db rolls back and closes the session,
\* and the client receives the error.
Refuse(r, code) ==
    /\ Goto(r, "done")
    /\ reply' = [reply EXCEPT ![r] = Refusal(code)]

\* Mutant: the engine's pool hands out connections without a limit.
Begin_Unpooled(r) == tx' = [tx EXCEPT ![r] = IF tx[r] = NoTx THEN month ELSE tx[r]]

\* The first statement of a session takes a connection and begins the
\* transaction; PostgreSQL's now(), the created_at of its rows, is its start.
Begin(r) ==
    /\ tx[r] # NoTx \/ ConnectionFree
    /\ tx' = [tx EXCEPT ![r] = IF tx[r] = NoTx THEN month ELSE tx[r]]

\* get_current_tenant: the tenant comes from Redis, or from the database on
\* the session the endpoint goes on with; a bad API key is answered 401.
get_current_tenant(r) ==
    /\ pc[r] = "arrive"
    /\ Cardinality(InFlight) < MaxInFlight
    /\ \/ tx' = tx /\ Goto(r, "lookup") /\ reply' = reply
       \/ Begin(r) /\ Goto(r, "lookup") /\ reply' = reply
       \/ tx' = tx /\ Refuse(r, "401")
    /\ UNCHANGED <<req, quota_info, event, shared>>

\* check_idempotency_key finds the reply of an earlier request.
ReplayCached(r) ==
    /\ pc[r] = "lookup"
    /\ cache[Slot(r)] # NoReply
    /\ reply' = [reply EXCEPT ![r] = cache[Slot(r)]]
    /\ Goto(r, "commit")
    /\ UNCHANGED <<req, tx, quota_info, event, shared>>

\* It finds nothing, or Redis does not answer: cache_get returns None for both.
MissCached(r) ==
    /\ pc[r] = "lookup"
    /\ cache[Slot(r)] = NoReply \/ CacheMayFail
    /\ Goto(r, "quota")
    /\ UNCHANGED <<req, tx, quota_info, event, reply, shared>>

\* check_quota reads the subscription and its plan.
ReadSubscription(r) ==
    /\ pc[r] = "quota"
    /\ Begin(r)
    /\ \/ /\ subscription.status \in Metered
          /\ quota_info' = [quota_info EXCEPT ![r].limit =
                              QuotaOf(subscription.plan, req[r].type)]
          /\ Goto(r, "usage")
          /\ UNCHANGED reply
       \/ /\ subscription.status \notin Metered
          /\ Refuse(r, "402")
          /\ UNCHANGED quota_info
    /\ UNCHANGED <<req, event, shared>>

\* Mutant: the quota is compared with what is used, without what is requested.
ReadUsage_IgnoresRequest(r) ==
    LET used == get_monthly_usage(req[r].type, month)
    IN  /\ pc[r] = "usage"
        /\ \/ /\ used < quota_info[r].limit
              /\ quota_info' = [quota_info EXCEPT ![r].used = used]
              /\ Goto(r, "insert")
              /\ UNCHANGED reply
           \/ /\ used >= quota_info[r].limit
              /\ Refuse(r, "429")
              /\ UNCHANGED quota_info
        /\ UNCHANGED <<req, tx, event, shared>>

\* check_quota takes start_of_month from the clock, sums the usage since and
\* compares it with the limit.
ReadUsage(r) ==
    LET used == get_monthly_usage(req[r].type, month)
    IN  /\ pc[r] = "usage"
        /\ \/ /\ used + req[r].qty <= quota_info[r].limit
              /\ quota_info' = [quota_info EXCEPT ![r].used = used]
              /\ Goto(r, "insert")
              /\ UNCHANGED reply
           \/ /\ used + req[r].qty > quota_info[r].limit
              /\ Refuse(r, "429")
              /\ UNCHANGED quota_info
        /\ UNCHANGED <<req, tx, event, shared>>

\* Mutant: a SELECT looks for the slot before a plain INSERT, with no unique
\* constraint behind it.
record_usage_SelectFirst(r) ==
    /\ pc[r] = "insert"
    /\ \/ \E e \in events :
            /\ Slot(e) = Slot(r)
            /\ event' = [event EXCEPT ![r] = e]
       \/ /\ \A e \in events : Slot(e) # Slot(r)
          /\ event' = [event EXCEPT ![r] = r]
    /\ Goto(r, "respond")
    /\ UNCHANGED <<req, tx, quota_info, reply, shared>>

\* INSERT ... ON CONFLICT DO NOTHING waits for the transaction that holds an
\* uncommitted row of the slot; a committed row is then selected and returned.
record_usage(r) ==
    /\ pc[r] = "insert"
    /\ \A o \in Req \ {r} : Pending(o) => Slot(o) # Slot(r)
    /\ \/ \E e \in events :
            /\ Slot(e) = Slot(r)
            /\ event' = [event EXCEPT ![r] = e]
       \/ /\ \A e \in events : Slot(e) # Slot(r)
          /\ event' = [event EXCEPT ![r] = r]
    /\ Goto(r, "respond")
    /\ UNCHANGED <<req, tx, quota_info, reply, shared>>

\* store_idempotency_response, whose failure is silent, then the answer.
Respond(r) ==
    /\ pc[r] = "respond"
    /\ \/ cache' = [cache EXCEPT ![Slot(r)] = MeterResponse(r)]
       \/ CacheMayFail /\ cache' = cache
    /\ reply' = [reply EXCEPT ![r] = MeterResponse(r)]
    /\ Goto(r, "commit")
    /\ UNCHANGED <<req, tx, quota_info, event, events, usage, subscription, month>>

\* Mutant: get_db closes the session without a commit.
Commit_Forgotten(r) ==
    /\ pc[r] = "commit"
    /\ Goto(r, "done")
    /\ UNCHANGED <<req, tx, quota_info, event, reply, shared>>

\* get_db resumes after the yield: the row, if r created one, is committed and
\* the connection returns to the pool.
Commit(r) ==
    /\ pc[r] = "commit"
    /\ IF event[r] = r
       THEN /\ events' = events \cup {r}
            /\ usage' = WithRow(req[r].type, req[r].qty, tx[r])
       ELSE UNCHANGED <<events, usage>>
    /\ Goto(r, "done")
    /\ UNCHANGED <<req, tx, quota_info, event, reply, cache, subscription, month>>

----
\* Failures.

\* A statement raises, or no connection is handed out in time: 500, rolled
\* back. The insert loads the row's tenant with a statement of its own, so the
\* row may be there (phase "respond") when that happens.
StatementFails(r) ==
    /\ MayFail
    /\ pc[r] \in {"quota", "usage", "insert", "respond"}
    /\ Refuse(r, "500")
    /\ UNCHANGED <<req, tx, quota_info, event, shared>>

\* The commit raises after the answer has been sent: get_db rolls back.
CommitFails(r) ==
    /\ MayFail
    /\ pc[r] = "commit"
    /\ Goto(r, "done")
    /\ UNCHANGED <<req, tx, quota_info, event, reply, shared>>

\* The process dies: what is in flight is gone, its transactions roll back.
Crash ==
    /\ MayFail
    /\ InFlight # {}
    /\ pc' = [r \in Req |-> IF r \in InFlight THEN "done" ELSE pc[r]]
    /\ UNCHANGED <<req, tx, quota_info, event, reply, shared>>

----
\* The environment.

\* The time to live of an entry passes, or Redis evicts or loses it.
ExpireReply(s) ==
    /\ CacheMayFail
    /\ cache[s] # NoReply
    /\ cache' = [cache EXCEPT ![s] = NoReply]
    /\ UNCHANGED <<pc, req, tx, quota_info, event, reply, events, usage,
                   subscription, month>>

\* A Stripe webhook commits a new state of the subscription row.
SyncSubscription ==
    /\ \E s \in Subscriptions \ {subscription} : subscription' = s
    /\ UNCHANGED <<pc, req, tx, quota_info, event, reply, events, usage, cache, month>>

\* Midnight UTC before the first day of a month.
NextMonth ==
    /\ month < LastMonth
    /\ month' = month + 1
    /\ UNCHANGED <<pc, req, tx, quota_info, event, reply, events, usage, cache,
                   subscription>>

----
Serve(r) ==
    \/ get_current_tenant(r)
    \/ ReplayCached(r)
    \/ MissCached(r)
    \/ ReadSubscription(r)
    \/ ReadUsage(r)
    \/ record_usage(r)
    \/ Respond(r)
    \/ Commit(r)

Next ==
    \/ \E r \in Req : Serve(r) \/ StatementFails(r) \/ CommitFails(r)
    \/ Crash
    \/ \E s \in Slots : ExpireReply(s)
    \/ SyncSubscription
    \/ NextMonth

Spec == Init /\ [][Next]_vars

\* The event loop resumes every request that can go on; no client has to send.
FairSpec == Spec /\ \A r \in Req : WF_vars(pc[r] # "arrive" /\ Serve(r))

----
\* Properties.

TypeOK ==
    /\ pc \in [Req -> Phases]
    /\ req \in [Req -> Request]
    /\ tx \in [Req -> Months \cup {NoTx}]
    /\ quota_info \in [Req -> [used : Nat, limit : Nat]]
    /\ event \in [Req -> Req \cup {NoEvent}]
    /\ reply \in [Req -> Reply]
    /\ events \subseteq Req
    /\ usage \in [Months -> [Types -> Nat]]
    /\ cache \in [Slots -> Reply]
    /\ subscription \in [status : Statuses, plan : Tiers]
    /\ month \in Months

\* The larger of the quotas the two tiers give a usage type.
LargestQuota(t) ==
    IF QuotaOf("FREE", t) >= QuotaOf("PRO", t) THEN QuotaOf("FREE", t) ELSE QuotaOf("PRO", t)

Ceiling == [t \in Types |-> LargestQuota(t) + (PoolSize - 1) * MaxQty]

----
\* The inductive invariant behind OvershootBounded and LedgerSpec.

\* Rows the table holds or is about to hold.
Live == events \cup {r \in Req : Pending(r)}

\* Requests that have passed the quota check for type t and may still charge
\* the current month.
Admitted(t) ==
    {r \in Req : (pc[r] = "insert" \/ Pending(r)) /\ req[r].type = t /\ tx[r] = month}

\* Charging MaxQty for every request in A keeps u under the ceiling, or it does
\* when the one admitted last is charged what it asked for.
Covered(u, A, t) ==
    \/ u + Cardinality(A) * MaxQty <= Ceiling[t]
    \/ \E last \in A :
          u + req[last].qty + Cardinality(A \ {last}) * MaxQty <= Ceiling[t]

PhaseInv ==
    \A r \in Req :
        /\ pc[r] = "arrive" => tx[r] = NoTx
        /\ pc[r] \in {"usage", "insert"} \/ Pending(r) => tx[r] # NoTx
        /\ pc[r] \in {"arrive", "lookup", "quota", "usage", "insert"} => event[r] = NoEvent
        /\ pc[r] = "respond" => event[r] # NoEvent
        /\ pc[r] \notin {"commit", "done"} => reply[r].code = "none"
        /\ pc[r] = "commit" => reply[r].code = "200"
        /\ r \in events => pc[r] = "done" /\ reply[r].code = "200"
        /\ tx[r] <= month
        /\ quota_info[r].limit <= LargestQuota(req[r].type)

CacheInv  == \A s \in Slots : cache[s] = NoReply \/ cache[s].code = "200"
PoolInv   == Cardinality(Holding) <= PoolSize
SlotInv   == \A e, f \in Live : e # f => Slot(e) # Slot(f)
FutureInv == \A m \in Months, t \in Types : m > month => usage[m][t] = 0
CoverInv  == \A t \in Types : Covered(usage[month][t], Admitted(t), t)

\* The statements of every admitted request run on a connection of the pool, no
\* two rows share a slot, nothing is charged to a month to come, and every type
\* is covered in the current one.
IndInv ==
    TypeOK /\ PhaseInv /\ CacheInv /\ PoolInv /\ SlotInv /\ FutureInv /\ CoverInv

\* How far concurrent requests can overrun a quota: the check and the insert
\* are separate statements (quota_service.py:48, usage_repo.py:35), but every
\* request between the two holds a pooled connection, so in the current month
\* a type never exceeds its quota by more than MaxQty for every connection but
\* one. Requests that began before midnight fall outside the month they read.
OvershootBounded == \A t \in Types : usage[month][t] <= Ceiling[t]

\* A request that was refused (401, 402, 429 or 500) leaves no usage behind,
\* neither committed nor still to be committed: the exception makes get_db roll
\* back, also when it is raised after the insert.
RefusedNotCharged ==
    \A r \in Req :
        reply[r].code \notin {"none", "200"} => r \notin events /\ ~Pending(r)

\* A client told 200 (with recorded = True) holds the id of a usage event of its
\* own slot that is committed or still on its way to the commit.
AnsweredIsRecorded ==
    \A r \in Req : reply[r].code = "200" =>
        LET e == reply[r].event
        IN  e \in Req /\ Slot(e) = Slot(r) /\ (e \in events \/ Pending(e))

\* All the 200 answers to one idempotency key and usage type name one usage
\* event, whichever of the cache, the unique constraint and the wait for an
\* uncommitted row they met, and whatever Redis forgot in between.
RepliesNameOneEvent ==
    \A r, o \in Req :
        reply[r].code = "200" /\ reply[o].code = "200" /\ Slot(r) = Slot(o)
            => reply[r].event = reply[o].event

\* Every request that was let in is answered: waiting for a connection, or for
\* the transaction that holds a row of the same slot, always ends.
AllAnswered ==
    \A r \in Req : pc[r] # "arrive" ~> pc[r] = "done" /\ reply[r] # NoReply

\* The table is charged as UsageLedger promises: every slot at most once, the
\* current month under its ceiling.
Ledger == INSTANCE UsageLedger WITH
    Slots <- Slots, Types <- Types, Quantities <- 1 .. MaxQty,
    LastMonth <- LastMonth, Ceiling <- Ceiling,
    charged <- {Slot(e) : e \in events}, total <- usage, month <- month

LedgerSpec == Ledger!Spec

\* What the README says of the quota: the boundary is absolute.
QuotaIsAbsolute == \A t \in Types : usage[month][t] <= LargestQuota(t)

\* What the README says of the idempotency key: a duplicate of a request whose
\* event is recorded gets its response, so it is never refused for the quota
\* that the recorded event itself used up.
ReplayNotRefused ==
    [][\A r \in Req :
        reply'[r] # reply[r] /\ reply'[r].code = "429"
            => \A e \in events : Slot(e) # Slot(r)]_vars

====
