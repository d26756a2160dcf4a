---- MODULE UsageReport ----
(***************************************************************************)
(* GET /api/v1/usage for one tenant, while metering commits rows, webhooks *)
(* change the plan and months begin.  A report that is not cached is put   *)
(* together by the statements                                              *)
(*                                                                         *)
(*   subscription and plan -> usage by type -> total cost -> usage by type *)
(*                                                                         *)
(* each of which sees what is committed when it runs (READ COMMITTED); the *)
(* clock is read for the cache key, for the quotas and for the period.     *)
(***************************************************************************)
EXTENDS Pricing

CONSTANTS
    Readers,      \* the requests for the report, one after another for each reader
    Quantities,   \* quantities metering records
    Plans,        \* plans the tenant may be on
    MaxRows,      \* bound: rows of usage_events
    LastMonth,    \* bound on the calendar
    NoReport,     \* no report
    NoPlan        \* the tenant has no active subscription

ASSUME TableAssumption ==
    /\ Quantities \subseteq Nat \ {0}
    /\ MaxRows \in Nat
    /\ LastMonth \in Nat \ {0}
    /\ NoPlan \notin Plans

\* settings.py gives both the same price, and the report charges both as output.
ASSUME OutputPriceAssumption == Price["reasoning_tokens"] = Price["output_tokens"]

Months  == 1 .. LastMonth
Amounts == [UsageTypes -> Nat]
Nothing == [t \in UsageTypes |-> 0]

Report == [plan  : Plans \cup {NoPlan},
           since : Months,    \* month whose start get_all_quotas used
           used  : Amounts,   \* usage by type as get_all_quotas read it
           period : Months,   \* start_of_month of the endpoint
           total : Nat,       \* the total cost, in micro-units
           split : Amounts]   \* usage by type as the endpoint read it again

ASSUME NoReportAssumption == NoReport \notin Report

VARIABLES
    month,   \* the current UTC month
    plan,    \* the plan of the tenant's active subscription
    rows,    \* rows[m]: number of committed rows created in month m or later
    usage,   \* usage[m][t]: sum of their quantities, by type
    cost,    \* cost[m]: sum of their cost_microunits
    pc,      \* pc[g]: next step of reader g
    key,     \* key[g]: the month in g's cache key
    report,  \* report[g]: the report g is putting together
    answer,  \* answer[g]: the last report g has received
    cache    \* cache[m]: the report stored under the key of month m

vars == <<month, plan, rows, usage, cost, pc, key, report, answer, cache>>
table == <<rows, usage, cost>>
clock == <<month, plan>>

Blank == [plan |-> NoPlan, since |-> 1, used |-> Nothing, period |-> 1, total |-> 0,
          split |-> Nothing]

Init ==
    /\ month = 1
    /\ plan \in Plans \cup {NoPlan}
    /\ rows = [m \in Months |-> 0]
    /\ usage = [m \in Months |-> Nothing]
    /\ cost = [m \in Months |-> 0]
    /\ pc = [g \in Readers |-> "idle"]
    /\ key = [g \in Readers |-> 1]
    /\ report = [g \in Readers |-> Blank]
    /\ answer = [g \in Readers |-> NoReport]
    /\ cache = [m \in Months |-> NoReport]

----
Goto(g, step) == pc' = [pc EXCEPT ![g] = step]

\* Mutant: the cache key does not name the month.
CacheKey_NoMonth(m) == 1

\* The month of the clock names the entry of the cache.
CacheKey(m) == m

\* The stored report is the answer if there is one.
Lookup(g) ==
    /\ pc[g] = "idle"
    /\ key' = [key EXCEPT ![g] = month]
    /\ LET cached == cache[CacheKey(month)]
       IN  \/ /\ cached # NoReport
              /\ answer' = [answer EXCEPT ![g] = cached]
              /\ UNCHANGED pc
           \/ /\ cached = NoReport
              /\ Goto(g, "plan")
              /\ answer' = [answer EXCEPT ![g] = NoReport]
    /\ UNCHANGED <<clock, table, report, cache>>

\* get_all_quotas begins with the subscription and its plan; 404 without one.
ReadPlan(g) ==
    /\ pc[g] = "plan"
    /\ Goto(g, IF plan = NoPlan THEN "idle" ELSE "quotas")
    /\ report' = [report EXCEPT ![g].plan = plan]
    /\ UNCHANGED <<clock, table, key, answer, cache>>

\* Its second part: the usage of the month, by type.
ReadQuotas(g) ==
    /\ pc[g] = "quotas"
    /\ Goto(g, "cost")
    /\ report' = [report EXCEPT ![g].since = month, ![g].used = usage[month]]
    /\ UNCHANGED <<clock, table, key, answer, cache>>

\* Mutant: the sum over no rows is null.
get_monthly_cost_NoCoalesce(g) ==
    /\ pc[g] = "cost"
    /\ Goto(g, "breakdown")
    /\ report' = [report EXCEPT ![g].period = month,
                     ![g].total = IF rows[month] = 0 THEN NoReport ELSE cost[month]]
    /\ UNCHANGED <<clock, table, key, answer, cache>>

\* get_monthly_cost, with the period taken from the clock again.
get_monthly_cost(g) ==
    /\ pc[g] = "cost"
    /\ Goto(g, "breakdown")
    /\ report' = [report EXCEPT ![g].period = month, ![g].total = cost[month]]
    /\ UNCHANGED <<clock, table, key, answer, cache>>

\* Mutant: the breakdown sums the rows of all months.
get_monthly_usage_breakdown_AllTime(g) ==
    /\ pc[g] = "breakdown"
    /\ Goto(g, "answer")
    /\ report' = [report EXCEPT ![g].split = usage[1]]
    /\ UNCHANGED <<clock, table, key, answer, cache>>

get_monthly_usage_breakdown(g) ==
    /\ pc[g] = "breakdown"
    /\ Goto(g, "answer")
    /\ report' = [report EXCEPT ![g].split = usage[report[g].period]]
    /\ UNCHANGED <<clock, table, key, answer, cache>>

\* The report is stored, if Redis lets it, and answered.
Respond(g) ==
    /\ pc[g] = "answer"
    /\ \/ cache' = [cache EXCEPT ![CacheKey(key[g])] = report[g]]
       \/ cache' = cache
    /\ answer' = [answer EXCEPT ![g] = report[g]]
    /\ Goto(g, "idle")
    /\ report' = [report EXCEPT ![g] = Blank]
    /\ UNCHANGED <<clock, table, key>>

----
\* The environment.

\* Metering commits a row whose transaction began in month m.
record_usage(t, q, m) ==
    /\ rows[1] < MaxRows
    /\ m \in {month - 1, month} \cap Months
    /\ rows'  = [n \in Months |-> IF n <= m THEN rows[n] + 1 ELSE rows[n]]
    /\ usage' = [n \in Months |->
                    IF n <= m THEN [usage[n] EXCEPT ![t] = @ + q] ELSE usage[n]]
    /\ cost'  = [n \in Months |-> IF n <= m THEN cost[n] + calculate(t, q) ELSE cost[n]]
    /\ UNCHANGED <<clock, pc, key, report, answer, cache>>

\* A webhook commits another plan, or the end of the subscription.
SyncSubscription ==
    /\ \E p \in (Plans \cup {NoPlan}) \ {plan} : plan' = p
    /\ UNCHANGED <<month, table, pc, key, report, answer, cache>>

NextMonth ==
    /\ month < LastMonth
    /\ month' = month + 1
    /\ UNCHANGED <<plan, table, pc, key, report, answer, cache>>

\* 30 seconds pass, or Redis loses the entry.
ExpireReport(m) ==
    /\ cache[m] # NoReport
    /\ cache' = [cache EXCEPT ![m] = NoReport]
    /\ UNCHANGED <<clock, table, pc, key, report, answer>>

get_usage(g) ==
    \/ Lookup(g)
    \/ ReadPlan(g)
    \/ ReadQuotas(g)
    \/ get_monthly_cost(g)
    \/ get_monthly_usage_breakdown(g)
    \/ Respond(g)

Next ==
    \/ \E g \in Readers : get_usage(g)
    \/ \E t \in UsageTypes, q \in Quantities, m \in Months : record_usage(t, q, m)
    \/ SyncSubscription
    \/ NextMonth
    \/ \E m \in Months : ExpireReport(m)

Spec == Init /\ [][Next]_vars

----
\* What a report shows.

\* Mutant: reasoning tokens are left out of the output they are billed with.
token_cost_NoReasoning(r) ==
    calculate("input_tokens", r.split["input_tokens"])
    + calculate("cached_input_tokens", r.split["cached_input_tokens"])
    + calculate("output_tokens", r.split["output_tokens"])

\* sum(token_breakdown.values()): reasoning tokens are billed as output.
token_cost(r) ==
    calculate("input_tokens", r.split["input_tokens"])
    + calculate("cached_input_tokens", r.split["cached_input_tokens"])
    + calculate("output_tokens", r.split["output_tokens"] + r.split["reasoning_tokens"])

api_calls_cost_cents(r) == microunits_to_cents(calculate("api_call", r.used["api_call"]))
ai_tokens_cost_cents(r) == microunits_to_cents(token_cost(r))
total_cost_cents(r)     == microunits_to_cents(r.total)

----
\* Properties.

TypeOK ==
    /\ month \in Months
    /\ plan \in Plans \cup {NoPlan}
    /\ rows \in [Months -> Nat]
    /\ usage \in [Months -> Amounts]
    /\ cost \in [Months -> Nat]
    /\ pc \in [Readers -> {"idle", "plan", "quotas", "cost", "breakdown", "answer"}]
    /\ key \in [Readers -> Months]
    /\ report \in [Readers -> Report]
    /\ answer \in [Readers -> Report \cup {NoReport}]
    /\ cache \in [Months -> Report \cup {NoReport}]

\* A thousand times the exact cost of some amounts.
Exact(u) ==
    Price["api_call"] * u["api_call"]
    + Price["input_tokens"] * u["input_tokens"]
    + Price["cached_input_tokens"] * u["cached_input_tokens"]
    + Price["output_tokens"] * u["output_tokens"]
    + Price["reasoning_tokens"] * u["reasoning_tokens"]

Within(x, y, d) == x - y <= d /\ y - x <= d

\* Every row is rounded by itself, so the stored costs drift from the exact
\* cost of the stored quantities by at most half a micro-unit a row.
DriftBounded == \A m \in Months : Within(1000 * cost[m], Exact(usage[m]), 500 * rows[m])

\* Reports that a reader has or may still get.
Shown == {answer[g] : g \in Readers} \cup {cache[m] : m \in Months}

\* No row was committed, and no month began, between the statements of r.
Undisturbed(r) == r.since = r.period /\ r.used = r.split

\* The total of a report is the sum of rounded rows, its parts are rounded sums,
\* and all three lose their fraction of a cent: when the statements saw the same
\* rows the total is off the parts by less than two cents and half a micro-unit
\* for each row and each of the four parts.
TotalsAgree ==
    \A r \in Shown \ {NoReport} : Undisturbed(r) =>
        LET gap   == total_cost_cents(r) - (api_calls_cost_cents(r) + ai_tokens_cost_cents(r))
            slack == rows[r.period] + 4
        IN  -(2 * 9999 + slack) <= 20000 * gap /\ 20000 * gap <= 4 * 9999 + slack

\* A report is never about a month that was over when it was asked for, however
\* long it has been in the cache and whenever the month ended while it was put
\* together.
ReportOfThisMonth ==
    \A g \in Readers : answer[g] # NoReport => answer[g].period >= key[g]

\* The amounts of a report never go beyond the rows of its months: it may be
\* late, never ahead of the table.
NeverAhead ==
    \A r \in Shown \ {NoReport} : \A t \in UsageTypes :
        r.used[t] <= usage[r.since][t] /\ r.split[t] <= usage[r.period][t]

====
