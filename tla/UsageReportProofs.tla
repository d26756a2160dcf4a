---- MODULE UsageReportProofs ----
(***************************************************************************)
(* Theorems about Pricing and UsageReport, for all prices, quantities,     *)
(* plans, readers and calendars.                                           *)
(***************************************************************************)
EXTENDS UsageReport, TLAPS

----
\* Rounding.

\* A cost is the natural number nearest to the exact one.
LEMMA Nearest ==
    ASSUME NEW q \in Nat, NEW p \in Nat
    PROVE  /\ calculate_cost_microunits(q, p) \in Nat
           /\ Within(1000 * calculate_cost_microunits(q, p), p * q, 500)
<1> DEFINE x == q * p
<1>1. x \in Nat /\ p * q = x
  OBVIOUS
<1>2. CASE q <= 0 \/ p <= 0
  <2>1. x = 0 /\ calculate_cost_microunits(q, p) = 0
    BY <1>2 DEF calculate_cost_microunits
  <2> QED BY <2>1, <1>1 DEF Within
<1>3. CASE ~(q <= 0 \/ p <= 0)
  <2>1. calculate_cost_microunits(q, p) = (2 * x + 1000) \div 2000
    BY <1>3 DEF calculate_cost_microunits
  <2> HIDE DEF x
  <2> QED BY <2>1, <1>1 DEF Within
<1> QED BY <1>2, <1>3

LEMMA CalculateNearest ==
    ASSUME NEW t \in UsageTypes, NEW q \in Nat
    PROVE  /\ calculate(t, q) \in Nat
           /\ Within(1000 * calculate(t, q), Price[t] * q, 500)
<1>1. Price[t] \in Nat
  BY PriceAssumption
<1> QED BY <1>1, Nearest DEF calculate

\* More units never cost less.
THEOREM Monotone ==
    ASSUME NEW q \in Nat, NEW r \in Nat, q <= r, NEW p \in Nat
    PROVE  calculate_cost_microunits(q, p) <= calculate_cost_microunits(r, p)
<1>1. q * p <= r * p
  <2>1. r - q \in Nat /\ (r - q) * p \in Nat
    OBVIOUS
  <2>2. r * p = q * p + (r - q) * p
    OBVIOUS
  <2>3. q * p \in Nat /\ r * p \in Nat
    OBVIOUS
  <2> QED BY <2>1, <2>2, <2>3
<1> DEFINE x == q * p
           y == r * p
<1>2. x \in Nat /\ y \in Nat /\ x <= y
  BY <1>1
<1>3. calculate_cost_microunits(q, p) =
        IF q <= 0 \/ p <= 0 THEN 0 ELSE (2 * x + 1000) \div 2000
  BY DEF calculate_cost_microunits
<1>4. calculate_cost_microunits(r, p) =
        IF r <= 0 \/ p <= 0 THEN 0 ELSE (2 * y + 1000) \div 2000
  BY DEF calculate_cost_microunits
<1> HIDE DEF x, y
<1> QED BY <1>2, <1>3, <1>4

\* Billing units in two events instead of one changes the cost by at most one
\* micro-unit, up or down.
THEOREM SplitDrift ==
    ASSUME NEW q \in Nat, NEW r \in Nat, NEW p \in Nat
    PROVE  Within(calculate_cost_microunits(q + r, p),
                  calculate_cost_microunits(q, p) + calculate_cost_microunits(r, p), 1)
<1> DEFINE x == p * q
           y == p * r
           z == p * (q + r)
<1>1. z = x + y /\ x \in Nat /\ y \in Nat
  OBVIOUS
<1>2. /\ calculate_cost_microunits(q, p) \in Nat
      /\ Within(1000 * calculate_cost_microunits(q, p), x, 500)
  BY Nearest
<1>3. /\ calculate_cost_microunits(r, p) \in Nat
      /\ Within(1000 * calculate_cost_microunits(r, p), y, 500)
  BY Nearest
<1>4. /\ calculate_cost_microunits(q + r, p) \in Nat
      /\ Within(1000 * calculate_cost_microunits(q + r, p), z, 500)
  BY Nearest, q + r \in Nat
<1> HIDE DEF x, y, z
<1> QED BY <1>1, <1>2, <1>3, <1>4 DEF Within

----
\* Types.

LEMMA InitType == Init => TypeOK
<1> SUFFICES ASSUME Init PROVE TypeOK
  OBVIOUS
<1>1. 1 \in Months
  BY TableAssumption DEF Months
<1>2. Nothing \in Amounts
  BY DEF Nothing, Amounts
<1>3. Blank \in Report
  BY <1>1, <1>2 DEF Blank, Report
<1> QED BY <1>1, <1>2, <1>3 DEF Init, TypeOK

\* Every step keeps every variable in its type.
LEMMA NextType == TypeOK /\ [Next]_vars => TypeOK'
<1> SUFFICES ASSUME TypeOK, [Next]_vars PROVE TypeOK'
  OBVIOUS
<1> USE DEF TypeOK
<1>b. Blank \in Report
  <2>1. 1 \in Months
    BY TableAssumption DEF Months
  <2> QED BY <2>1 DEF Blank, Report, Nothing, Amounts
<1>1. ASSUME NEW g \in Readers, Lookup(g) PROVE TypeOK'
  <2>1. cache[CacheKey(month)] \in Report \cup {NoReport}
    BY DEF CacheKey
  <2> QED BY <1>1, <2>1 DEF Lookup, Goto, clock, table
<1>2. ASSUME NEW g \in Readers, ReadPlan(g) PROVE TypeOK'
  <2>1. [report[g] EXCEPT !.plan = plan] \in Report
    BY DEF Report
  <2>2. report' = [report EXCEPT ![g] = [report[g] EXCEPT !.plan = plan]]
    BY <1>2 DEF ReadPlan
  <2> QED BY <1>2, <2>1, <2>2 DEF ReadPlan, Goto, clock, table
<1>3. ASSUME NEW g \in Readers, ReadQuotas(g) PROVE TypeOK'
  <2>1. [report[g] EXCEPT !.since = month, !.used = usage[month]] \in Report
    BY DEF Report
  <2>2. report' = [report EXCEPT ![g] = [report[g] EXCEPT !.since = month, !.used = usage[month]]]
    BY <1>3 DEF ReadQuotas
  <2> QED BY <1>3, <2>1, <2>2 DEF ReadQuotas, Goto, clock, table
<1>4. ASSUME NEW g \in Readers, get_monthly_cost(g) PROVE TypeOK'
  <2>1. [report[g] EXCEPT !.period = month, !.total = cost[month]] \in Report
    BY DEF Report
  <2>2. report' = [report EXCEPT ![g] = [report[g] EXCEPT !.period = month, !.total = cost[month]]]
    BY <1>4 DEF get_monthly_cost
  <2> QED BY <1>4, <2>1, <2>2 DEF get_monthly_cost, Goto, clock, table
<1>5. ASSUME NEW g \in Readers, get_monthly_usage_breakdown(g) PROVE TypeOK'
  <2>1. [report[g] EXCEPT !.split = usage[report[g].period]] \in Report
    BY DEF Report
  <2>2. report' = [report EXCEPT ![g] = [report[g] EXCEPT !.split = usage[report[g].period]]]
    BY <1>5 DEF get_monthly_usage_breakdown
  <2> QED BY <1>5, <2>1, <2>2 DEF get_monthly_usage_breakdown, Goto, clock, table
<1>6. ASSUME NEW g \in Readers, Respond(g) PROVE TypeOK'
  BY <1>6, <1>b DEF Respond, Goto, clock, table, CacheKey
<1>7. ASSUME NEW t \in UsageTypes, NEW q \in Quantities, NEW m \in Months, record_usage(t, q, m)
      PROVE  TypeOK'
  <2>1. q \in Nat /\ calculate(t, q) \in Nat
    BY TableAssumption, CalculateNearest
  <2>2. usage' \in [Months -> Amounts]
    BY <1>7, <2>1 DEF record_usage, Amounts
  <2>3. rows' \in [Months -> Nat] /\ cost' \in [Months -> Nat]
    BY <1>7, <2>1 DEF record_usage
  <2> QED BY <1>7, <2>2, <2>3 DEF record_usage, clock
<1>8. ASSUME SyncSubscription PROVE TypeOK'
  BY <1>8 DEF SyncSubscription, table
<1>9. ASSUME NextMonth PROVE TypeOK'
  BY <1>9, TableAssumption DEF NextMonth, table, Months
<1>10. ASSUME NEW m \in Months, ExpireReport(m) PROVE TypeOK'
  BY <1>10 DEF ExpireReport, clock, table
<1>11. CASE UNCHANGED vars
  BY <1>11 DEF vars
<1> QED
  BY <1>1, <1>2, <1>3, <1>4, <1>5, <1>6, <1>7, <1>8, <1>9, <1>10, <1>11 DEF Next, get_usage

\* Every variable keeps its type, for all prices, readers and calendars.
THEOREM TypeCorrect == Spec => []TypeOK
<1> QED BY InitType, NextType, PTL DEF Spec

----
\* The stored costs.

\* The exact cost of natural amounts is a natural number, and adds up.
LEMMA ExactAdds ==
    ASSUME NEW u \in Amounts, NEW t \in UsageTypes, NEW q \in Nat
    PROVE  /\ Exact(u) \in Nat
           /\ Exact([u EXCEPT ![t] = @ + q]) = Exact(u) + Price[t] * q
<1>1. \A s \in UsageTypes : Price[s] \in Nat /\ u[s] \in Nat
  BY PriceAssumption DEF Amounts
<1>2. \A s \in UsageTypes : Price[s] * u[s] \in Nat
  BY <1>1
<1>3. Price[t] * (u[t] + q) = Price[t] * u[t] + Price[t] * q /\ Price[t] * q \in Nat
  BY <1>1
<1>4. \A s \in UsageTypes : [u EXCEPT ![t] = @ + q][s] = IF s = t THEN u[t] + q ELSE u[s]
  BY DEF Amounts
<1> QED
  BY <1>2, <1>3, <1>4 DEF Exact, UsageTypes

LEMMA InitDrift == Init => DriftBounded
<1> SUFFICES ASSUME Init PROVE DriftBounded
  OBVIOUS
<1>1. Exact(Nothing) = 0
  <2>1. \A s \in UsageTypes : Price[s] * Nothing[s] = 0
    BY PriceAssumption DEF Nothing
  <2> QED BY <2>1 DEF Exact, UsageTypes
<1> QED BY <1>1 DEF Init, DriftBounded, Within

\* A row adds its cost to the stored one and its price to the exact one, which
\* differ by at most half a micro-unit.
LEMMA NextDrift == TypeOK /\ DriftBounded /\ [Next]_vars => DriftBounded'
<1> SUFFICES ASSUME TypeOK, DriftBounded, [Next]_vars PROVE DriftBounded'
  OBVIOUS
<1>1. ASSUME NEW t \in UsageTypes, NEW q \in Quantities, NEW n \in Months, record_usage(t, q, n)
      PROVE  DriftBounded'
  <2> SUFFICES ASSUME NEW m \in Months
               PROVE  Within(1000 * cost'[m], Exact(usage'[m]), 500 * rows'[m])
    BY DEF DriftBounded
  <2>1. q \in Nat
    BY TableAssumption
  <2>2. /\ usage[m] \in Amounts /\ cost[m] \in Nat /\ rows[m] \in Nat
        /\ Within(1000 * cost[m], Exact(usage[m]), 500 * rows[m])
    BY DEF TypeOK, DriftBounded
  <2>3. CASE m <= n
    <3>1. /\ rows'[m] = rows[m] + 1
          /\ usage'[m] = [usage[m] EXCEPT ![t] = @ + q]
          /\ cost'[m] = cost[m] + calculate(t, q)
      BY <1>1, <2>3 DEF record_usage
    <3>2. /\ Exact(usage[m]) \in Nat
          /\ Exact(usage'[m]) = Exact(usage[m]) + Price[t] * q
      BY <2>1, <2>2, <3>1, ExactAdds
    <3>3. /\ calculate(t, q) \in Nat
          /\ Within(1000 * calculate(t, q), Price[t] * q, 500)
      BY <2>1, CalculateNearest
    <3>4. Price[t] * q \in Nat
      BY <2>1, PriceAssumption
    <3> QED BY <2>2, <3>1, <3>2, <3>3, <3>4 DEF Within
  <2>4. CASE ~(m <= n)
    BY <1>1, <2>2, <2>4 DEF record_usage
  <2> QED BY <2>3, <2>4
<1>2. ASSUME UNCHANGED table PROVE DriftBounded'
  BY <1>2 DEF table, DriftBounded
<1>3. ASSUME NEW g \in Readers, get_usage(g) PROVE UNCHANGED table
  BY <1>3 DEF get_usage, Lookup, ReadPlan, ReadQuotas, get_monthly_cost,
     get_monthly_usage_breakdown, Respond
<1>4. ASSUME SyncSubscription \/ NextMonth PROVE UNCHANGED table
  BY <1>4 DEF SyncSubscription, NextMonth
<1>5. ASSUME NEW m \in Months, ExpireReport(m) PROVE UNCHANGED table
  BY <1>5 DEF ExpireReport
<1>6. CASE UNCHANGED vars
  BY <1>2, <1>6 DEF vars, table
<1> QED BY <1>1, <1>2, <1>3, <1>4, <1>5, <1>6 DEF Next

\* The sum of the stored costs drifts from the exact cost of the stored
\* quantities by at most half a micro-unit a row, whatever the prices.
THEOREM Drift == Spec => []DriftBounded
<1>1. Init /\ [][Next]_vars => [](TypeOK /\ DriftBounded)
  BY InitType, NextType, InitDrift, NextDrift, PTL
<1> QED BY <1>1, PTL DEF Spec

----
\* The reports.

Leq(u, v) == \A t \in UsageTypes : u[t] <= v[t]

\* What a finished report keeps for ever, against the usage u and the row counts
\* n of the table: rows are only added.
Good(r, u, n) ==
    /\ r.since <= r.period
    /\ Leq(r.used, u[r.since])
    /\ Leq(r.split, u[r.period])
    /\ Undisturbed(r) => Within(1000 * r.total, Exact(r.split), 500 * n[r.period])

\* Between the cost and the breakdown: the cost was that of some amounts, at
\* least those of the quotas and at most those there are now.
Priced(r, u, n) ==
    \E a \in Amounts :
        /\ Within(1000 * r.total, Exact(a), 500 * n[r.period])
        /\ Leq(a, u[r.period])
        /\ r.since = r.period => Leq(r.used, a)

ReaderInv(g) ==
    /\ key[g] <= month
    /\ pc[g] \in {"cost", "breakdown", "answer"} =>
           /\ key[g] <= report[g].since
           /\ report[g].since <= month
           /\ Leq(report[g].used, usage[report[g].since])
    /\ pc[g] = "breakdown" =>
           /\ report[g].since <= report[g].period
           /\ Priced(report[g], usage, rows)
    /\ pc[g] = "answer" => Good(report[g], usage, rows)
    /\ answer[g] # NoReport =>
           Good(answer[g], usage, rows) /\ key[g] <= answer[g].period

CacheInv ==
    \A m \in Months : cache[m] # NoReport =>
        Good(cache[m], usage, rows) /\ m <= cache[m].period

ReportInv == CacheInv /\ \A g \in Readers : ReaderInv(g)

LEMMA LeqTransitive ==
    ASSUME NEW u \in Amounts, NEW v \in Amounts, NEW w \in Amounts, Leq(u, v), Leq(v, w)
    PROVE  Leq(u, w)
<1> SUFFICES ASSUME NEW t \in UsageTypes PROVE u[t] <= w[t]
  BY DEF Leq
<1>1. u[t] <= v[t] /\ v[t] <= w[t] /\ u[t] \in Nat /\ v[t] \in Nat /\ w[t] \in Nat
  BY DEF Leq, Amounts
<1> QED BY <1>1

\* The table of a later state has every row of an earlier one.
Grows(u, n, v, k) ==
    /\ u \in [Months -> Amounts] /\ v \in [Months -> Amounts]
    /\ n \in [Months -> Nat] /\ k \in [Months -> Nat]
    /\ \A m \in Months : Leq(u[m], v[m]) /\ n[m] <= k[m]

LEMMA WithinGrows ==
    ASSUME NEW x \in Nat, NEW a \in Amounts, NEW i \in Nat, NEW j \in Nat, i <= j,
           Within(1000 * x, Exact(a), 500 * i)
    PROVE  Within(1000 * x, Exact(a), 500 * j)
<1>1. Exact(a) \in Nat
  BY ExactAdds DEF UsageTypes
<1> QED BY <1>1 DEF Within

LEMMA GoodGrows ==
    ASSUME NEW u, NEW n, NEW v, NEW k, Grows(u, n, v, k), NEW r \in Report, Good(r, u, n)
    PROVE  Good(r, v, k)
<1>1. /\ r.since \in Months /\ r.period \in Months /\ r.total \in Nat
      /\ r.used \in Amounts /\ r.split \in Amounts
  BY DEF Report
<1>2. Leq(r.used, v[r.since]) /\ Leq(r.split, v[r.period])
  BY <1>1, LeqTransitive DEF Good, Grows
<1>3. n[r.period] \in Nat /\ k[r.period] \in Nat /\ n[r.period] <= k[r.period]
  BY <1>1 DEF Grows
<1>4. Undisturbed(r) => Within(1000 * r.total, Exact(r.split), 500 * k[r.period])
  BY <1>1, <1>3, WithinGrows DEF Good
<1> QED BY <1>2, <1>4 DEF Good

LEMMA PricedGrows ==
    ASSUME NEW u, NEW n, NEW v, NEW k, Grows(u, n, v, k), NEW r \in Report, Priced(r, u, n)
    PROVE  Priced(r, v, k)
<1>1. r.period \in Months /\ r.total \in Nat
  BY DEF Report
<1>2. PICK a \in Amounts :
        /\ Within(1000 * r.total, Exact(a), 500 * n[r.period])
        /\ Leq(a, u[r.period])
        /\ r.since = r.period => Leq(r.used, a)
  BY DEF Priced
<1>3. n[r.period] \in Nat /\ k[r.period] \in Nat /\ n[r.period] <= k[r.period]
  BY <1>1 DEF Grows
<1>4. Within(1000 * r.total, Exact(a), 500 * k[r.period])
  BY <1>1, <1>2, <1>3, WithinGrows
<1>5. Leq(a, v[r.period])
  BY <1>1, <1>2, LeqTransitive DEF Grows
<1> QED BY <1>2, <1>4, <1>5 DEF Priced

\* Rows are only added, and the clock only moves on.
LEMMA TableGrows ==
    ASSUME TypeOK, TypeOK', [Next]_vars
    PROVE  Grows(usage, rows, usage', rows') /\ month <= month'
<1>1. ASSUME UNCHANGED <<rows, usage>> PROVE Grows(usage, rows, usage', rows')
  BY <1>1 DEF Grows, Leq, TypeOK, Amounts
<1>2. month \in Nat
  BY DEF TypeOK, Months
<1>3. ASSUME NEW g \in Readers, get_usage(g) PROVE UNCHANGED <<rows, usage, month>>
  BY <1>3 DEF get_usage, Lookup, ReadPlan, ReadQuotas, get_monthly_cost,
     get_monthly_usage_breakdown, Respond, table, clock
<1>4. ASSUME NEW t \in UsageTypes, NEW q \in Quantities, NEW n \in Months, record_usage(t, q, n)
      PROVE  Grows(usage, rows, usage', rows') /\ month' = month
  <2>1. q \in Nat
    BY TableAssumption
  <2>2. month' = month
    BY <1>4 DEF record_usage, clock
  <2>3. ASSUME NEW m \in Months PROVE Leq(usage[m], usage'[m]) /\ rows[m] <= rows'[m]
    <3>1. usage[m] \in Amounts /\ rows[m] \in Nat
      BY DEF TypeOK
    <3> QED BY <1>4, <2>1, <3>1 DEF record_usage, Leq, Amounts
  <2> QED BY <2>2, <2>3 DEF Grows, TypeOK
<1>5. ASSUME SyncSubscription PROVE UNCHANGED <<rows, usage, month>>
  BY <1>5 DEF SyncSubscription, table
<1>6. ASSUME NextMonth PROVE UNCHANGED <<rows, usage>> /\ month' = month + 1
  BY <1>6 DEF NextMonth, table
<1>7. ASSUME NEW m \in Months, ExpireReport(m) PROVE UNCHANGED <<rows, usage, month>>
  BY <1>7 DEF ExpireReport, table, clock
<1>8. CASE UNCHANGED vars
  BY <1>8, <1>1, <1>2 DEF vars
<1> QED BY <1>1, <1>2, <1>3, <1>4, <1>5, <1>6, <1>7, <1>8 DEF Next

LEMMA InitReports == Init => ReportInv
<1> SUFFICES ASSUME Init PROVE ReportInv
  OBVIOUS
<1> QED BY DEF Init, ReportInv, ReaderInv, CacheInv

\* A reader whose own variables do not change keeps its invariant.
LEMMA ReaderStays ==
    ASSUME TypeOK, TypeOK', [Next]_vars, NEW g \in Readers, ReaderInv(g),
           pc'[g] = pc[g], key'[g] = key[g], report'[g] = report[g], answer'[g] = answer[g]
    PROVE  ReaderInv(g)'
<1>1. Grows(usage, rows, usage', rows') /\ month <= month'
  BY TableGrows
<1>2. month \in Nat /\ month' \in Nat
  BY DEF TypeOK, Months
<1>3. /\ key[g] \in Nat
      /\ report[g] \in Report /\ report[g].since \in Months /\ report[g].used \in Amounts
      /\ report[g].since \in Nat
      /\ answer[g] \in Report \cup {NoReport}
  <2>1. key[g] \in Months /\ report[g] \in Report /\ answer[g] \in Report \cup {NoReport}
    BY DEF TypeOK
  <2>2. report[g].since \in Months /\ report[g].used \in Amounts
    BY <2>1 DEF Report
  <2> QED BY <2>1, <2>2 DEF Months
<1>4. key[g] <= month'
  BY <1>1, <1>2, <1>3 DEF ReaderInv
<1>5. pc[g] \in {"cost", "breakdown", "answer"} =>
           /\ key[g] <= report[g].since
           /\ report[g].since <= month'
           /\ Leq(report[g].used, usage'[report[g].since])
  <2> SUFFICES ASSUME pc[g] \in {"cost", "breakdown", "answer"}
               PROVE  /\ key[g] <= report[g].since
                      /\ report[g].since <= month'
                      /\ Leq(report[g].used, usage'[report[g].since])
    OBVIOUS
  <2>1. /\ key[g] <= report[g].since /\ report[g].since <= month
        /\ Leq(report[g].used, usage[report[g].since])
    BY DEF ReaderInv
  <2>2. Leq(report[g].used, usage'[report[g].since])
    BY <1>1, <1>3, <2>1, LeqTransitive DEF Grows, TypeOK
  <2> QED BY <1>1, <1>2, <1>3, <2>1, <2>2
<1>6. pc[g] = "breakdown" =>
        report[g].since <= report[g].period /\ Priced(report[g], usage', rows')
  BY <1>1, <1>3, PricedGrows DEF ReaderInv
<1>7. pc[g] = "answer" => Good(report[g], usage', rows')
  BY <1>1, <1>3, GoodGrows DEF ReaderInv
<1>8. answer[g] # NoReport => Good(answer[g], usage', rows') /\ key[g] <= answer[g].period
  BY <1>1, <1>3, GoodGrows DEF ReaderInv
<1> QED BY <1>4, <1>5, <1>6, <1>7, <1>8 DEF ReaderInv

LEMMA CacheStays ==
    ASSUME TypeOK, TypeOK', [Next]_vars, CacheInv,
           NEW m \in Months, cache'[m] = cache[m], cache[m] # NoReport
    PROVE  Good(cache'[m], usage', rows') /\ m <= cache'[m].period
<1>1. cache[m] \in Report
  BY DEF TypeOK
<1> QED BY <1>1, TableGrows, GoodGrows DEF CacheInv

LEMMA LeqReflexive == ASSUME NEW u \in Amounts PROVE Leq(u, u)
<1> QED BY DEF Leq, Amounts

\* The step of one reader: the others and the table stay.
LEMMA ReaderStep ==
    ASSUME TypeOK, TypeOK', DriftBounded, ReportInv, NEW g \in Readers, get_usage(g)
    PROVE  /\ ReaderInv(g)'
           /\ \/ UNCHANGED cache
              \/ /\ cache' = [cache EXCEPT ![key[g]] = report[g]]
                 /\ Good(report[g], usage, rows)
                 /\ key[g] <= report[g].period
<1>1. /\ ReaderInv(g) /\ CacheInv /\ month \in Months /\ key[g] \in Months
      /\ report[g] \in Report /\ pc[g] \in {"idle", "plan", "quotas", "cost", "breakdown", "answer"}
      /\ usage \in [Months -> Amounts] /\ rows \in [Months -> Nat]
      /\ pc \in [Readers -> {"idle", "plan", "quotas", "cost", "breakdown", "answer"}]
      /\ key \in [Readers -> Months] /\ report \in [Readers -> Report]
      /\ answer \in [Readers -> Report \cup {NoReport}]
  BY DEF ReportInv, TypeOK
<1>2. month \in Nat /\ key[g] \in Nat
  BY <1>1 DEF Months
<1>3. report[g].since \in Nat /\ report[g].period \in Nat /\ report[g].since \in Months
      /\ report[g].period \in Months /\ report[g].used \in Amounts /\ report[g].total \in Nat
  BY <1>1 DEF Report, Months
<1>4. CASE Lookup(g)
  <2>1. /\ UNCHANGED <<month, usage, rows, report, cache>> /\ key'[g] = month
        /\ \/ pc'[g] = "idle" /\ answer'[g] = cache[month] /\ cache[month] # NoReport
           \/ pc'[g] = "plan" /\ answer'[g] = NoReport
    BY <1>1, <1>4 DEF Lookup, Goto, CacheKey, clock, table
  <2>2. cache[month] # NoReport => Good(cache[month], usage, rows) /\ month <= cache[month].period
    BY <1>1 DEF CacheInv
  <2> QED BY <1>2, <2>1, <2>2 DEF ReaderInv
<1>5. CASE ReadPlan(g)
  <2>1. /\ UNCHANGED <<month, usage, rows, cache, key, answer>>
        /\ pc'[g] \in {"idle", "quotas"}
    BY <1>1, <1>5 DEF ReadPlan, Goto, clock, table
  <2> QED BY <1>1, <2>1 DEF ReaderInv
<1>6. CASE ReadQuotas(g)
  <2>1. /\ UNCHANGED <<month, usage, rows, cache, key, answer>> /\ pc'[g] = "cost"
        /\ report'[g].since = month /\ report'[g].used = usage[month]
    BY <1>1, <1>6 DEF ReadQuotas, Goto, clock, table, Report
  <2>2. Leq(usage[month], usage[month])
    BY <1>1, LeqReflexive
  <2> QED BY <1>1, <1>2, <2>1, <2>2 DEF ReaderInv
<1>7. CASE get_monthly_cost(g)
  <2>1. /\ UNCHANGED <<month, usage, rows, cache, key, answer>>
        /\ pc[g] = "cost" /\ pc'[g] = "breakdown"
        /\ report'[g].since = report[g].since /\ report'[g].used = report[g].used
        /\ report'[g].period = month /\ report'[g].total = cost[month]
    BY <1>1, <1>7 DEF get_monthly_cost, Goto, clock, table, Report
  <2>2. /\ key[g] <= report[g].since /\ report[g].since <= month
        /\ Leq(report[g].used, usage[report[g].since])
    BY <1>1, <2>1 DEF ReaderInv
  <2>3. Within(1000 * cost[month], Exact(usage[month]), 500 * rows[month])
    BY <1>1 DEF DriftBounded
  <2>4. Priced(report'[g], usage, rows)
    BY <1>1, <2>1, <2>2, <2>3, LeqReflexive DEF Priced
  <2> QED BY <1>1, <2>1, <2>2, <2>4 DEF ReaderInv
<1>8. CASE get_monthly_usage_breakdown(g)
  <2>1. /\ UNCHANGED <<month, usage, rows, cache, key, answer>>
        /\ pc[g] = "breakdown" /\ pc'[g] = "answer"
        /\ report'[g].since = report[g].since /\ report'[g].used = report[g].used
        /\ report'[g].period = report[g].period /\ report'[g].total = report[g].total
        /\ report'[g].split = usage[report[g].period]
    BY <1>1, <1>8 DEF get_monthly_usage_breakdown, Goto, clock, table, Report
  <2>2. /\ key[g] <= report[g].since /\ report[g].since <= month
        /\ Leq(report[g].used, usage[report[g].since])
        /\ report[g].since <= report[g].period
    BY <1>1, <2>1 DEF ReaderInv
  <2>3. PICK a \in Amounts :
          /\ Within(1000 * report[g].total, Exact(a), 500 * rows[report[g].period])
          /\ Leq(a, usage[report[g].period])
          /\ report[g].since = report[g].period => Leq(report[g].used, a)
    BY <1>1, <2>1 DEF ReaderInv, Priced
  <2>4. ASSUME Undisturbed(report'[g]) PROVE a = usage[report[g].period]
    <3>1. Leq(usage[report[g].period], a)
      BY <2>1, <2>3, <2>4 DEF Undisturbed
    <3>2. usage[report[g].period] \in Amounts
      BY <1>1, <1>3
    <3>3. ASSUME NEW t \in UsageTypes PROVE a[t] = usage[report[g].period][t]
      BY <2>3, <3>1, <3>2 DEF Leq, Amounts
    <3> QED BY <3>2, <3>3 DEF Amounts
  <2>5. Good(report'[g], usage, rows)
    BY <1>1, <1>3, <2>1, <2>2, <2>3, <2>4, LeqReflexive DEF Good
  <2> QED BY <1>1, <2>1, <2>2, <2>5 DEF ReaderInv
<1>9. CASE Respond(g)
  <2>1. /\ UNCHANGED <<month, usage, rows, key>>
        /\ pc[g] = "answer" /\ pc'[g] = "idle" /\ answer'[g] = report[g]
        /\ \/ UNCHANGED cache
           \/ cache' = [cache EXCEPT ![key[g]] = report[g]]
    BY <1>1, <1>9 DEF Respond, Goto, clock, table, CacheKey
  <2>2. /\ key[g] <= report[g].since /\ report[g].since <= month /\ key[g] <= month
        /\ Good(report[g], usage, rows)
    BY <1>1, <2>1 DEF ReaderInv
  <2>3. key[g] <= report[g].period
    BY <1>2, <1>3, <2>2 DEF Good
  <2> QED BY <2>1, <2>2, <2>3 DEF ReaderInv
<1> QED BY <1>4, <1>5, <1>6, <1>7, <1>8, <1>9 DEF get_usage

LEMMA NextReports ==
    ASSUME TypeOK, TypeOK', DriftBounded, ReportInv, [Next]_vars
    PROVE  ReportInv'
<1>1. CacheInv /\ \A g \in Readers : ReaderInv(g)
  BY DEF ReportInv
<1>2. ASSUME UNCHANGED <<pc, key, report, answer>>,
             \A m \in Months : cache'[m] \in {cache[m], NoReport}
      PROVE  ReportInv'
  <2>1. \A g \in Readers : ReaderInv(g)'
    BY <1>1, <1>2, ReaderStays
  <2>2. CacheInv'
    BY <1>1, <1>2, CacheStays DEF CacheInv
  <2> QED BY <2>1, <2>2 DEF ReportInv
<1>3. ASSUME NEW g \in Readers, get_usage(g) PROVE ReportInv'
  <2>1. \A h \in Readers \ {g} :
          pc'[h] = pc[h] /\ key'[h] = key[h] /\ report'[h] = report[h] /\ answer'[h] = answer[h]
    BY <1>3 DEF get_usage, Lookup, ReadPlan, ReadQuotas, get_monthly_cost,
       get_monthly_usage_breakdown, Respond, Goto, TypeOK
  <2>2. \A h \in Readers : ReaderInv(h)'
    BY <1>1, <1>3, <2>1, ReaderStep, ReaderStays
  <2>3. /\ \/ UNCHANGED cache
           \/ /\ cache' = [cache EXCEPT ![key[g]] = report[g]]
              /\ Good(report[g], usage, rows)
              /\ key[g] <= report[g].period
    BY <1>3, ReaderStep
  <2>4. ASSUME NEW m \in Months, cache'[m] # NoReport
        PROVE  Good(cache'[m], usage', rows') /\ m <= cache'[m].period
    <3>1. CASE cache'[m] = cache[m]
      BY <1>1, <2>4, <3>1, CacheStays
    <3>2. CASE cache'[m] # cache[m]
      <4>1. /\ m = key[g] /\ cache'[m] = report[g]
            /\ Good(report[g], usage, rows) /\ key[g] <= report[g].period
        BY <2>3, <3>2 DEF TypeOK
      <4>2. report[g] \in Report
        BY DEF TypeOK
      <4> QED BY <4>1, <4>2, GoodGrows, TableGrows
    <3> QED BY <3>1, <3>2
  <2> QED BY <2>2, <2>4 DEF ReportInv, CacheInv
<1>4. ASSUME NEW t \in UsageTypes, NEW q \in Quantities, NEW m \in Months, record_usage(t, q, m)
      PROVE  UNCHANGED <<pc, key, report, answer, cache>>
  BY <1>4 DEF record_usage
<1>5. ASSUME SyncSubscription \/ NextMonth PROVE UNCHANGED <<pc, key, report, answer, cache>>
  BY <1>5 DEF SyncSubscription, NextMonth
<1>6. ASSUME NEW m \in Months, ExpireReport(m)
      PROVE  /\ UNCHANGED <<pc, key, report, answer>>
             /\ \A n \in Months : cache'[n] \in {cache[n], NoReport}
  BY <1>6 DEF ExpireReport, TypeOK
<1>7. CASE UNCHANGED vars
  BY <1>2, <1>7 DEF vars
<1> QED BY <1>2, <1>3, <1>4, <1>5, <1>6, <1>7 DEF Next

LEMMA ReportsInvariant == Spec => [](TypeOK /\ ReportInv)
<1>1. Init => TypeOK /\ DriftBounded /\ ReportInv
  BY InitType, InitDrift, InitReports
<1>2. TypeOK /\ DriftBounded /\ ReportInv /\ [Next]_vars => (TypeOK /\ DriftBounded /\ ReportInv)'
  BY NextType, NextDrift, NextReports
<1> QED BY <1>1, <1>2, PTL DEF Spec

\* What every report shown satisfies.
LEMMA ShownGood ==
    ASSUME TypeOK, ReportInv, NEW r \in Shown \ {NoReport}
    PROVE  r \in Report /\ Good(r, usage, rows)
<1>1. CASE \E g \in Readers : r = answer[g]
  BY <1>1 DEF TypeOK, ReportInv, ReaderInv
<1>2. CASE \E m \in Months : r = cache[m]
  BY <1>2 DEF TypeOK, ReportInv, CacheInv
<1> QED BY <1>1, <1>2 DEF Shown

\* A report is never ahead of the table.
THEOREM Behind == Spec => []NeverAhead
<1>1. ASSUME TypeOK, ReportInv PROVE NeverAhead
  BY <1>1, ShownGood DEF NeverAhead, Good, Leq
<1> QED BY <1>1, ReportsInvariant, PTL

\* A report is never about a month that was over when it was asked for.
THEOREM CurrentPeriod == Spec => []ReportOfThisMonth
<1>1. ASSUME TypeOK, ReportInv PROVE ReportOfThisMonth
  <2> SUFFICES ASSUME NEW g \in Readers, answer[g] # NoReport PROVE answer[g].period >= key[g]
    BY DEF ReportOfThisMonth
  <2>1. key[g] <= answer[g].period /\ answer[g].period \in Months /\ key[g] \in Months
    BY <1>1 DEF ReportInv, ReaderInv, TypeOK, Report
  <2> QED BY <2>1 DEF Months
<1> QED BY <1>1, ReportsInvariant, PTL

\* The parts of a report are four rounded sums.
LEMMA PartsNearest ==
    ASSUME NEW r \in Report
    PROVE  LET api == calculate("api_call", r.split["api_call"])
           IN  api \in Nat /\ token_cost(r) \in Nat
               /\ Within(1000 * (api + token_cost(r)), Exact(r.split), 2000)
<1> DEFINE u == r.split
<1>1. /\ \A t \in UsageTypes : u[t] \in Nat /\ Price[t] \in Nat /\ Price[t] * u[t] \in Nat
      /\ "api_call" \in UsageTypes /\ "input_tokens" \in UsageTypes
      /\ "cached_input_tokens" \in UsageTypes /\ "output_tokens" \in UsageTypes
      /\ "reasoning_tokens" \in UsageTypes
  BY PriceAssumption DEF Report, Amounts, UsageTypes
<1>0. ASSUME NEW t \in UsageTypes
      PROVE  /\ calculate(t, u[t]) \in Nat
             /\ Within(1000 * calculate(t, u[t]), Price[t] * u[t], 500)
             /\ Price[t] * u[t] \in Nat
  <2>1. u[t] \in Nat /\ Price[t] * u[t] \in Nat
    BY <1>1
  <2>2. u[t] \in Nat
    BY <2>1
  <2>3. /\ calculate(t, u[t]) \in Nat
        /\ Within(1000 * calculate(t, u[t]), Price[t] * u[t], 500)
    BY <1>0, <2>2, CalculateNearest, Zenon
  <2> QED BY <2>1, <2>3
<1> DEFINE a == calculate("api_call", u["api_call"])
           i == calculate("input_tokens", u["input_tokens"])
           c == calculate("cached_input_tokens", u["cached_input_tokens"])
           o == calculate("output_tokens", u["output_tokens"] + u["reasoning_tokens"])
           x == Price["api_call"] * u["api_call"]
           y == Price["input_tokens"] * u["input_tokens"]
           z == Price["cached_input_tokens"] * u["cached_input_tokens"]
           w == Price["output_tokens"] * (u["output_tokens"] + u["reasoning_tokens"])
<1>2. a \in Nat /\ Within(1000 * a, x, 500) /\ x \in Nat
  BY <1>0, <1>1
<1>3. i \in Nat /\ Within(1000 * i, y, 500) /\ y \in Nat
  BY <1>0, <1>1
<1>4. c \in Nat /\ Within(1000 * c, z, 500) /\ z \in Nat
  BY <1>0, <1>1
<1>5. o \in Nat /\ Within(1000 * o, w, 500) /\ w \in Nat
  <2>1. u["output_tokens"] + u["reasoning_tokens"] \in Nat
    BY <1>1
  <2>2. o \in Nat /\ Within(1000 * o, w, 500)
    BY <1>1, <2>1, CalculateNearest, Zenon
  <2>3. w \in Nat
    BY <1>1, <2>1
  <2> QED BY <2>2, <2>3
<1>6. w = Price["output_tokens"] * u["output_tokens"] + Price["reasoning_tokens"] * u["reasoning_tokens"]
  BY <1>1, OutputPriceAssumption
<1>7. Exact(u) = x + y + z + w
  BY <1>1, <1>2, <1>3, <1>4, <1>6 DEF Exact
<1>8. token_cost(r) = i + c + o
  BY DEF token_cost
<1> HIDE DEF a, i, c, o, x, y, z, w
<1>9. a + token_cost(r) = a + (i + c + o) /\ token_cost(r) \in Nat
  BY <1>3, <1>4, <1>5, <1>8
<1>10. Within(1000 * (a + token_cost(r)), Exact(u), 2000)
  BY <1>2, <1>3, <1>4, <1>5, <1>7, <1>9 DEF Within
<1> QED BY <1>2, <1>9, <1>10 DEF a

\* The total and the parts of a report agree, whatever the prices, when the
\* statements saw the same rows.
THEOREM Agreement == Spec => []TotalsAgree
<1>1. ASSUME TypeOK, ReportInv PROVE TotalsAgree
  <2> SUFFICES ASSUME NEW r \in Shown \ {NoReport}, Undisturbed(r)
               PROVE  LET gap   == total_cost_cents(r)
                                   - (api_calls_cost_cents(r) + ai_tokens_cost_cents(r))
                          slack == rows[r.period] + 4
                      IN  -(2 * 9999 + slack) <= 20000 * gap /\ 20000 * gap <= 4 * 9999 + slack
    BY DEF TotalsAgree
  <2> DEFINE a == calculate("api_call", r.split["api_call"])
             k == token_cost(r)
             n == rows[r.period]
             e == Exact(r.split)
  <2>1. r \in Report /\ Good(r, usage, rows)
    BY <1>1, ShownGood
  <2>2. r.total \in Nat /\ n \in Nat /\ e \in Nat
    BY <1>1, <2>1, ExactAdds DEF Report, TypeOK, UsageTypes
  <2>3. Within(1000 * r.total, e, 500 * n)
    BY <2>1 DEF Good
  <2>4. a \in Nat /\ k \in Nat /\ Within(1000 * (a + k), e, 2000)
    BY <2>1, PartsNearest
  <2>5. /\ total_cost_cents(r) = microunits_to_cents(r.total)
        /\ api_calls_cost_cents(r) = microunits_to_cents(a)
        /\ ai_tokens_cost_cents(r) = microunits_to_cents(k)
    BY DEF total_cost_cents, api_calls_cost_cents, ai_tokens_cost_cents, Undisturbed
  <2> HIDE DEF a, k, n, e
  <2>6. 2 * (r.total - (a + k)) <= n + 4 /\ 2 * ((a + k) - r.total) <= n + 4
    BY <2>2, <2>3, <2>4 DEF Within
  <2>7. /\ microunits_to_cents(r.total) \in Nat
        /\ 10000 * microunits_to_cents(r.total) <= r.total
        /\ r.total <= 10000 * microunits_to_cents(r.total) + 9999
    BY <2>2 DEF microunits_to_cents
  <2>8. /\ microunits_to_cents(a) \in Nat /\ 10000 * microunits_to_cents(a) <= a
        /\ a <= 10000 * microunits_to_cents(a) + 9999
    BY <2>4 DEF microunits_to_cents
  <2>9. /\ microunits_to_cents(k) \in Nat /\ 10000 * microunits_to_cents(k) <= k
        /\ k <= 10000 * microunits_to_cents(k) + 9999
    BY <2>4 DEF microunits_to_cents
  <2> DEFINE gap == microunits_to_cents(r.total) - (microunits_to_cents(a) + microunits_to_cents(k))
  <2>10. -(2 * 9999 + (n + 4)) <= 20000 * gap /\ 20000 * gap <= 4 * 9999 + (n + 4)
    BY <2>2, <2>4, <2>6, <2>7, <2>8, <2>9
  <2> QED BY <2>5, <2>10 DEF n
<1> QED BY <1>1, ReportsInvariant, PTL

====
