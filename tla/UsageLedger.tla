---- MODULE UsageLedger ----
(***************************************************************************)
(* What POST /meter promises about the usage_events table, with no word of *)
(* requests, transactions or caches: a slot (an idempotency key with a     *)
(* usage type) is charged at most once, and while a month is current the   *)
(* charged quantity of a type stays under a ceiling.                       *)
(* Months that are over carry no promise: a request that began before      *)
(* midnight may still be charged to them.                                  *)
(***************************************************************************)
EXTENDS Integers

CONSTANTS
    Slots,       \* <<idempotency key, usage type>> pairs of one tenant
    Types,       \* usage types
    Quantities,  \* the quantities one request may carry
    LastMonth,   \* bound on the calendar
    Ceiling      \* Ceiling[t]: most that may be charged in the current month

Months == 1 .. LastMonth

VARIABLES
    charged,     \* slots that have a row
    total,       \* total[m][t]: quantity of type t charged since month m began
    month        \* the current month

ledgerVars == <<charged, total, month>>

Init ==
    /\ charged = {}
    /\ total = [m \in Months |-> [t \in Types |-> 0]]
    /\ month = 1

\* One row is charged to month m, the current one or one that is over.
Charge(s, t, q, m) ==
    /\ s \notin charged
    /\ m \in 1 .. month
    /\ m = month => total[month][t] + q <= Ceiling[t]
    /\ charged' = charged \cup {s}
    /\ total' = [n \in Months |-> [u \in Types |->
                    IF n <= m /\ u = t THEN total[n][u] + q ELSE total[n][u]]]
    /\ UNCHANGED month

NextMonth ==
    /\ month < LastMonth
    /\ month' = month + 1
    /\ UNCHANGED <<charged, total>>

Next ==
    \/ \E s \in Slots, t \in Types, q \in Quantities, m \in Months : Charge(s, t, q, m)
    \/ NextMonth

Spec == Init /\ [][Next]_ledgerVars

====
