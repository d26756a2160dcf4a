---- MODULE MCMetering ----
(***************************************************************************)
(* Instances of Metering for TLC.                                          *)
(***************************************************************************)
EXTENDS Metering

CONSTANTS r1, r2, r3

Ask(k, t, q) == [key |-> k, type |-> t, qty |-> q]
Scenario(a, b, c) == [r \in Req |-> CASE r = r1 -> a [] r = r2 -> b [] OTHER -> c]

\* Three requests that together overrun the quota of 3; a key used twice, with
\* different quantities, beside another request; a key used for two types.
RaceWorkloads ==
    {Scenario(Ask("k1", "api_call", 2), Ask("k2", "api_call", 2), Ask("k3", "api_call", 2)),
     Scenario(Ask("k1", "api_call", 1), Ask("k1", "api_call", 2), Ask("k2", "api_call", 2)),
     Scenario(Ask("k1", "api_call", 2), Ask("k1", "input_tokens", 1), Ask("k2", "input_tokens", 1))}

\* A key used three times, or twice beside another one.
ReplayWorkloads ==
    {Scenario(Ask("k1", "api_call", 1), Ask("k1", "api_call", 1), Ask("k1", "api_call", q)) :
        q \in 1 .. 2} \cup
    {Scenario(Ask("k1", "api_call", 1), Ask("k1", "api_call", 1), Ask("k2", "api_call", 2))}

SmallPlans ==
    [p \in Tiers |-> IF p = "FREE" THEN [api_call_quota |-> 1, ai_token_quota |-> 1]
                                   ELSE [api_call_quota |-> 3, ai_token_quota |-> 2]]

ActivePro == {[status |-> "active", plan |-> "PRO"]}

LapsingSubscription == ActivePro \cup {[status |-> "past_due", plan |-> "PRO"]}

DowngradedSubscription == ActivePro \cup {[status |-> "trialing", plan |-> "FREE"]}

====
