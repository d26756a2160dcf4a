---- MODULE Pricing ----
(***************************************************************************)
(* Money: costs in integer micro-units, prices per thousand units, reports *)
(* in cents.                                                               *)
(***************************************************************************)
EXTENDS Integers

CONSTANT Price    \* config/pricing.py: usage type -> micro-units per 1,000 units

UsageTypes ==
    {"api_call", "input_tokens", "cached_input_tokens", "output_tokens", "reasoning_tokens"}

ASSUME PriceAssumption == Price \in [UsageTypes -> Nat]

\* Mutant: the Decimal is cut off instead of rounded.
calculate_cost_microunits_Truncated(quantity, price_per_thousand) ==
    IF quantity <= 0 \/ price_per_thousand <= 0 THEN 0
    ELSE (quantity * price_per_thousand) \div 1000

\* The product over 1,000, rounded half up.
calculate_cost_microunits(quantity, price_per_thousand) ==
    IF quantity <= 0 \/ price_per_thousand <= 0 THEN 0
    ELSE (2 * (quantity * price_per_thousand) + 1000) \div 2000

\* Whole cents; the rest is cut off.
microunits_to_cents(microunits) == microunits \div 10000

\* CostService.calculate.
calculate(usage_type, quantity) == calculate_cost_microunits(quantity, Price[usage_type])

====
