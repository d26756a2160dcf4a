---- MODULE MCUsageReport ----
(***************************************************************************)
(* Instances of UsageReport for TLC.                                       *)
(***************************************************************************)
EXTENDS UsageReport, TLC

CONSTANTS g1, g2

\* The readers are interchangeable.
ReaderSymmetry == Permutations(Readers)

\* Input prices of the settings; a call costs half a micro-unit less than one and
\* a half cents, an output token 0.4 less than two cents, so that few rows show
\* both roundings.
SmallPrices ==
    [t \in UsageTypes |->
        CASE t = "api_call" -> 14999500
          [] t = "input_tokens" -> 150
          [] t = "cached_input_tokens" -> 75
          [] OTHER -> 19999600]

====
