---- MODULE MCRateLimiter ----
(***************************************************************************)
(* Instance of RateLimiter for TLC.                                        *)
(***************************************************************************)
EXTENDS RateLimiter, TLC

CONSTANTS r1, r2

\* Requests are interchangeable: no definition names one.
RequestSymmetry == Permutations(Requests)

====
