---- MODULE MCCheckout ----
(***************************************************************************)
(* Instance of Checkout for TLC. No symmetry: liveness is checked.         *)
(***************************************************************************)
EXTENDS Checkout

CONSTANTS r1, r2, r3

====
