------------------------------ MODULE MCLifecycle ------------------------------
(* One tenant, its periods, a day of grace and one of retention.              *)
EXTENDS Lifecycle, TLC

CONSTANTS w1, w2

\* The processes are alike.
Symmetry == Permutations({w1, w2})
=============================================================================
