------------------------------ MODULE MCJobQueue ------------------------------
(* Two worker processes on one provision job and one of another kind.         *)
EXTENDS JobQueue

CONSTANTS w1, w2, provision, suspend
=============================================================================
