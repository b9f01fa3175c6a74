------------------------------- MODULE MCAuth -------------------------------
(* An instance of Auth for TLC: two goroutines, one remote address and the   *)
(* unix socket, one authenticator that is registered at the start.           *)
EXTENDS Auth, TLC

CONSTANTS t1, t2, c1

\* Goroutines are alike.
Alike == Permutations({t1, t2})
=============================================================================
