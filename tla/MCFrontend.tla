----------------------------- MODULE MCFrontend -----------------------------
(* Instances of Frontend for TLC: one connection, one token per unit of time. *)
EXTENDS Frontend, TLC

CONSTANTS c1

MCBudget == ("request" :> 3) @@ ("tamper" :> 2) @@ ("fault" :> 1) @@ ("disk" :> 1)
=============================================================================
