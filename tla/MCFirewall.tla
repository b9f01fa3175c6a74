----------------------------- MODULE MCFirewall -----------------------------
(* Instances of Firewall for TLC: two peers, two hosts, two destinations.   *)
EXTENDS Firewall, TLC

CONSTANTS k1, k2, a1, a2, h1, h2, c1, c2, t1, t2, boot

MCHostOf == (a1 :> h1) @@ (a2 :> h2)
MCAllows == {s : s \in SUBSET Cidrs}

P(k, a, al, e) == [key |-> k, addr |-> a, allow |-> al, enabled |-> e]

\* k1 lives at either address, with one, two or no destinations, disabled, or
\* quarantined; k2 comes, goes and is without an address.
MCRows == {P(k1, a1, {c1, c2}, TRUE), P(k1, a1, {c2}, TRUE), P(k1, a2, {}, TRUE),
           P(k1, a1, {c2}, FALSE), P(k1, None, {}, FALSE),
           P(k2, a2, {c1}, TRUE), P(k2, None, {}, TRUE)}

MCInitRow == (k1 :> P(k1, a1, {c1, c2}, TRUE)) @@ (k2 :> None)

MCBudget == ("request" :> 3) @@ ("fault" :> 2) @@ ("crash" :> 1)
=============================================================================
