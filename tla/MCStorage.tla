------------------------------ MODULE MCStorage ------------------------------
(* Instances of Storage for TLC: two peers, two profiles, one of them seeded. *)
EXTENDS Storage, TLC

CONSTANTS k1, k2, p1, p2, c1, t1, t2

MCSeeds == (p1 :> [allow |-> {c1}, exclude |-> {}, default |-> TRUE])
           @@ (p2 :> None)

MCReqs == {[allow |-> {c1}, exclude |-> {c1}]}

MCBudget == ("request" :> 3) @@ ("backup" :> 1) @@ ("fault" :> 1)
            @@ ("damage" :> 1) @@ ("crash" :> 2)
=============================================================================
