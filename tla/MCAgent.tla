------------------------------ MODULE MCAgent -------------------------------
(* Instances of Agent for TLC: a1 and a2 are client addresses of different  *)
(* hosts, a1x is the host of a1 with another mask.                          *)
EXTENDS Agent, TLC

CONSTANTS k1, k2, k3, k4, a1, a2, a1x, h1, h2, al1, al2, t1, t2

MCHostOf == [a \in Addrs |-> IF a = a2 THEN h2 ELSE h1]

Peer(i, k, a, p) ==
    [id |-> i, key |-> k, addr |-> a, ips |-> HostOf[a], allow |-> al1,
     enabled |-> TRUE, auto |-> FALSE, psk |-> p]

OneRow     == {Peer(1, k1, a1, None)}
\* a peer that was disabled
OffRow     == {[r EXCEPT !.enabled = FALSE] : r \in OneRow}
\* a peer found in the kernel by an earlier pass, waiting for approval
Guest(i, k)  == QuarantineRow(i - 1, k)
RowAndGuest  == {Peer(1, k1, a1, None), Guest(2, k2)}
\* the first with a preshared key
PskRowAndGuest == {Peer(1, k1, a1, k1), Guest(2, k2)}

Req(a, al, e, tn) == [addr |-> a, allow |-> al, enable |-> e, tune |-> tn]

NoReqs    == {}

\* disable, enable, new allowed IPs, new address, a keepalive
SomeReqs  == {Req(None, None, "off", "none"), Req(None, None, "on", "none"),
              Req(a2, None, "keep", "none"), Req(None, None, "keep", "good"),
              Req(None, al2, "keep", "none"), Req(a2, al2, "on", "bad")}

\* none of them with an endpoint that is refused late
GoodReqs  == {q \in SomeReqs : q.tune # "bad"}

\* disable, enable, a new address with an endpoint that is good or refused
MixedReqs == {Req(None, None, "off", "none"), Req(None, None, "on", "none"),
              Req(a2, None, "keep", "good"), Req(a2, None, "on", "bad")}

\* requests, faults, iptables faults, rollback faults, foreign calls, crashes
Env(r, f, i, b, o, c) ==
    ("request" :> r) @@ ("fault" :> f) @@ ("iptables" :> i)
    @@ ("rollback" :> b) @@ ("foreign" :> o) @@ ("crash" :> c)

Env200000 == Env(2, 0, 0, 0, 0, 0)
Env210011 == Env(2, 1, 0, 0, 1, 1)
Env211101 == Env(2, 1, 1, 1, 0, 1)
Env210000 == Env(2, 1, 0, 0, 0, 0)
Env310000 == Env(3, 1, 0, 0, 0, 0)
=============================================================================
