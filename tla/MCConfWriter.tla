---------------------------- MODULE MCConfWriter ----------------------------
(* Instances of ConfWriter for TLC. *)
EXTENDS ConfWriter, TLC

CONSTANTS p1, p2

OnePeer == {p1}

\* requests, failing reads, failing writes, signals, timeouts, crashes
Env(r, f, w, s, o, c) ==
    ("request" :> r) @@ ("read" :> f) @@ ("write" :> w) @@ ("stop" :> s)
    @@ ("timeout" :> o) @@ ("crash" :> c)

Env211111 == Env(2, 1, 1, 1, 1, 1)
=============================================================================
