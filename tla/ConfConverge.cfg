SPECIFICATION FairSpec
CONSTANTS
    p1 = p1  p2 = p2
    Peers = {p1, p2}
    InitPeers <- OnePeer
    Threads = {t1, t2}
    Flushers = {f1, f2}
    Closer = closer
    Ops = {"notify", "toggle", "direct", "reconcile"}
    Budget <- Env211111
INVARIANT TypeOK
PROPERTIES ForgottenOnlyBy ConfConverges
