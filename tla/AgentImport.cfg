SPECIFICATION Spec
CONSTANTS
    None = None
    k1 = k1  k2 = k2  k3 = k3  k4 = k4
    a1 = a1  a2 = a2  a1x = a1x  h1 = h1  h2 = h2  al1 = al1  al2 = al2
    t1 = t1  t2 = t2
    Keys = {k1, k2, k3, k4}
    Addrs = {a1, a2, a1x}
    Hosts = {h1, h2}
    HostOf <- MCHostOf
    Allows = {al1}
    Threads = {t1, t2}
    Ops = {"create", "batch"}
    BatchSizes = {1, 2}
    UpdateReqs <- NoReqs
    PskModes = {FALSE}
    PeerLimit = 0
    InitRows <- OneRow
    Budget <- Env310000
CHECK_DEADLOCK FALSE
INVARIANTS NeverExposed NoResidue
