SPECIFICATION Spec
CONSTANTS
    None = None
    k1 = k1  k2 = k2  a1 = a1  a2 = a2  h1 = h1  h2 = h2  c1 = c1  c2 = c2
    t1 = t1  t2 = t2  boot = boot
    Keys = {k1, k2}
    Addrs = {a1, a2}
    Hosts = {h1, h2}
    HostOf <- MCHostOf
    Allows <- MCAllows
    Cidrs = {c1, c2}
    Threads = {t1, t2}
    Boot = boot
    PeerRows <- MCRows
    InitRow <- MCInitRow
    Overlap = FALSE
    Budget <- MCBudget
CHECK_DEADLOCK FALSE
INVARIANT TypeOK
PROPERTIES AtomicActivation CallsAreAtomic
