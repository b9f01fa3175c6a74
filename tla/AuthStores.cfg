SPECIFICATION Spec
CONSTANTS
    t1 = t1  t2 = t2  c1 = c1
    Threads = {t1, t2}
    IPs = {ip, unix}
    Unix = unix
    Creds = {c1}
    InitCreds = {c1}
    MaxSessions = 2
    TTL = 1
    ChallengeCap = 2
    ChallengeTTL = 1
    MaxAttempts = 2
    Window = 2
    MaxRequests = 5
    MaxTime = 2
SYMMETRY Alike
INVARIANTS TypeOK SessionsBounded ChallengesBounded ChallengeOnce FailuresBounded
PROPERTY EndedStaysEnded
