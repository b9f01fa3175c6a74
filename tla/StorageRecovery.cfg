SPECIFICATION Spec
CONSTANTS
    None = None  Bad = Bad  Absent = Absent
    k1 = k1  k2 = k2  p1 = p1  p2 = p2  c1 = c1  t1 = t1  t2 = t2
    Keys = {k1, k2}
    Names = {p1, p2}
    Cidrs = {c1}
    Seeds <- MCSeeds
    ProfileReqs <- MCReqs
    Threads = {t1, t2}
    TornCopy = FALSE
    Budget <- MCBudget
CHECK_DEADLOCK FALSE
INVARIANTS TypeOK NoDangling BestSource
PROPERTIES DeletedStays Starts
