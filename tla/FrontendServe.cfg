SPECIFICATION Spec
CONSTANTS
    Missing = Missing  File = File  Other = Other  Closed = Closed
    NoBucket = NoBucket
    c1 = c1
    Conns = {c1}
    Clients = {c1}
    Rate = 1
    Burst = 2
    Idle = 2
    MaxNow = 3
    Budget <- MCBudget
CHECK_DEADLOCK FALSE
INVARIANTS TypeOK RateBound
PROPERTIES Heals Stops FollowsDisk
