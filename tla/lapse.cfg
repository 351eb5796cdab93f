SPECIFICATION Spec
CONSTANTS
    p1 = p1
    p2 = p2
    k1 = k1
    NoCall = NoCall
    NoRow = NoRow
    NoRef = NoRef
    Req = {1, 2, 3}
    Rank <- YoungestFirst
    Threads = 1
    MayFail = {}
    Calls <- LapseCalls
    Trip = {"t"}
    Seat = {1}
    Class = {"c"}
    Passenger = {p1, p2}
    Ref = {k1}
    Reserved = {1}
    ClassOf <- OneClass
    Station = {0, 1, 2, 3}
    Stop <- AllStops
    HoldTTL = 1
    SeatCap = 2
    VelocityWindow = 1
    VelocityLimit = 3
    StandingCap = 1
    Suspects <- NoSuspects
    MaxNow = 1
INVARIANTS FreedLegPushed
CHECK_DEADLOCK FALSE
