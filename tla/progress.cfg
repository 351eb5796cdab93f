SPECIFICATION FairSpec
CONSTANTS
    p1 = p1
    p2 = p2
    k1 = k1
    NoCall = NoCall
    NoRow = NoRow
    NoRef = NoRef
    Req = {1, 2, 3, 4}
    Rank <- YoungestFirst
    Threads = 2
    MayFail = {4}
    Calls <- ProgressCalls
    Trip = {"t"}
    Seat = {1}
    Class = {"c"}
    Passenger = {p1, p2}
    Ref = {k1}
    Reserved = {1}
    ClassOf <- OneClass
    Station = {0, 1, 2, 3}
    Stop <- AllStops
    HoldTTL = 1
    SeatCap = 2
    VelocityWindow = 1
    VelocityLimit = 3
    StandingCap = 1
    Suspects <- NoSuspects
    MaxNow = 2
PROPERTIES EveryRequestAnswered
CHECK_DEADLOCK FALSE
