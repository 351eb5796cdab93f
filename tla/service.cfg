SPECIFICATION Spec
CONSTANTS
    p1 = p1
    k1 = k1
    NoHold = NoHold
    NoRef = NoRef
    Config <- Railway
    Rate = 685
    Floor = 10
    Ceiling = 18
    Id = {1, 2, 3}
    SeatNo = {1011, 1012, 2011}
    Class = {"SECOND", "THIRD"}
    Passenger = {p1}
    Ref = {k1}
    Mult <- Multipliers
    HoldCalls <- Holds
    SaleCalls <- Sales
    Journeys <- Searches
    Start = 66300
    TickSeconds = 600
    UtcOffset = 330
    BookingWindow = 2
    HoldTTL = 1
    VelocityWindow = 1
    SeatCap = 3
    VelocityLimit = 2
    StandingCap = 1
    AbuseThreshold = 8
    MaxNow = 2
INVARIANTS IInv SeatsApart OffersHold EveryServiceOffered QuoteCoversCharge GateAgrees ImpactHonest
PROPERTIES DearerOnlyBySale ImplementsLedger
CHECK_DEADLOCK FALSE
