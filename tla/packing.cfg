SPECIFICATION Spec
CONSTANTS
    Seats = 2
    Station = {0, 1, 2, 3, 4}
    MaxGiven = 4
INVARIANTS IInv SeatedApart EarliestSeat SeatTestsAgree PackIsOptimal
CHECK_DEADLOCK FALSE
