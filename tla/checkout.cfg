SPECIFICATION FairSpec
CONSTANTS
    t1 = t1
    t2 = t2
    NoTrip = NoTrip
    Trip = {t1}
    Seat = {1, 2}
    MaxBooking = 2
    MaxLost = 1
    MaxCart = 2
INVARIANTS IInv NothingStranded TicketsMatch BookedOncePerKey
PROPERTIES CheckoutEnds ImplementsLedger
CHECK_DEADLOCK FALSE
