SPECIFICATION Spec
CONSTANTS
    t1 = t1
    t2 = t2
    NoTrip = NoTrip
    Trip = {t1, t2}
    Seat = {1}
    MaxBooking = 2
    MaxLost = 0
    MaxCart = 1
PROPERTIES OnlyThisBatchReleased
CHECK_DEADLOCK FALSE
