------------------------------- MODULE Service -------------------------------
(***************************************************************************)
(* The use-cases of usecases/*.py one request at a time, over the          *)
(* repository port: what a search, a quote, a seat map, a hold, a sale and *)
(* the impact report say about the same bookings, as trips are seeded and  *)
(* days go by.  How requests interleave is the business of BookingTx.      *)
(*                                                                         *)
(* Each use-case is one action, its unit of work included: a request that  *)
(* is refused leaves the block by an exception, __exit__ restores the      *)
(* snapshot, and nothing has happened.                                     *)
(***************************************************************************)
EXTENDS Timetable, Fares, Policy, HoldStore, Optimizer

CONSTANTS
    SeatNo,         \* the seat ids
    Class, Passenger, Ref, NoRef,
    Mult,           \* Mult[class]: class_mult_* in tenths
    HoldCalls,      \* what passengers ask hold_seat for
    SaleCalls,      \* what clerks ask sell_unreserved for
    Journeys,       \* the searches: two station codes and a date
    Start,          \* the epoch second at which the system is first seeded
    TickSeconds,    \* seconds per tick of the clock
    UtcOffset,      \* minutes
    BookingWindow,  \* days
    HoldTTL, VelocityWindow,    \* in ticks
    SeatCap, VelocityLimit, StandingCap,
    AbuseThreshold, \* in tenths
    MaxNow          \* bound on the clock

Trip == [code : {p.code : p \in Patterns}, date : Nat]
Leg == LegsOver({s.seq : s \in Stations})

\* ports/repository.py Hold.
HoldRecord == [trip : Trip, seat : SeatNo \cup {NoSeat}, leg : Leg, class : Class,
               who : Passenger, ref : Ref \cup Id, fare : Int, until : Nat,
               created : Nat, status : BStatus]

Store == [Id -> HoldRecord \cup {NoHold}]

\* All of it but the status, which alone ever changes.
Row == [trip : Trip, seat : SeatNo \cup {NoSeat}, leg : Leg, class : Class,
        who : Passenger, ref : Ref \cup Id, fare : Int, until : Nat, created : Nat]

ASSUME IdAssumption ==
    IsFiniteSet(Id) /\ Id \subseteq Nat /\ Id \cap Ref = {} /\ NoRef \notin Ref \cup Id
ASSUME RecordAssumption ==
    /\ NoHold \notin HoldRecord
    /\ Mult \in [Class -> Nat]
    /\ \A p \in Patterns : \A s \in p.seats : s.id \in SeatNo /\ s.class \in Class
    /\ NoSeat \notin SeatNo /\ IsFiniteSet(SeatNo)
ASSUME ClockAssumption ==
    /\ {Start, TickSeconds, BookingWindow, VelocityWindow, MaxNow} \subseteq Nat
    /\ UtcOffset \in Int /\ HoldTTL \in Nat \ {0}
    /\ DateFromEpoch(Start, UtcOffset) \in Nat
ASSUME CallsAssumption ==
    /\ \A c \in HoldCalls \cup SaleCalls :
        /\ c.who \in Passenger /\ c.ref \in Ref \cup {NoRef}
        /\ c.leg \in [origin : Int, dest : Int]
    /\ \A c \in SaleCalls : c.class \in Class
\* A search between unknown stations is refused before anything is read.
ASSUME JourneysAssumption ==
    \A j \in Journeys : {j.from, j.to} \subseteq {s.code : s \in Stations} /\ j.date \in Nat

VARIABLES
    now,        \* the clock, in ticks since Start
    trips,      \* the ids of the trips in the store
    seeded,     \* the date of the last seeding
    holds       \* the bookings in the store

vars == <<now, trips, seeded, holds>>

TypeOK ==
    /\ now \in Nat
    /\ trips \subseteq Trip
    /\ seeded \in Nat
    /\ holds \in Store

-----------------------------------------------------------------------------
(* Reading the store.                                                      *)

\* The local date at tick t.
DateAt(t) == DateFromEpoch(Start + t * TickSeconds, UtcOffset)

\* The seats of a trip in coaches of the given type and class.
SeatsOf(trip, type, class) ==
    {s.id : s \in {x \in PatternOf(trip).seats : x.type = type /\ x.class = class}}

AllSeats(trip) == {s.id : s \in PatternOf(trip).seats}

\* Fault: every booking of the trip counts, wherever it travels.
BusyAnyLeg(s, trip, leg) == {s[b].seat : b \in ActiveHolds(s, trip)}

\* The seats somebody has over a part of the leg.
Busy(s, trip, leg) ==
    {s[b].seat : b \in {a \in ActiveHolds(s, trip) : Overlaps(s[a].leg, leg)}}

\* price_leg over occupancy_over_leg.
PriceLeg(s, trip, leg, class) ==
    DynamicFare(DistanceKm(leg), Mult[class], Cardinality(Busy(s, trip, leg)),
                Cardinality(AllSeats(trip)))

\* quote_fare: the lapsed holds it finds are still counted.
QuoteFare(trip, leg, class) == PriceLeg(holds, trip, leg, class)

\* The store once lapsed holds are retired.
Current == ExpireDue(holds, now)

\* leg_availability: the seats it shows as available.
AvailableSeats(trip, leg) == AllSeats(trip) \ Busy(Current, trip, leg)

\* _option: the classes of the reserved coaches, each with its free seats and its fare.
ClassAvailability(trip, leg) ==
    {[class |-> c,
      free |-> Cardinality(SeatsOf(trip, "RESERVED", c) \ Busy(Current, trip, leg)),
      fare |-> PriceLeg(Current, trip, leg, c)] :
        c \in {x \in Class : SeatsOf(trip, "RESERVED", x) # {}}}

\* The leg between two station codes.
LegOf(j) == [origin |-> SeqOf(j.from), dest |-> SeqOf(j.to)]

\* search_trains answers a search: the stations differ, the date is in the window.
Searchable(j) == j.from # j.to /\ WithinWindow(j.date, DateAt(now), BookingWindow)

FindByDate(date) == {t \in trips : t.date = date}

\* _option of a train that runs and calls this way round.
Option(t, leg) ==
    [trip |-> t, leg |-> leg, times |-> LegTimes(t, leg), km |-> DistanceKm(leg),
     classes |-> ClassAvailability(t, leg)]

\* search_trains
TrainOptions(j) ==
    LET leg == LegOf(j)
    IN  {Option(t, leg) : t \in {u \in FindByDate(j.date) : IsLeg(leg) /\ Serves(u, leg)}}

\* _VERDICTS
Verdicts == [CONFIRMED |-> "VALID", STANDING |-> "VALID", HELD |-> "UNPAID",
             CANCELLED |-> "CANCELLED", EXPIRED |-> "EXPIRED"]

\* Fault: verify_ticket is taken for a mere read.
VerdictUnretired(b) == Verdicts[holds[b].status]

\* verify_ticket: what the inspector is told of booking b.
VerdictOf(b) == Verdicts[Current[b].status]

\* impact_report: active_legs, the legs behind seats_used and seat_km_reclaimed.
ActiveLegs(trip) == [b \in ActiveHolds(holds, trip) |-> holds[b].leg]

RouteKm ==
    Sets!Max({s.km : s \in Stations}) - Sets!Min({s.km : s \in Stations})

\* impact_seat_km, in tenths.
SeatKmReclaimed(trip) ==
    Sets!MapThenSumSet(LAMBDA b : RouteKm - DistanceKm(holds[b].leg),
                       ActiveHolds(holds, trip))

-----------------------------------------------------------------------------
(* Requests.                                                               *)

\* enforce_anti_tout lets the passenger through.
AntiTout(s, trip, who) ==
    LET active == ActiveForPassenger(s, trip, who)
        recent == {b \in active : s[b].created > now - VelocityWindow}
    IN  /\ Cardinality(active) < SeatCap
        /\ Cardinality(recent) < VelocityLimit
        /\ ~AbuseSuspected(Cardinality(recent), Cardinality({s[b].seat : b \in active}),
                           AbuseThreshold)

\* new_id and new_reference: never used before.
NewId == {b \in Id \ Present(holds) : \A a \in Id \ Present(holds) : b <= a}

ReferenceOf(c, b) == IF c.ref = NoRef THEN b ELSE c.ref

\* Fault: a reference that was used is used again.
FirstTimeUnchecked(c) == TRUE

\* The given reference names no booking yet; one that does is answered with it.
FirstTime(c) == ByReference(holds, c.ref) = {}

\* The reserved seats of a trip.
Reservable(trip) == {s \in PatternOf(trip).seats : s.type = "RESERVED"}

\* The record hold_seat makes of call c for seat s of the train.
HeldRecord(c, b, s) ==
    [trip |-> c.trip, seat |-> s.id, leg |-> c.leg, class |-> s.class, who |-> c.who,
     ref |-> ReferenceOf(c, b), fare |-> PriceLeg(Current, c.trip, c.leg, s.class),
     until |-> now + HoldTTL, created |-> now, status |-> "HELD"]

\* hold_seat
Hold(c) ==
    /\ FirstTime(c)
    /\ c.trip \in trips /\ IsLeg(c.leg) /\ ValidLeg(c.leg)
    /\ AntiTout(Current, c.trip, c.who)
    /\ \E b \in NewId, s \in {x \in Reservable(c.trip) : x.id = c.seat} :
        /\ Clear(Current, HeldRecord(c, b, s))
        /\ holds' = AddHold(Current, b, HeldRecord(c, b, s))
    /\ UNCHANGED <<now, trips, seeded>>

\* The record of a counter ticket on the given seat.
SoldRecord(c, b, seat) ==
    [trip |-> c.trip, seat |-> seat, leg |-> c.leg, class |-> c.class, who |-> c.who,
     ref |-> ReferenceOf(c, b), fare |-> PriceLeg(Current, c.trip, c.leg, c.class),
     until |-> 0, created |-> now,
     status |-> IF seat = NoSeat THEN "STANDING" ELSE "CONFIRMED"]

\* _guard_standing_capacity
RoomToStand(c) ==
    Cardinality({b \in ByStatus(Current, c.trip, "STANDING") :
                    Current[b].class = c.class}) < StandingCap

\* The pool seats free over the leg, of which choose_seat takes one.
FreePool(c) == SeatsOf(c.trip, "UNRESERVED", c.class) \ Busy(Current, c.trip, c.leg)

\* sell_unreserved, when the charge goes through.
Sell(c) ==
    /\ FirstTime(c)
    /\ c.trip \in trips /\ IsLeg(c.leg) /\ ValidLeg(c.leg)
    /\ AntiTout(Current, c.trip, c.who)
    /\ SeatsOf(c.trip, "UNRESERVED", c.class) # {}
    /\ \E b \in NewId, seat \in FreePool(c) \cup {NoSeat} :
        /\ seat = NoSeat => FreePool(c) = {} /\ RoomToStand(c)
        /\ Clear(Current, SoldRecord(c, b, seat))
        /\ holds' = AddHold(Current, b, SoldRecord(c, b, seat))
    /\ UNCHANGED <<now, trips, seeded>>

\* confirm_booking, when the charge goes through.  Its receipt may still be refused (the
\* train may pass through an end of the leg), but by then it is committed.
Confirm(b) ==
    /\ b \in Present(Current)
    /\ CanApply(Current[b].status, "CONFIRM")
    /\ Current[b].trip \in trips
    /\ holds' = SetStatus(Current, b, ApplyEvent(Current[b].status, "CONFIRM"))
    /\ UNCHANGED <<now, trips, seeded>>

\* cancel_booking: no clock is read and no hold retired.
Cancel(b) ==
    /\ b \in Present(holds)
    /\ CanApply(holds[b].status, "CANCEL")
    /\ holds' = SetStatus(holds, b, "CANCELLED")
    /\ UNCHANGED <<now, trips, seeded>>

\* search_trains
Search(j) == Searchable(j) /\ holds' = Current /\ UNCHANGED <<now, trips, seeded>>

\* leg_availability
Browse(trip, leg) ==
    /\ trip \in trips /\ IsLeg(leg) /\ ValidLeg(leg)
    /\ holds' = Current
    /\ UNCHANGED <<now, trips, seeded>>

\* verify_ticket
Verify(ref) ==
    /\ ByReference(Current, ref) # {}
    /\ holds' = Current
    /\ UNCHANGED <<now, trips, seeded>>

\* seed: upsert_trip inserts the trips that are not there yet.
Seed ==
    /\ trips' = trips \cup TripsForWindow(DateAt(now), BookingWindow)
    /\ seeded' = DateAt(now)
    /\ UNCHANGED <<now, holds>>

Tick == now < MaxNow /\ now' = now + 1 /\ UNCHANGED <<trips, seeded, holds>>

\* The service starts on a seeded and otherwise empty database.
Init ==
    /\ now = 0
    /\ trips = TripsForWindow(DateAt(0), BookingWindow)
    /\ seeded = DateAt(0)
    /\ holds = [b \in Id |-> NoHold]

Next ==
    \/ Tick \/ Seed
    \/ \E c \in HoldCalls : Hold(c)
    \/ \E c \in SaleCalls : Sell(c)
    \/ \E b \in Id : Confirm(b) \/ Cancel(b)
    \/ \E j \in Journeys : Search(j)
    \/ \E c \in HoldCalls : Browse(c.trip, c.leg)
    \/ \E k \in Ref \cup Id : Verify(k)

Spec == Init /\ [][Next]_vars

-----------------------------------------------------------------------------
(* What the answers promise.                                               *)

\* search_trains promises what hold_seat keeps: of every train it lists and every class,
\* as many seats are free as add_hold accepts a hold on, and they are the ones that the
\* seat map of leg_availability shows available.
OffersHold ==
    \A j \in Journeys : Searchable(j) =>
        \A o \in TrainOptions(j) : \A x \in o.classes :
            LET accepted == {s \in SeatsOf(o.trip, "RESERVED", x.class) :
                                Clear(Current, [trip |-> o.trip, seat |-> s, leg |-> o.leg])}
            IN  /\ x.free = Cardinality(accepted)
                /\ accepted = AvailableSeats(o.trip, o.leg)
                                \cap SeatsOf(o.trip, "RESERVED", x.class)

\* The trains that the timetable file lets a passenger take from one station to another
\* on a date.
Scheduled(j) ==
    {p \in Config.patterns :
        /\ DayCodes[Weekday(j.date) + 1] \in p.days
        /\ SeqOf(j.from) < SeqOf(j.to)
        /\ \E e \in p.stops : e.station = j.from /\ "depart" \in DOMAIN e
        /\ \E e \in p.stops : e.station = j.to /\ "arrive" \in DOMAIN e}

\* What the file is expected to keep and its loader does not check: a train calls at a
\* station once, and is later at the stations further along the route.
RunsForward ==
    \A p \in Config.patterns : \A e, f \in p.stops :
        /\ e.station = f.station => e = f
        /\ SeqOf(e.station) < SeqOf(f.station) /\ "depart" \in DOMAIN e /\ "arrive" \in DOMAIN f
               => ParseHHMM(e.depart) < ParseHHMM(f.arrive)

\* seed.py and search_trains: on every date that can be searched and that was in the
\* window when the trips were last seeded, the trains listed are those of the file,
\* whatever midnight has passed since and however often the seeding was repeated.  None of
\* them arrives before it leaves, not even over midnight.
EveryServiceOffered ==
    \A j \in Journeys : Searchable(j) /\ j.date < seeded + BookingWindow =>
        LET options == TrainOptions(j)
        IN  /\ {o.trip : o \in options} = {TripIdFor(p.code, j.date) : p \in Scheduled(j)}
            /\ \A o \in options :
                /\ o.times.duration > 0
                /\ (o.times.depart + o.times.duration) % MinutesPerDay = o.times.arrive

\* price_leg ("what the passenger is shown is what the passenger is charged"): a hold that
\* follows its quote at once is never charged more, and exactly that unless the quote
\* counted a hold that had lapsed.
QuoteCoversCharge ==
    \A c \in HoldCalls : c.trip \in trips /\ IsLeg(c.leg) /\ ValidLeg(c.leg) =>
        \A s \in Reservable(c.trip) :
            LET quote == QuoteFare(c.trip, c.leg, s.class)
                charge == HeldRecord(c, 0, s).fare
            IN  /\ charge <= quote
                /\ Current = holds => charge = quote

\* verify_ticket and leg_availability agree on who sits where: a reference names one
\* booking, and the seat of one that is valid, or may still be paid for, is shown to
\* nobody as available, while the seat of a hold that has run out of time is told to the
\* inspector as expired whether or not a request has retired it.
GateAgrees ==
    \A b \in Present(holds) :
        LET h == holds[b]
        IN  /\ ByReference(holds, h.ref) = {b}
            /\ VerdictOf(b) \in {"VALID", "UNPAID"} /\ h.seat # NoSeat =>
                   h.seat \notin AvailableSeats(h.trip, h.leg)
            /\ VerdictOf(b) = "UNPAID" => now < h.until

\* dynamic_fare: the quote for a leg goes up only when a seat is taken over part of it.
DearerOnlyBySale ==
    [][\A c \in HoldCalls :
           holds' # holds /\ c.trip \in trips /\ IsLeg(c.leg) /\ ValidLeg(c.leg) =>
           \A x \in {s.class : s \in Reservable(c.trip)} :
               QuoteFare(c.trip, c.leg, x)' > QuoteFare(c.trip, c.leg, x) =>
                   \E b \in Id :
                       /\ holds[b] = NoHold /\ holds'[b] # NoHold
                       /\ holds'[b].trip = c.trip
                       /\ Overlaps(holds'[b].leg, c.leg)]_vars

\* impact_report claims no more than the passengers' seats bear out: the seats it says are
\* used are no more than the seats the passengers have, and the kilometres reclaimed are at
\* least the journeys of the seats that whole-journey booking would need besides.
ImpactHonest ==
    \A t \in trips :
        LET legs == ActiveLegs(t)
            used == MinSeats(legs)
        IN  /\ used <= Cardinality({holds[b].seat : b \in DOMAIN legs})
            /\ SeatKmReclaimed(t) >= (Cardinality(DOMAIN legs) - used) * RouteKm

Apart(s) ==
    \A b, c \in Present(s) :
        b # c /\ s[b].status \in Active /\ s[c].status \in Active => ~Clash(s[b], s[c])

\* What every store the use-cases leave behind is like: nobody's seat is somebody else's,
\* a reference names one booking and is its own id unless a client gave it, only a hold
\* runs out of time, who stands has no seat and who has an active booking has one.
Sound(s) ==
    /\ Apart(s)
    /\ \A b, c \in Present(s) : s[b].ref = s[c].ref => b = c
    /\ \A b \in Present(s) :
        /\ s[b].ref \in Ref \cup {b}
        /\ s[b].status = "HELD" => s[b].until # 0
        /\ s[b].status = "STANDING" => s[b].seat = NoSeat
        /\ s[b].status \in Active => s[b].seat # NoSeat

\* memory_repo.py: "a leg may not overlap an active hold on the same trip and seat",
\* whatever use-cases follow each other and whichever of them fail.
SeatsApart == Apart(holds)

StoreInv == TypeOK /\ Sound(holds)

\* The trips in the store run on their date, and none of the window is missing that was
\* seeded last.
SeededInv ==
    /\ seeded <= DateAt(now)
    /\ TripsForWindow(seeded, BookingWindow) \subseteq trips
    /\ \A t \in trips : RunsOn(PatternOf(t).days, t.date)

\* The inductive invariant behind the theorems of ServiceProofs.
IInv == StoreInv /\ SeededInv

Columns(h) ==
    [trip |-> h.trip, seat |-> h.seat, leg |-> h.leg, class |-> h.class, who |-> h.who,
     ref |-> h.ref, fare |-> h.fare, until |-> h.until, created |-> h.created]

Status == [b \in Id |-> IF holds[b] = NoHold THEN Absent ELSE holds[b].status]

Issued == [b \in Id |-> IF holds[b] = NoHold THEN NoHold ELSE Columns(holds[b])]

HeldOnce == {b \in Id : holds[b] # NoHold /\ holds[b].until # 0}

Ledger == INSTANCE SeatLedger WITH
    Booking <- Id, NoRow <- NoHold, status <- Status, row <- Issued, held <- HeldOnce

\* Every use-case is one transaction of the abstract ledger.
ImplementsLedger == Ledger!Spec
=============================================================================
