---------------------------- MODULE ServiceProofs ----------------------------
(***************************************************************************)
(* Service for any timetable, fares, calls, clock and number of bookings:  *)
(* the arithmetic of fares and of the abuse score, what the use-cases      *)
(* leave in the store, what their answers promise, that the impact report  *)
(* does not overstate, and that each use-case is one transaction of the    *)
(* abstract ledger.                                                        *)
(***************************************************************************)
EXTENDS Service, OptimizerProofs, FiniteSetTheorems, TLAPS

-----------------------------------------------------------------------------
(* Fares, for any rate, demand band, distance and number of seats, and the *)
(* abuse score.                                                            *)

\* Dividing more gives no less.
LEMMA QuotientMonotone ==
    ASSUME NEW a \in Int, NEW b \in Int, NEW k \in Nat \ {0}, a <= b
    PROVE  a \div k <= b \div k
OBVIOUS

\* The product of two numbers is one, and more of either is no less.
LEMMA ProductMonotone ==
    ASSUME NEW a \in Nat, NEW b \in Nat, NEW k \in Nat, a <= b
    PROVE  k * a \in Nat /\ k * a <= k * b
OBVIOUS

\* _round_cents does not reorder amounts.
LEMMA RoundMonotone ==
    ASSUME NEW m \in Nat, NEW n \in Nat, NEW d \in Nat \ {0}, m <= n
    PROVE  /\ RoundHalfUp(m, d) \in Nat
           /\ RoundHalfUp(m, d) <= RoundHalfUp(n, d)
<1>1. 2 * d \in Nat \ {0} /\ 2 * m + d \in Nat /\ 2 * n + d \in Nat /\ 2 * m + d <= 2 * n + d
    OBVIOUS
<1>2. (2 * m + d) \div (2 * d) <= (2 * n + d) \div (2 * d)
    BY <1>1, QuotientMonotone
<1>3. (2 * m + d) \div (2 * d) \in Nat
    BY <1>1
<1> QED
    BY <1>2, <1>3 DEF RoundHalfUp

\* Nor makes it anything but an amount of cents.
LEMMA RoundType ==
    ASSUME NEW n \in Nat, NEW d \in Nat \ {0}
    PROVE  RoundHalfUp(n, d) \in Nat
BY RoundMonotone, n <= n

\* A quotient is the number whose multiples enclose what is divided.
LEMMA QuotientUnique ==
    ASSUME NEW a \in Nat, NEW b \in Nat \ {0}, NEW q \in Nat, b * q <= a, a < b * q + b
    PROVE  a \div b = q
<1>1. a \div b \in Nat /\ b * (a \div b) <= a /\ a < b * (a \div b) + b
    OBVIOUS
<1>2. ASSUME NEW r \in Nat, NEW t \in Nat, r < t, b * t <= a, a < b * r + b
      PROVE  FALSE
    <2>1. PICK e \in Nat : t = r + 1 + e
        BY <1>2, t - r - 1 \in Nat, t = r + 1 + (t - r - 1)
    <2>2. b * t = b * r + b + b * e /\ b * e \in Nat
        BY <2>1
    <2> QED
        BY <1>2, <2>2
<1> QED
    BY <1>1, <1>2

\* A factor of both parts of a fraction is of no consequence.
LEMMA QuotientCancel ==
    ASSUME NEW a \in Nat, NEW b \in Nat \ {0}, NEW k \in Nat \ {0}
    PROVE  (k * a) \div (k * b) = a \div b
<1> DEFINE q == a \div b
<1>1. q \in Nat /\ b * q <= a /\ a + 1 <= b * q + b
    OBVIOUS
<1> HIDE DEF q
<1>2. /\ k * (b * q) <= k * a
      /\ k * (a + 1) <= k * (b * q + b)
    BY <1>1, ProductMonotone, b * q \in Nat, a + 1 \in Nat, b * q + b \in Nat
<1>3. /\ (k * b) * q = k * (b * q)
      /\ k * (b * q + b) = (k * b) * q + k * b
      /\ k * (a + 1) = k * a + k
      /\ k * a \in Nat /\ k * b \in Nat \ {0} /\ (k * b) * q \in Nat
    BY <1>1
<1>4. (k * b) * q <= k * a /\ k * a < (k * b) * q + k * b
    BY <1>2, <1>3
<1>5. (k * a) \div (k * b) = q
    BY <1>1, <1>3, <1>4, QuotientUnique
<1> QED
    BY <1>5 DEF q

\* Nor does it matter to _round_cents.
LEMMA RoundCancel ==
    ASSUME NEW n \in Nat, NEW d \in Nat \ {0}, NEW k \in Nat \ {0}
    PROVE  RoundHalfUp(k * n, k * d) = RoundHalfUp(n, d)
<1>1. 2 * (k * n) + k * d = k * (2 * n + d) /\ 2 * (k * d) = k * (2 * d)
    OBVIOUS
<1>2. 2 * n + d \in Nat /\ 2 * d \in Nat \ {0}
    OBVIOUS
<1>3. (k * (2 * n + d)) \div (k * (2 * d)) = (2 * n + d) \div (2 * d)
    BY <1>2, QuotientCancel
<1> QED
    BY <1>1, <1>3 DEF RoundHalfUp

\* The fare before demand is an amount of cents.
LEMMA DistanceFareType ==
    ASSUME NEW km \in Nat, NEW mult \in Nat
    PROVE  DistanceFare(km, mult) \in Nat
<1>1. Rate \in Nat
    BY BandAssumption
<1>2. Rate * km * mult \in Nat
    BY <1>1
<1> QED
    BY <1>2, RoundMonotone DEF DistanceFare

\* demand_multiplier rises with the seats taken.
LEMMA DemandMonotone ==
    ASSUME NEW x \in Nat, NEW y \in Nat, NEW total \in Nat, x <= y
    PROVE  /\ DemandTenths(x, total) \in Nat
           /\ DemandTenths(x, total) <= DemandTenths(y, total)
<1>1. Floor \in Nat /\ Ceiling - Floor \in Nat
    BY BandAssumption
<1>2. Floor * total \in Nat
    BY <1>1
<1>3. /\ (Ceiling - Floor) * x \in Nat /\ (Ceiling - Floor) * y \in Nat
      /\ (Ceiling - Floor) * x <= (Ceiling - Floor) * y
    BY <1>1, ProductMonotone, y <= y
<1> QED
    BY <1>2, <1>3 DEF DemandTenths

-----------------------------------------------------------------------------
\* dynamic_fare: whatever the distance, class, train, rate and demand band, a leg is never
\* cheaper for more seats having been taken over it.
THEOREM DearerWhenFuller ==
    ASSUME NEW km \in Nat, NEW mult \in Nat, NEW total \in Nat,
           NEW x \in Nat, NEW y \in Nat, x <= y
    PROVE  DynamicFare(km, mult, x, total) <= DynamicFare(km, mult, y, total)
<1> DEFINE base == DistanceFare(km, mult)
<1>1. base \in Nat
    BY DistanceFareType
<1> HIDE DEF base
<1>2. CASE total = 0
    <2>1. base * Floor \in Nat
        BY <1>1, BandAssumption
    <2> QED
        BY <1>2, <2>1, RoundMonotone DEF DynamicFare, base
<1>3. CASE total # 0
    <2>1. /\ DemandTenths(x, total) \in Nat /\ DemandTenths(y, total) \in Nat
          /\ DemandTenths(x, total) <= DemandTenths(y, total)
        BY DemandMonotone, y <= y
    <2>2. /\ base * DemandTenths(x, total) \in Nat /\ base * DemandTenths(y, total) \in Nat
          /\ base * DemandTenths(x, total) <= base * DemandTenths(y, total)
        BY <1>1, <2>1, ProductMonotone, DemandTenths(y, total) <= DemandTenths(y, total)
    <2>3. 10 * total \in Nat \ {0}
        BY <1>3
    <2>4. RoundHalfUp(base * DemandTenths(x, total), 10 * total)
            <= RoundHalfUp(base * DemandTenths(y, total), 10 * total)
        BY <2>2, <2>3, RoundMonotone
    <2> QED
        BY <1>3, <2>4 DEF DynamicFare, base
<1> QED
    BY <1>2, <1>3

\* dynamic_fare: demand scales the fare of a leg within its band and rounding leaves it
\* there, from an empty train to one with every seat taken.
THEOREM FareWithinBand ==
    ASSUME NEW km \in Nat, NEW mult \in Nat, NEW total \in Nat, NEW busy \in 0 .. total
    PROVE  /\ RoundHalfUp(DistanceFare(km, mult) * Floor, 10)
                <= DynamicFare(km, mult, busy, total)
           /\ DynamicFare(km, mult, busy, total)
                <= RoundHalfUp(DistanceFare(km, mult) * Ceiling, 10)
<1> DEFINE base == DistanceFare(km, mult)
<1>1. base \in Nat /\ Floor \in Nat /\ Ceiling \in Nat /\ Floor <= Ceiling
    BY DistanceFareType, BandAssumption
<1>2. /\ base * Floor \in Nat /\ base * Ceiling \in Nat
      /\ base * Floor <= base * Ceiling
    BY <1>1, ProductMonotone, Ceiling <= Ceiling
<1> HIDE DEF base
<1>3. CASE total = 0
    <2>1. /\ RoundHalfUp(base * Floor, 10) \in Nat
          /\ RoundHalfUp(base * Floor, 10) <= RoundHalfUp(base * Ceiling, 10)
        BY <1>2, RoundMonotone
    <2> QED
        BY <1>3, <2>1 DEF DynamicFare, base
<1>4. CASE total # 0
    <2>1. DemandTenths(0, total) = total * Floor /\ DemandTenths(total, total) = total * Ceiling
        BY <1>1 DEF DemandTenths
    <2>2. /\ base * DemandTenths(0, total) = total * (base * Floor)
          /\ base * DemandTenths(total, total) = total * (base * Ceiling)
          /\ 10 * total = total * 10
        BY <1>1, <2>1
    <2>3. /\ RoundHalfUp(total * (base * Floor), total * 10) = RoundHalfUp(base * Floor, 10)
          /\ RoundHalfUp(total * (base * Ceiling), total * 10)
                = RoundHalfUp(base * Ceiling, 10)
        BY <1>2, <1>4, RoundCancel
    <2>4. /\ DynamicFare(km, mult, 0, total) = RoundHalfUp(base * Floor, 10)
          /\ DynamicFare(km, mult, total, total) = RoundHalfUp(base * Ceiling, 10)
        BY <1>4, <2>2, <2>3 DEF DynamicFare, base
    <2>5. /\ DynamicFare(km, mult, 0, total) <= DynamicFare(km, mult, busy, total)
          /\ DynamicFare(km, mult, busy, total) <= DynamicFare(km, mult, total, total)
        BY DearerWhenFuller, busy \in Nat, 0 <= busy, busy <= total
    <2> QED
        BY <2>4, <2>5 DEF base
<1> QED
    BY <1>3, <1>4

\* enforce_anti_tout: with the default threshold of 0.8 the abuse score refuses nobody,
\* however many seats and recent bookings a passenger has, because the two signals that
\* are passed in weigh no more than 2.3 of 4.
THEOREM ScoreNeverTrips ==
    ASSUME NEW velocity \in Nat, NEW seats \in Nat
    PROVE  ~AbuseSuspected(velocity, seats, 8)
<1>1. Least(10, velocity) <= 10 /\ Least(10, velocity) \in Nat
    BY DEF Least
<1>2. Least(6, seats) <= 6 /\ Least(6, seats) \in Nat
    BY DEF Least
<1>3. Least(5, 1) = 1
    BY DEF Least
<1>4. AbuseScore(velocity, 1, seats, 0) <= 138 /\ AbuseScore(velocity, 1, seats, 0) \in Nat
    BY <1>1, <1>2, <1>3 DEF AbuseScore
<1> QED
    BY <1>4 DEF AbuseSuspected

-----------------------------------------------------------------------------
(* What the constants are.                                                 *)

\* A trip of the timetable has a pattern, and its seats are known.
LEMMA PatternFacts ==
    ASSUME NEW t \in Trip
    PROVE  /\ PatternOf(t) \in Patterns
           /\ \A s \in PatternOf(t).seats : s.id \in SeatNo /\ s.class \in Class
<1>1. \E p \in Patterns : p.code = t.code
    BY DEF Trip
<1>2. PatternOf(t) \in Patterns
    BY <1>1 DEF PatternOf
<1> QED
    BY <1>2, RecordAssumption

\* The seats of a trip are finitely many.
LEMMA SeatFacts ==
    ASSUME NEW t \in Trip
    PROVE  /\ AllSeats(t) \subseteq SeatNo
           /\ IsFiniteSet(AllSeats(t)) /\ Cardinality(AllSeats(t)) \in Nat
           /\ \A type, class : SeatsOf(t, type, class) \subseteq AllSeats(t)
<1>1. AllSeats(t) \subseteq SeatNo
    BY PatternFacts DEF AllSeats
<1>2. IsFiniteSet(AllSeats(t))
    BY <1>1, RecordAssumption, FS_Subset
<1>3. Cardinality(AllSeats(t)) \in Nat
    BY <1>2, FS_CardinalityType
<1> QED
    BY <1>1, <1>2, <1>3 DEF SeatsOf, AllSeats

\* A leg that validate_leg accepts is a leg over the route.
LEMMA LegFacts ==
    ASSUME NEW l \in [origin : Int, dest : Int], IsLeg(l), ValidLeg(l)
    PROVE  l \in Leg
BY DEF Leg, LegsOver, ValidLeg

\* Its ends are in order.
LEMMA LegEnds ==
    ASSUME NEW l \in Leg
    PROVE  /\ l.origin \in Nat /\ l.dest \in Nat /\ l.origin < l.dest
           /\ \E s \in Stations : s.seq = l.origin
           /\ \E s \in Stations : s.seq = l.dest
<1>1. /\ l.origin \in {s.seq : s \in Stations} /\ l.dest \in {s.seq : s \in Stations}
      /\ l.dest > l.origin
    BY DEF Leg, LegsOver, IsLeg
<1> QED
    BY <1>1, RouteAssumption

\* A journey along the route has a length.
LEMMA DistanceFacts ==
    ASSUME NEW l \in Leg
    PROVE  DistanceKm(l) \in Nat
<1> DEFINE o == CHOOSE s \in Stations : s.seq = l.origin
           d == CHOOSE s \in Stations : s.seq = l.dest
<1>1. o \in Stations /\ o.seq = l.origin /\ d \in Stations /\ d.seq = l.dest
    BY LegEnds
<1>2. o.km \in Nat /\ d.km \in Nat /\ o.km <= d.km
    BY <1>1, LegEnds, RouteAssumption
<1>3. DistanceKm(l) = d.km - o.km
    BY DEF DistanceKm
<1> QED
    BY <1>2, <1>3

\* Finitely many seats are taken.
LEMMA BusyFinite ==
    ASSUME NEW s, NEW t, NEW l
    PROVE  IsFiniteSet(Busy(s, t, l)) /\ Cardinality(Busy(s, t, l)) \in Nat
<1> DEFINE A == {a \in ActiveHolds(s, t) : Overlaps(s[a].leg, l)}
           f == [b \in A |-> s[b].seat]
<1>1. A \subseteq Id
    BY DEF ActiveHolds, Present
<1>2. IsFiniteSet(A)
    BY <1>1, IdAssumption, FS_Subset
<1>3. f \in Surjection(A, Busy(s, t, l))
    BY DEF Surjection, Busy
<1>4. IsFiniteSet(Busy(s, t, l))
    BY <1>2, <1>3, FS_Surjection
<1> QED
    BY <1>4, FS_CardinalityType

\* An amount of cents.
LEMMA FareType ==
    ASSUME NEW km \in Nat, NEW mult \in Nat, NEW busy \in Nat, NEW total \in Nat
    PROVE  DynamicFare(km, mult, busy, total) \in Nat
<1>1. DistanceFare(km, mult) \in Nat /\ Floor \in Nat
    BY DistanceFareType, BandAssumption
<1>2. DistanceFare(km, mult) * Floor \in Nat
    BY <1>1
<1>3. DemandTenths(busy, total) \in Nat
    BY DemandMonotone, busy <= busy
<1>4. DistanceFare(km, mult) * DemandTenths(busy, total) \in Nat
    BY <1>1, <1>3
<1>5. RoundHalfUp(DistanceFare(km, mult) * Floor, 10) \in Nat
    BY <1>2, RoundType
<1>6. CASE total = 0
    BY <1>5, <1>6 DEF DynamicFare
<1>7. CASE total # 0
    <2>1. 10 * total \in Nat \ {0}
        BY <1>7
    <2>2. RoundHalfUp(DistanceFare(km, mult) * DemandTenths(busy, total), 10 * total) \in Nat
        BY <1>4, <2>1, RoundType
    <2> QED
        BY <1>7, <2>2 DEF DynamicFare
<1> QED
    BY <1>6, <1>7

\* The price of a leg over the route.
LEMMA PriceType ==
    ASSUME NEW s, NEW t \in Trip, NEW l \in Leg, NEW c \in Class
    PROVE  PriceLeg(s, t, l, c) \in Int
<1>1. /\ Mult[c] \in Nat /\ DistanceKm(l) \in Nat
      /\ Cardinality(Busy(s, t, l)) \in Nat /\ Cardinality(AllSeats(t)) \in Nat
    BY RecordAssumption, DistanceFacts, BusyFinite, SeatFacts
<1>2. PriceLeg(s, t, l, c) \in Nat
    BY <1>1, FareType DEF PriceLeg
<1> QED
    BY <1>2

\* price_leg: more seats taken, no lower price.
LEMMA PriceMonotone ==
    ASSUME NEW s, NEW u, NEW t \in Trip, NEW l \in Leg, NEW c \in Class,
           Busy(s, t, l) \subseteq Busy(u, t, l)
    PROVE  PriceLeg(s, t, l, c) <= PriceLeg(u, t, l, c)
<1>1. Mult[c] \in Nat /\ DistanceKm(l) \in Nat /\ Cardinality(AllSeats(t)) \in Nat
    BY RecordAssumption, DistanceFacts, SeatFacts
<1>2. /\ Cardinality(Busy(s, t, l)) \in Nat /\ Cardinality(Busy(u, t, l)) \in Nat
      /\ Cardinality(Busy(s, t, l)) <= Cardinality(Busy(u, t, l))
    BY BusyFinite, FS_Subset
<1> QED
    BY <1>1, <1>2, DearerWhenFuller DEF PriceLeg

-----------------------------------------------------------------------------
(* What the store's operations keep.                                       *)

\* expire_due changes no more than the status of holds out of time.
LEMMA ExpireFacts ==
    ASSUME NEW s \in Store, NEW t \in Nat
    PROVE  /\ ExpireDue(s, t) \in Store
           /\ Present(ExpireDue(s, t)) = Present(s)
           /\ \A b \in Present(s) :
                /\ Columns(ExpireDue(s, t)[b]) = Columns(s[b])
                /\ ExpireDue(s, t)[b].status =
                       IF s[b].status = "HELD" /\ s[b].until <= t THEN "EXPIRED"
                       ELSE s[b].status
<1> DEFINE u == ExpireDue(s, t)
<1>1. ASSUME NEW b \in Id
      PROVE  /\ s[b] = NoHold => u[b] = NoHold
             /\ s[b] # NoHold =>
                   /\ u[b] \in HoldRecord
                   /\ Columns(u[b]) = Columns(s[b])
                   /\ u[b].status = IF s[b].status = "HELD" /\ s[b].until <= t
                                    THEN "EXPIRED" ELSE s[b].status
    <2>1. CASE s[b] = NoHold
        BY <2>1 DEF ExpireDue
    <2>2. CASE s[b] # NoHold
        <3>1. s[b] \in HoldRecord
            BY <2>2 DEF Store
        <3>2. u[b] = IF s[b].status = "HELD" /\ s[b].until <= t
                     THEN [s[b] EXCEPT !.status = "EXPIRED"] ELSE s[b]
            BY <2>2 DEF ExpireDue
        <3> QED
            BY <2>2, <3>1, <3>2 DEF HoldRecord, Columns, BStatus
    <2> QED
        BY <2>1, <2>2
<1>2. u \in Store
    BY <1>1 DEF Store, ExpireDue
<1>3. Present(u) = Present(s)
    BY <1>1, RecordAssumption DEF Present
<1> QED
    BY <1>1, <1>2, <1>3 DEF Present

\* What columns two records with the same columns have.
LEMMA ColumnFacts ==
    ASSUME NEW x, NEW y, Columns(x) = Columns(y)
    PROVE  /\ x.trip = y.trip /\ x.seat = y.seat /\ x.leg = y.leg /\ x.class = y.class
           /\ x.who = y.who /\ x.ref = y.ref /\ x.until = y.until /\ x.created = y.created
BY DEF Columns

\* Retiring holds leaves a sound store.
LEMMA ExpireSound ==
    ASSUME NEW s \in Store, Sound(s), NEW t \in Nat
    PROVE  Sound(ExpireDue(s, t))
<1> DEFINE u == ExpireDue(s, t)
<1>1. /\ Present(u) = Present(s)
      /\ \A b \in Present(s) :
            /\ u[b].trip = s[b].trip /\ u[b].seat = s[b].seat /\ u[b].leg = s[b].leg
            /\ u[b].ref = s[b].ref /\ u[b].until = s[b].until
            /\ u[b].status \in {s[b].status, "EXPIRED"}
    BY ExpireFacts, ColumnFacts
<1> HIDE DEF u
<1>2. Apart(u)
    BY <1>1 DEF Sound, Apart, Active, Clash
<1> QED
    BY <1>1, <1>2 DEF Sound, Active, u

\* Adding a booking where nothing is in the way.
LEMMA AddSound ==
    ASSUME NEW s \in Store, Sound(s), NEW b \in Id, s[b] = NoHold, NEW h \in HoldRecord,
           Clear(s, h), ByReference(s, h.ref) = {}, h.ref \in Ref \cup {b},
           h.status = "HELD" => h.until # 0, h.status = "STANDING" => h.seat = NoSeat,
           h.status \in Active => h.seat # NoSeat
    PROVE  AddHold(s, b, h) \in Store /\ Sound(AddHold(s, b, h))
<1> DEFINE u == AddHold(s, b, h)
<1>1. u \in Store /\ u[b] = h /\ \A c \in Id \ {b} : u[c] = s[c]
    BY DEF AddHold, Store
<1>2. /\ Present(u) = Present(s) \cup {b} /\ b \notin Present(s)
      /\ Present(s) \subseteq Id
    BY <1>1, RecordAssumption DEF Present
<1> HIDE DEF u
<1>3. \A c \in Present(s) :
        s[c].status \in Active /\ s[c].trip = h.trip /\ s[c].seat = h.seat
            => ~Overlaps(s[c].leg, h.leg) /\ ~Overlaps(h.leg, s[c].leg)
    BY DEF Clear, ActiveForSeat, ActiveHolds, Overlaps
<1>4. Apart(u)
    BY <1>1, <1>2, <1>3 DEF Sound, Apart, Clash
<1>5. \A c \in Present(s) : s[c].ref # h.ref
    BY DEF ByReference
<1> QED
    BY <1>1, <1>2, <1>4, <1>5 DEF Sound, u

\* Settling a booking.
LEMMA SetSound ==
    ASSUME NEW s \in Store, Sound(s), NEW b \in Present(s),
           NEW x \in {"CONFIRMED", "CANCELLED"}, x = "CONFIRMED" => s[b].status \in Active
    PROVE  SetStatus(s, b, x) \in Store /\ Sound(SetStatus(s, b, x))
<1> DEFINE u == SetStatus(s, b, x)
<1>1. b \in Id /\ s[b] \in HoldRecord
    BY DEF Present, Store
<1>2. /\ u \in Store /\ u[b] = [s[b] EXCEPT !.status = x]
      /\ \A c \in Id \ {b} : u[c] = s[c]
    BY <1>1 DEF SetStatus, Store, HoldRecord, BStatus
<1>3. /\ u[b].trip = s[b].trip /\ u[b].seat = s[b].seat /\ u[b].leg = s[b].leg
      /\ u[b].ref = s[b].ref /\ u[b].status = x /\ u[b] \in HoldRecord
    BY <1>1, <1>2 DEF HoldRecord, BStatus
<1> HIDE DEF u
<1>4. Present(u) = Present(s)
    BY <1>1, <1>2, <1>3, RecordAssumption DEF Present
<1>5. \A c \in Present(u) :
        /\ u[c].trip = s[c].trip /\ u[c].seat = s[c].seat /\ u[c].leg = s[c].leg
        /\ u[c].ref = s[c].ref /\ u[c].until = s[c].until
        /\ u[c].status \in {s[c].status, "CONFIRMED", "CANCELLED"}
        /\ u[c].status \in Active => s[c].status \in Active
    <2>1. u[b].until = s[b].until
        BY <1>1, <1>2 DEF HoldRecord, BStatus
    <2> QED
        BY <1>2, <1>3, <1>4, <2>1 DEF Present, Active
<1>6. Apart(u)
    BY <1>4, <1>5 DEF Sound, Apart, Clash
<1> QED
    BY <1>2, <1>4, <1>5, <1>6 DEF Sound, u

-----------------------------------------------------------------------------
(* What every use-case keeps.                                              *)

\* The store that a request finds once lapsed holds are retired.
LEMMA CurrentFacts ==
    ASSUME StoreInv
    PROVE  /\ Current \in Store /\ Sound(Current) /\ Present(Current) = Present(holds)
           /\ \A b \in Present(holds) :
                /\ Columns(Current[b]) = Columns(holds[b])
                /\ Current[b].status =
                       IF holds[b].status = "HELD" /\ holds[b].until <= now THEN "EXPIRED"
                       ELSE holds[b].status
<1>1. holds \in Store /\ Sound(holds) /\ now \in Nat
    BY DEF StoreInv, TypeOK
<1> QED
    BY <1>1, ExpireFacts, ExpireSound DEF Current

\* A request for an id finds one no booking has.
LEMMA NewIdFacts ==
    ASSUME NEW b \in NewId
    PROVE  b \in Id /\ holds[b] = NoHold /\ b \notin Present(holds)
BY DEF NewId, Present

\* The reference a booking gets is nobody else's.
LEMMA ReferenceFacts ==
    ASSUME StoreInv, NEW c \in HoldCalls \cup SaleCalls, FirstTime(c), NEW b \in NewId
    PROVE  /\ ReferenceOf(c, b) \in Ref \cup {b}
           /\ ByReference(Current, ReferenceOf(c, b)) = {}
<1>1. c.ref \in Ref \cup {NoRef}
    BY CallsAssumption
<1>2. \A a \in Present(holds) : Current[a].ref = holds[a].ref
    BY CurrentFacts, ColumnFacts
<1>3. Present(Current) = Present(holds)
    BY CurrentFacts
<1>4. \A a \in Present(holds) : holds[a].ref \in Ref \cup {a} /\ a \in Id /\ a # b
    BY NewIdFacts DEF StoreInv, Sound, Present
<1>5. CASE c.ref = NoRef
    <2>1. ReferenceOf(c, b) = b /\ b \in Id
        BY <1>5, NewIdFacts DEF ReferenceOf
    <2> QED
        BY <1>2, <1>3, <1>4, <2>1, IdAssumption DEF ByReference
<1>6. CASE c.ref # NoRef
    <2>1. ReferenceOf(c, b) = c.ref /\ c.ref \in Ref
        BY <1>1, <1>6 DEF ReferenceOf
    <2> QED
        BY <1>2, <1>3, <2>1 DEF FirstTime, ByReference
<1> QED
    BY <1>5, <1>6

\* An instant has a date.
LEMMA DateType ==
    ASSUME NEW t \in Nat
    PROVE  DateAt(t) \in Nat
<1> DEFINE a == Start + 60 * UtcOffset
           b == Start + t * TickSeconds + 60 * UtcOffset
<1>1. t * TickSeconds \in Nat /\ Start \in Nat /\ UtcOffset \in Int
    BY ClockAssumption
<1>2. a \in Int /\ b \in Int /\ a <= b
    BY <1>1
<1>3. DateAt(t) = b \div SecondsPerDay /\ a \div SecondsPerDay \in Nat
    BY ClockAssumption DEF DateAt, DateFromEpoch
<1> HIDE DEF a, b
<1>4. SecondsPerDay \in Nat \ {0} /\ b \div SecondsPerDay \in Int
    BY <1>2 DEF SecondsPerDay
<1>5. a \div SecondsPerDay <= b \div SecondsPerDay
    BY <1>2, <1>4, QuotientMonotone
<1> QED
    BY <1>3, <1>4, <1>5

\* trips_for_window: what is seeded are trips of the timetable.
LEMMA SeededTrips ==
    ASSUME NEW start \in Nat
    PROVE  TripsForWindow(start, BookingWindow) \subseteq Trip
<1>1. \A days : ServiceDates(days, start, BookingWindow) \subseteq Nat
    BY ClockAssumption DEF ServiceDates
<1> QED
    BY <1>1 DEF TripsForWindow, TripIdFor, Trip

\* Only a hold can be confirmed.
LEMMA ConfirmFacts ==
    ASSUME NEW x, CanApply(x, "CONFIRM")
    PROVE  x = "HELD" /\ ApplyEvent(x, "CONFIRM") = "CONFIRMED"
<1>1. \A t : <<x, "CONFIRM", t>> \in Transitions => x = "HELD" /\ t = "CONFIRMED"
    BY DEF Transitions
<1>2. \E t \in BStatus : <<x, "CONFIRM", t>> \in Transitions
    BY DEF CanApply
<1>3. <<x, "CONFIRM", ApplyEvent(x, "CONFIRM")>> \in Transitions
    BY <1>2 DEF ApplyEvent
<1> QED
    BY <1>1, <1>3

\* What hold_seat and sell_unreserved do to the store: h is added as booking b.
Issues(b, h) ==
    /\ holds[b] = NoHold /\ holds' = AddHold(Current, b, h)
    /\ Clear(Current, h)
    /\ ByReference(Current, h.ref) = {} /\ h.ref \in Ref \cup {b}
    /\ h.status \in {"HELD", "CONFIRMED", "STANDING"}
    /\ h.status = "HELD" <=> h.until # 0
    /\ h.status = "STANDING" => h.seat = NoSeat
    /\ h.status \in Active => h.seat # NoSeat

\* What confirm_booking and cancel_booking do to it: booking b gets status x.
Settles(s, b, x) ==
    /\ b \in Present(s) /\ holds' = SetStatus(s, b, x)
    /\ x = "CONFIRMED" => s[b].status = "HELD"

\* hold_seat adds a hold to the store.
LEMMA HoldIssues ==
    ASSUME StoreInv, NEW c \in HoldCalls, Hold(c)
    PROVE  \E b \in Id, h \in HoldRecord : Issues(b, h)
<1>1. PICK b \in NewId, s \in Reservable(c.trip) :
        /\ Clear(Current, HeldRecord(c, b, s))
        /\ holds' = AddHold(Current, b, HeldRecord(c, b, s))
    BY DEF Hold
<1> DEFINE h == HeldRecord(c, b, s)
<1>2. c.trip \in Trip /\ c.leg \in Leg /\ c.who \in Passenger /\ FirstTime(c)
    BY LegFacts, CallsAssumption DEF Hold, StoreInv, TypeOK
<1>3. s.id \in SeatNo /\ s.class \in Class
    BY <1>2, PatternFacts DEF Reservable
<1>4. /\ h.ref = ReferenceOf(c, b) /\ h.status = "HELD" /\ h.until = now + HoldTTL
      /\ ReferenceOf(c, b) \in Ref \cup {b} /\ ByReference(Current, ReferenceOf(c, b)) = {}
      /\ b \in Id /\ Current[b] = NoHold
    <2>1. b \in Id /\ b \notin Present(Current)
        BY NewIdFacts, CurrentFacts
    <2> QED
        BY <1>2, <2>1, ReferenceFacts DEF HeldRecord, Present
<1>5. now \in Nat /\ now + HoldTTL \in Nat \ {0}
    BY ClockAssumption DEF StoreInv, TypeOK
<1>6. PriceLeg(Current, c.trip, c.leg, s.class) \in Int
    BY <1>2, <1>3, PriceType
<1>7. h \in HoldRecord
    BY <1>2, <1>3, <1>4, <1>5, <1>6 DEF HeldRecord, HoldRecord, BStatus
<1>8. Issues(b, h)
    <2>1. h.seat # NoSeat
        BY <1>3, RecordAssumption DEF HeldRecord
    <2> QED
        BY <1>1, <1>4, <1>5, <2>1, NewIdFacts DEF Issues
<1> QED
    BY <1>4, <1>7, <1>8

\* sell_unreserved adds a ticket to the store.
LEMMA SellIssues ==
    ASSUME StoreInv, NEW c \in SaleCalls, Sell(c)
    PROVE  \E b \in Id, h \in HoldRecord : Issues(b, h)
<1>1. PICK b \in NewId, seat \in FreePool(c) \cup {NoSeat} :
        /\ Clear(Current, SoldRecord(c, b, seat))
        /\ holds' = AddHold(Current, b, SoldRecord(c, b, seat))
    BY DEF Sell
<1> DEFINE h == SoldRecord(c, b, seat)
<1>2. /\ c.trip \in Trip /\ c.leg \in Leg /\ c.who \in Passenger /\ c.class \in Class
      /\ FirstTime(c)
    BY LegFacts, CallsAssumption DEF Sell, StoreInv, TypeOK
<1>3. seat \in SeatNo \cup {NoSeat}
    BY <1>2, SeatFacts DEF FreePool
<1>4. /\ h.ref = ReferenceOf(c, b) /\ h.seat = seat /\ h.until = 0
      /\ h.status = IF seat = NoSeat THEN "STANDING" ELSE "CONFIRMED"
      /\ ReferenceOf(c, b) \in Ref \cup {b} /\ ByReference(Current, ReferenceOf(c, b)) = {}
      /\ b \in Id /\ Current[b] = NoHold
    <2>1. b \in Id /\ b \notin Present(Current)
        BY NewIdFacts, CurrentFacts
    <2> QED
        BY <1>2, <2>1, ReferenceFacts DEF SoldRecord, Present
<1>5. now \in Nat /\ 0 \in Nat
    BY DEF StoreInv, TypeOK
<1>6. PriceLeg(Current, c.trip, c.leg, c.class) \in Int
    BY <1>2, PriceType
<1>7. h \in HoldRecord
    BY <1>2, <1>3, <1>4, <1>5, <1>6 DEF SoldRecord, HoldRecord, BStatus
<1>8. Issues(b, h)
    BY <1>1, <1>4, NewIdFacts DEF Issues, Active
<1> QED
    BY <1>4, <1>7, <1>8

\* confirm_booking and cancel_booking change one status.
LEMMA SettleSettles ==
    ASSUME StoreInv, NEW b \in Id, Confirm(b) \/ Cancel(b)
    PROVE  \E s \in {Current, holds}, x \in {"CONFIRMED", "CANCELLED"} : Settles(s, b, x)
BY ConfirmFacts DEF Confirm, Cancel, Settles

\* Whatever a step does to the store is one of four things.
LEMMA StoreSteps ==
    ASSUME StoreInv, [Next]_vars
    PROVE  \/ holds' = holds
           \/ /\ UNCHANGED <<now, trips, seeded>>
              /\ \/ holds' = Current
                 \/ \E b \in Id, h \in HoldRecord : Issues(b, h)
                 \/ \E b \in Id, s \in {Current, holds}, x \in {"CONFIRMED", "CANCELLED"} :
                        Settles(s, b, x)
<1>1. CASE UNCHANGED vars \/ Tick \/ Seed
    BY <1>1 DEF vars, Tick, Seed
<1>2. ASSUME NEW c \in HoldCalls, Hold(c)
      PROVE  UNCHANGED <<now, trips, seeded>> /\ \E b \in Id, h \in HoldRecord : Issues(b, h)
    BY <1>2, HoldIssues DEF Hold
<1>3. ASSUME NEW c \in SaleCalls, Sell(c)
      PROVE  UNCHANGED <<now, trips, seeded>> /\ \E b \in Id, h \in HoldRecord : Issues(b, h)
    BY <1>3, SellIssues DEF Sell
<1>4. ASSUME NEW b \in Id, Confirm(b) \/ Cancel(b)
      PROVE  /\ UNCHANGED <<now, trips, seeded>>
             /\ \E s \in {Current, holds}, x \in {"CONFIRMED", "CANCELLED"} : Settles(s, b, x)
    BY <1>4, SettleSettles DEF Confirm, Cancel
<1>5. CASE \/ \E j \in Journeys : Search(j)
           \/ \E c \in HoldCalls : Browse(c.trip, c.leg)
           \/ \E k \in Ref \cup Id : Verify(k)
    BY <1>5 DEF Search, Browse, Verify
<1> QED
    BY <1>1, <1>2, <1>3, <1>4, <1>5 DEF Next

\* And leaves the store sound.
LEMMA StoreKept ==
    ASSUME StoreInv, [Next]_vars
    PROVE  holds' \in Store /\ Sound(holds')
<1>1. Current \in Store /\ Sound(Current) /\ holds \in Store /\ Sound(holds)
    BY CurrentFacts DEF StoreInv, TypeOK
<1>2. ASSUME NEW b \in Id, NEW h \in HoldRecord, Issues(b, h)
      PROVE  holds' \in Store /\ Sound(holds')
    <2>1. Current[b] = NoHold
        BY <1>2, CurrentFacts DEF Issues, Present
    <2> QED
        BY <1>1, <1>2, <2>1, AddSound DEF Issues
<1>3. ASSUME NEW b \in Id, NEW s \in {Current, holds}, NEW x \in {"CONFIRMED", "CANCELLED"},
             Settles(s, b, x)
      PROVE  holds' \in Store /\ Sound(holds')
    BY <1>1, <1>3, SetSound DEF Settles, Active
<1> QED
    BY <1>1, <1>2, <1>3, StoreSteps

\* A request or a tick leaves the trips and their bookings sound.
LEMMA StepKeeps ==
    ASSUME StoreInv, [Next]_vars
    PROVE  StoreInv'
<1>1. now \in Nat /\ trips \subseteq Trip /\ seeded \in Nat
    BY DEF StoreInv, TypeOK
<1>2. now' \in Nat /\ trips' \subseteq Trip /\ seeded' \in Nat
    <2>1. CASE Seed
        BY <1>1, <2>1, DateType, SeededTrips DEF Seed
    <2>2. CASE Tick
        BY <1>1, <2>2 DEF Tick
    <2>3. CASE UNCHANGED <<now, trips, seeded>>
        BY <1>1, <2>3
    <2>4. [Next]_vars => Seed \/ Tick \/ UNCHANGED <<now, trips, seeded>>
        BY DEF Next, vars, Hold, Sell, Confirm, Cancel, Search, Browse, Verify
    <2> QED
        BY <2>1, <2>2, <2>3, <2>4
<1> QED
    BY <1>2, StoreKept DEF StoreInv, TypeOK, Sound, Apart, Present

\* It holds on the seeded and otherwise empty database.
LEMMA InitSound ==
    ASSUME Init
    PROVE  StoreInv
<1>1. DateAt(0) \in Nat /\ TripsForWindow(DateAt(0), BookingWindow) \subseteq Trip
    BY DateType, SeededTrips
<1>2. Present(holds) = {}
    BY DEF Init, Present
<1> QED
    BY <1>1, <1>2 DEF Init, StoreInv, TypeOK, Store, Sound, Apart

\* The store is sound whatever use-cases follow each other, whichever of them are refused
\* and however often the timetable is seeded.
THEOREM StoreSound == Spec => []StoreInv
BY InitSound, StepKeeps, PTL DEF Spec

\* The trips and the bookings are well formed: a fare is a number of cents, a leg lies on
\* the route, a seat is one of the train or none.
THEOREM ServiceTyped == Spec => []TypeOK
<1>1. StoreInv => TypeOK
    BY DEF StoreInv
<1> QED
    BY <1>1, StoreSound, PTL

\* memory_repo.py: no two active bookings have one seat over a common part of their legs.
THEOREM ServiceSeatsApart == Spec => []SeatsApart
<1>1. StoreInv => SeatsApart
    BY DEF StoreInv, Sound, SeatsApart
<1> QED
    BY <1>1, StoreSound, PTL

-----------------------------------------------------------------------------
(* What the answers promise.                                               *)

\* Retiring lapsed holds takes nobody's seat but frees some.
LEMMA CurrentBusy ==
    ASSUME StoreInv, NEW t, NEW l
    PROVE  Busy(Current, t, l) \subseteq Busy(holds, t, l)
<1>1. Present(Current) = Present(holds)
    BY CurrentFacts
<1>2. \A b \in Present(holds) :
        /\ Current[b].trip = holds[b].trip /\ Current[b].seat = holds[b].seat
        /\ Current[b].leg = holds[b].leg
        /\ Current[b].status \in Active => holds[b].status \in Active
    BY CurrentFacts, ColumnFacts DEF Active
<1> QED
    BY <1>1, <1>2 DEF Busy, ActiveHolds

\* price_leg: a hold is never charged more than the quote just before it, and exactly the
\* quote unless that counted a lapsed hold; for every fare table and demand band.
THEOREM ChargeWithinQuote == Spec => []QuoteCoversCharge
<1>1. ASSUME StoreInv, NEW c \in HoldCalls, c.trip \in trips, IsLeg(c.leg), ValidLeg(c.leg),
             NEW s \in Reservable(c.trip)
      PROVE  /\ HeldRecord(c, 0, s).fare <= QuoteFare(c.trip, c.leg, s.class)
             /\ Current = holds =>
                    HeldRecord(c, 0, s).fare = QuoteFare(c.trip, c.leg, s.class)
    <2>1. c.trip \in Trip /\ c.leg \in Leg
        BY <1>1, LegFacts, CallsAssumption DEF StoreInv, TypeOK
    <2>2. s.class \in Class
        BY <1>1, <2>1, PatternFacts DEF Reservable
    <2>3. PriceLeg(Current, c.trip, c.leg, s.class) <= PriceLeg(holds, c.trip, c.leg, s.class)
        BY <1>1, <2>1, <2>2, CurrentBusy, PriceMonotone
    <2> QED
        BY <2>3 DEF HeldRecord, QuoteFare
<1>2. StoreInv => QuoteCoversCharge
    BY <1>1 DEF QuoteCoversCharge
<1> QED
    BY <1>2, StoreSound, PTL

\* search_trains, leg_availability and add_hold agree on the free seats of every train,
\* class and leg.
THEOREM SearchKeepsItsWord == Spec => []OffersHold
<1>1. ASSUME TypeOK, NEW t \in Trip, NEW l, NEW class
      PROVE  /\ {s \in SeatsOf(t, "RESERVED", class) :
                    Clear(Current, [trip |-> t, seat |-> s, leg |-> l])}
                  = SeatsOf(t, "RESERVED", class) \ Busy(Current, t, l)
             /\ AvailableSeats(t, l) \cap SeatsOf(t, "RESERVED", class)
                  = SeatsOf(t, "RESERVED", class) \ Busy(Current, t, l)
    <2>1. ASSUME NEW s
          PROVE  Clear(Current, [trip |-> t, seat |-> s, leg |-> l])
                    <=> s \notin Busy(Current, t, l)
        BY DEF Clear, ActiveForSeat, Busy
    <2> QED
        BY <2>1, SeatFacts DEF AvailableSeats
<1>2. ASSUME TypeOK, NEW j \in Journeys, NEW o \in TrainOptions(j), NEW x \in o.classes
      PROVE  /\ o.trip \in Trip
             /\ x.free = Cardinality(SeatsOf(o.trip, "RESERVED", x.class)
                                        \ Busy(Current, o.trip, o.leg))
    <2>1. PICK t \in trips : o = Option(t, LegOf(j))
        BY DEF TrainOptions, FindByDate
    <2>2. o.trip = t /\ o.leg = LegOf(j) /\ x \in ClassAvailability(t, LegOf(j))
        BY <1>2, <2>1 DEF Option
    <2>3. x.free = Cardinality(SeatsOf(t, "RESERVED", x.class) \ Busy(Current, t, LegOf(j)))
        <3>1. PICK c \in Class :
                x = [class |-> c,
                     free |-> Cardinality(SeatsOf(t, "RESERVED", c)
                                            \ Busy(Current, t, LegOf(j))),
                     fare |-> PriceLeg(Current, t, LegOf(j), c)]
            BY <2>2 DEF ClassAvailability
        <3>2. x.class = c
            BY <3>1
        <3>3. x.free = Cardinality(SeatsOf(t, "RESERVED", c) \ Busy(Current, t, LegOf(j)))
            BY <3>1
        <3> QED
            BY <3>2, <3>3
    <2> QED
        BY <1>2, <2>2, <2>3 DEF TypeOK
<1>3. ASSUME TypeOK, NEW j \in Journeys, NEW o \in TrainOptions(j), NEW x \in o.classes
      PROVE  LET accepted == {s \in SeatsOf(o.trip, "RESERVED", x.class) :
                                Clear(Current, [trip |-> o.trip, seat |-> s, leg |-> o.leg])}
             IN  /\ x.free = Cardinality(accepted)
                 /\ accepted = AvailableSeats(o.trip, o.leg)
                                 \cap SeatsOf(o.trip, "RESERVED", x.class)
    <2> DEFINE seats == SeatsOf(o.trip, "RESERVED", x.class)
               accepted == {s \in seats :
                              Clear(Current, [trip |-> o.trip, seat |-> s, leg |-> o.leg])}
    <2>1. o.trip \in Trip /\ x.free = Cardinality(seats \ Busy(Current, o.trip, o.leg))
        BY <1>2, <1>3
    <2>2. /\ accepted = seats \ Busy(Current, o.trip, o.leg)
          /\ AvailableSeats(o.trip, o.leg) \cap seats = seats \ Busy(Current, o.trip, o.leg)
        BY <1>1, <1>3, <2>1
    <2> HIDE DEF accepted, seats
    <2>3. x.free = Cardinality(accepted) /\ accepted = AvailableSeats(o.trip, o.leg) \cap seats
        BY <2>1, <2>2
    <2> QED
        BY <2>3 DEF accepted, seats
<1>4. TypeOK => OffersHold
    BY <1>3 DEF OffersHold
<1> QED
    BY <1>4, ServiceTyped, PTL

\* verify_ticket and leg_availability agree on who sits where, and no hold out of time
\* passes for one that may still be paid.
THEOREM GateIsRight == Spec => []GateAgrees
<1>1. ASSUME StoreInv, NEW b \in Present(holds)
      PROVE  /\ ByReference(holds, holds[b].ref) = {b}
             /\ VerdictOf(b) \in {"VALID", "UNPAID"} /\ holds[b].seat # NoSeat =>
                    holds[b].seat \notin AvailableSeats(holds[b].trip, holds[b].leg)
             /\ VerdictOf(b) = "UNPAID" => now < holds[b].until
    <2>1. ByReference(holds, holds[b].ref) = {b}
        BY <1>1 DEF ByReference, StoreInv, Sound
    <2>2. /\ b \in Present(Current) /\ holds[b] \in HoldRecord
          /\ Current[b].trip = holds[b].trip /\ Current[b].seat = holds[b].seat
          /\ Current[b].leg = holds[b].leg
          /\ Current[b].status = IF holds[b].status = "HELD" /\ holds[b].until <= now
                                 THEN "EXPIRED" ELSE holds[b].status
        BY <1>1, CurrentFacts, ColumnFacts DEF StoreInv, TypeOK, Store, Present
    <2>3. holds[b].status \in BStatus /\ holds[b].until \in Nat /\ holds[b].leg \in Leg
        BY <2>2 DEF HoldRecord
    <2>4. /\ VerdictOf(b) = "UNPAID" => Current[b].status = "HELD"
          /\ VerdictOf(b) = "VALID" => Current[b].status \in {"CONFIRMED", "STANDING"}
        BY <2>2, <2>3 DEF VerdictOf, Verdicts, BStatus
    <2>5. VerdictOf(b) = "UNPAID" => now < holds[b].until
        BY <1>1, <2>2, <2>3, <2>4 DEF StoreInv, TypeOK
    <2>6. ASSUME VerdictOf(b) \in {"VALID", "UNPAID"}, holds[b].seat # NoSeat
          PROVE  holds[b].seat \in Busy(Current, holds[b].trip, holds[b].leg)
        <3>1. Current[b].status \in Active
            <4>1. Current[b].status # "STANDING"
                BY <1>1, <2>2, <2>6 DEF StoreInv, Sound
            <4> QED
                BY <2>4, <2>6, <4>1 DEF Active
        <3>2. Overlaps(Current[b].leg, holds[b].leg)
            BY <2>2, <2>3, LegEnds DEF Overlaps
        <3> QED
            BY <2>2, <3>1, <3>2 DEF Busy, ActiveHolds
    <2> QED
        BY <2>1, <2>5, <2>6 DEF AvailableSeats
<1>2. StoreInv => GateAgrees
    BY <1>1 DEF GateAgrees
<1> QED
    BY <1>2, StoreSound, PTL

\* No step brings a booking back or changes its columns.
LEMMA NoRevival ==
    ASSUME StoreInv, [Next]_vars, NEW b \in Present(holds)
    PROVE  /\ b \in Present(holds')
           /\ Columns(holds'[b]) = Columns(holds[b])
           /\ holds'[b].status \in Active => holds[b].status \in Active
<1>1. /\ holds \in Store /\ Current \in Store /\ b \in Id
      /\ \A s \in {Current, holds} :
            /\ b \in Present(s) /\ s[b] \in HoldRecord
            /\ Columns(s[b]) = Columns(holds[b])
            /\ s[b].status \in Active => holds[b].status \in Active
    BY CurrentFacts DEF StoreInv, TypeOK, Store, Present, Active
<1>2. CASE holds' \in {Current, holds}
    BY <1>1, <1>2
<1>3. ASSUME NEW a \in Id, NEW h \in HoldRecord, Issues(a, h)
      PROVE  b \in Present(holds') /\ holds'[b] = Current[b]
    <2>1. a # b
        BY <1>3 DEF Issues, Present
    <2>2. holds'[b] = Current[b]
        BY <1>1, <1>3, <2>1 DEF Issues, AddHold, Store
    <2> QED
        BY <1>1, <2>2 DEF Present
<1>4. ASSUME NEW a \in Id, NEW s \in {Current, holds}, NEW x \in {"CONFIRMED", "CANCELLED"},
             Settles(s, a, x)
      PROVE  /\ b \in Present(holds')
             /\ Columns(holds'[b]) = Columns(s[b])
             /\ holds'[b].status \in Active => s[b].status \in Active
    <2>1. s \in Store
        BY <1>1
    <2>2. CASE a # b
        <3>1. holds'[b] = s[b]
            BY <1>1, <1>4, <2>1, <2>2 DEF Settles, SetStatus, Store
        <3> QED
            BY <1>1, <3>1 DEF Present
    <2>3. CASE a = b
        <3>1. holds'[b] = [s[b] EXCEPT !.status = x] /\ s[b] \in HoldRecord
            BY <1>1, <1>4, <2>1, <2>3 DEF Settles, SetStatus, Store
        <3>2. holds'[b] \in HoldRecord /\ holds'[b].status = x
            BY <3>1 DEF HoldRecord, BStatus
        <3>3. Columns(holds'[b]) = Columns(s[b])
            BY <3>1 DEF HoldRecord, Columns
        <3> QED
            BY <1>1, <1>4, <2>3, <3>2, <3>3, RecordAssumption DEF Present, Settles, Active
    <2> QED
        BY <2>2, <2>3
<1> QED
    BY <1>1, <1>2, <1>3, <1>4, StoreSteps

\* dynamic_fare: no quote rises but by a booking on a part of its leg.
THEOREM QuotesRiseBySaleOnly == Spec => DearerOnlyBySale
<1>1. ASSUME StoreInv, [Next]_vars,
             NEW c \in HoldCalls, c.trip \in trips, IsLeg(c.leg), ValidLeg(c.leg),
             NEW x \in {s.class : s \in Reservable(c.trip)},
             QuoteFare(c.trip, c.leg, x)' > QuoteFare(c.trip, c.leg, x)
      PROVE  \E b \in Id :
                /\ holds[b] = NoHold /\ holds'[b] # NoHold
                /\ holds'[b].trip = c.trip
                /\ Overlaps(holds'[b].leg, c.leg)
    <2>1. SUFFICES ASSUME \A b \in Id :
                            holds[b] = NoHold /\ holds'[b] # NoHold =>
                                ~(holds'[b].trip = c.trip /\ Overlaps(holds'[b].leg, c.leg))
                   PROVE  FALSE
        OBVIOUS
    <2>2. c.trip \in Trip /\ c.leg \in Leg /\ x \in Class
        BY <1>1, LegFacts, PatternFacts, CallsAssumption DEF StoreInv, TypeOK, Reservable
    <2>3. Busy(holds', c.trip, c.leg) \subseteq Busy(holds, c.trip, c.leg)
        <3>1. SUFFICES ASSUME NEW b \in ActiveHolds(holds', c.trip),
                              Overlaps(holds'[b].leg, c.leg)
                       PROVE  holds'[b].seat \in Busy(holds, c.trip, c.leg)
            BY DEF Busy
        <3>2. /\ b \in Id /\ holds'[b] # NoHold /\ holds'[b].trip = c.trip
              /\ holds'[b].status \in Active
            BY <3>1 DEF ActiveHolds, Present
        <3>3. b \in Present(holds)
            BY <2>1, <3>1, <3>2 DEF Present
        <3>4. /\ holds'[b].seat = holds[b].seat /\ holds'[b].trip = holds[b].trip
              /\ holds'[b].leg = holds[b].leg /\ holds[b].status \in Active
            BY <1>1, <3>2, <3>3, NoRevival, ColumnFacts
        <3> QED
            BY <3>1, <3>2, <3>3, <3>4 DEF Busy, ActiveHolds
    <2>4. PriceLeg(holds', c.trip, c.leg, x) <= PriceLeg(holds, c.trip, c.leg, x)
        BY <2>2, <2>3, PriceMonotone
    <2>5. /\ PriceLeg(holds', c.trip, c.leg, x) \in Int
          /\ PriceLeg(holds, c.trip, c.leg, x) \in Int
        BY <2>2, PriceType
    <2>6. PriceLeg(holds', c.trip, c.leg, x) > PriceLeg(holds, c.trip, c.leg, x)
        BY <1>1 DEF QuoteFare
    <2> QED
        BY <2>4, <2>5, <2>6
<1>2. StoreInv /\ [Next]_vars =>
        [\A c \in HoldCalls :
           holds' # holds /\ c.trip \in trips /\ IsLeg(c.leg) /\ ValidLeg(c.leg) =>
           \A x \in {s.class : s \in Reservable(c.trip)} :
               QuoteFare(c.trip, c.leg, x)' > QuoteFare(c.trip, c.leg, x) =>
                   \E b \in Id :
                       /\ holds[b] = NoHold /\ holds'[b] # NoHold
                       /\ holds'[b].trip = c.trip
                       /\ Overlaps(holds'[b].leg, c.leg)]_vars
    BY <1>1
<1> QED
    BY <1>2, StoreSound, PTL DEF Spec, DearerOnlyBySale

-----------------------------------------------------------------------------
(* Refinement of SeatLedger.                                               *)

\* The ledger's operators are the store's.
LEMMA SameLedger ==
    /\ Ledger!Absent = Absent /\ Ledger!Active = Active
    /\ \A x, y : Ledger!Clash(x, y) <=> Clash(x, y)
BY DEF Ledger!Absent, Absent, Ledger!Active, Active, Ledger!Clash, Clash,
       Ledger!NoSeat, NoSeat, Ledger!Overlaps, Overlaps

\* What the ledger sees of a store.
StatusIn(s) == [b \in Id |-> IF s[b] = NoHold THEN Absent ELSE s[b].status]
IssuedIn(s) == [b \in Id |-> IF s[b] = NoHold THEN NoHold ELSE Columns(s[b])]
HeldIn(s) == {b \in Id : s[b] # NoHold /\ s[b].until # 0}

LEMMA SeenByLedger ==
    /\ Status = StatusIn(holds) /\ Issued = IssuedIn(holds) /\ HeldOnce = HeldIn(holds)
    /\ Status' = StatusIn(holds') /\ Issued' = IssuedIn(holds') /\ HeldOnce' = HeldIn(holds')
BY DEF Status, Issued, HeldOnce, StatusIn, IssuedIn, HeldIn

\* The holds a request retires have lapsed, and nothing else about them changes.
LEMMA RetiresLapsedHolds ==
    ASSUME StoreInv
    PROVE  /\ \A s \in {Current, holds} :
                /\ IssuedIn(s) = Issued /\ HeldIn(s) = HeldOnce
                /\ \E E \in SUBSET Ledger!Lapsed : Ledger!Retired(E) = StatusIn(s)
<1> DEFINE E == {b \in Present(holds) : holds[b].status = "HELD" /\ holds[b].until <= now}
<1>1. \A b \in Id : Current[b] = NoHold <=> holds[b] = NoHold
    BY CurrentFacts DEF Present
<1>2. \A b \in Id : holds[b] # NoHold =>
        /\ Columns(Current[b]) = Columns(holds[b])
        /\ Current[b].until = holds[b].until
        /\ Current[b].status = IF b \in E THEN "EXPIRED" ELSE holds[b].status
    BY CurrentFacts, ColumnFacts DEF Present
<1>3. IssuedIn(Current) = Issued /\ HeldIn(Current) = HeldOnce
    BY <1>1, <1>2, SeenByLedger DEF IssuedIn, HeldIn
<1>4. E \in SUBSET Ledger!Lapsed
    <2>1. ASSUME NEW b \in E
          PROVE  b \in HeldOnce /\ Issued[b].until <= now
        <3>1. b \in Id /\ holds[b] # NoHold /\ holds[b].until # 0 /\ holds[b].until <= now
            BY <2>1 DEF StoreInv, Sound, Present
        <3>2. Issued[b] = Columns(holds[b]) /\ Columns(holds[b]).until = holds[b].until
            BY <3>1 DEF Issued, Columns
        <3> QED
            BY <3>1, <3>2 DEF HeldOnce
    <2> QED
        BY <2>1 DEF Ledger!Lapsed
<1>5. Ledger!Retired(E) = StatusIn(Current)
    <2>1. ASSUME NEW b \in Id
          PROVE  (IF b \in E THEN "EXPIRED" ELSE Status[b]) = StatusIn(Current)[b]
        <3>1. CASE holds[b] = NoHold
            BY <1>1, <3>1 DEF Present, Status, StatusIn
        <3>2. CASE holds[b] # NoHold
            BY <1>1, <1>2, <3>2 DEF Status, StatusIn
        <3> QED
            BY <3>1, <3>2
    <2>2. Ledger!Retired(E) = [b \in Id |-> StatusIn(Current)[b]]
        BY <2>1 DEF Ledger!Retired
    <2> QED
        BY <2>2 DEF StatusIn
<1>6. Ledger!Retired({}) = StatusIn(holds)
    BY SeenByLedger DEF Ledger!Retired, StatusIn
<1> QED
    BY <1>3, <1>4, <1>5, <1>6, SeenByLedger

\* Clashing is a matter of the columns.
LEMMA ClashColumns ==
    ASSUME NEW x, NEW y
    PROVE  Clash(Columns(x), Columns(y)) <=> Clash(x, y)
BY DEF Clash, Columns

\* Adding a booking is the issue of one.
LEMMA IssueSteps ==
    ASSUME StoreInv, NEW b \in Id, NEW h \in HoldRecord, Issues(b, h), UNCHANGED now
    PROVE  Ledger!Next
<1>1. /\ Current \in Store /\ Current[b] = NoHold
      /\ holds' = [Current EXCEPT ![b] = h] /\ h # NoHold
    BY CurrentFacts, RecordAssumption DEF Issues, AddHold, Present
<1>2. PICK E \in SUBSET Ledger!Lapsed : Ledger!Retired(E) = StatusIn(Current)
    BY RetiresLapsedHolds
<1>3. IssuedIn(Current) = Issued /\ HeldIn(Current) = HeldOnce
    BY RetiresLapsedHolds
<1>4. /\ holds'[b] = h /\ \A c \in Id \ {b} : holds'[c] = Current[c]
    BY <1>1 DEF Store
<1>5. Columns(h) \in Row
    BY DEF Columns, Row, HoldRecord
<1>6. Status' = [Ledger!Retired(E) EXCEPT ![b] = h.status]
    BY <1>1, <1>2, <1>4, SeenByLedger DEF StatusIn
<1>7. Issued'[b] = Columns(h) /\ Issued' = [Issued EXCEPT ![b] = Issued'[b]]
    <2>1. Issued' = [c \in Id |-> IF c = b THEN Columns(h) ELSE IssuedIn(Current)[c]]
        BY <1>1, <1>4, SeenByLedger DEF IssuedIn
    <2> QED
        BY <1>3, <2>1 DEF Issued
<1>8. HeldOnce' = IF h.status = "HELD" THEN HeldOnce \cup {b} ELSE HeldOnce
    BY <1>1, <1>3, <1>4, SeenByLedger DEF HeldIn, Issues
<1>9. Status[b] = Absent
    BY DEF Issues, Status
<1>10. Ledger!Free(E, b, Columns(h))
    <2>1. SUFFICES ASSUME NEW c \in Id \ {b}, StatusIn(Current)[c] \in Active
                   PROVE  ~Clash(Columns(h), IssuedIn(Current)[c])
        BY <1>2, <1>3, SameLedger DEF Ledger!Free
    <2>2. Current[c] # NoHold /\ Current[c].status \in Active
        BY <2>1 DEF StatusIn, Absent, Active
    <2>3. IssuedIn(Current)[c] = Columns(Current[c])
        BY <2>1, <2>2 DEF IssuedIn
    <2>4. ~Clash(h, Current[c])
        BY <2>1, <2>2 DEF Issues, Clear, ActiveForSeat, ActiveHolds, Present, Clash, Overlaps
    <2> QED
        BY <2>3, <2>4, ClashColumns
<1>11. h.status \in {"HELD", "CONFIRMED", "STANDING"}
    BY DEF Issues
<1>12. Ledger!Issue(E, b, h.status)
    BY <1>5, <1>6, <1>7, <1>8, <1>9, <1>10, SameLedger DEF Ledger!Issue
<1> QED
    BY <1>11, <1>12 DEF Ledger!Next

\* A change of status is the settlement of one.
LEMMA SettleSteps ==
    ASSUME StoreInv, NEW b \in Id, NEW s \in {Current, holds},
           NEW x \in {"CONFIRMED", "CANCELLED"}, Settles(s, b, x), UNCHANGED now
    PROVE  Ledger!Next
<1>1. s \in Store /\ Sound(s) /\ s[b] \in HoldRecord /\ s[b] # NoHold
    BY CurrentFacts DEF StoreInv, TypeOK, Settles, Present, Store
<1>2. PICK E \in SUBSET Ledger!Lapsed : Ledger!Retired(E) = StatusIn(s)
    BY RetiresLapsedHolds
<1>3. IssuedIn(s) = Issued /\ HeldIn(s) = HeldOnce
    BY RetiresLapsedHolds
<1>4. /\ holds'[b] = [s[b] EXCEPT !.status = x]
      /\ \A c \in Id \ {b} : holds'[c] = s[c]
    BY <1>1 DEF Settles, SetStatus, Store
<1>5. /\ holds'[b] \in HoldRecord /\ holds'[b] # NoHold /\ holds'[b].status = x
      /\ Columns(holds'[b]) = Columns(s[b]) /\ holds'[b].until = s[b].until
    BY <1>1, <1>4, RecordAssumption DEF HoldRecord, BStatus, Columns
<1>6. Status' = [Ledger!Retired(E) EXCEPT ![b] = x]
    <2>1. Status' = [c \in Id |-> IF c = b THEN x ELSE StatusIn(s)[c]]
        BY <1>4, <1>5, SeenByLedger DEF StatusIn
    <2> QED
        BY <1>2, <2>1 DEF StatusIn
<1>7. Issued' = Issued /\ HeldOnce' = HeldOnce
    <2>1. ASSUME NEW c \in Id
          PROVE  /\ holds'[c] = NoHold <=> s[c] = NoHold
                 /\ s[c] # NoHold =>
                        Columns(holds'[c]) = Columns(s[c]) /\ holds'[c].until = s[c].until
        BY <1>1, <1>4, <1>5
    <2>2. IssuedIn(holds') = IssuedIn(s)
        BY <2>1 DEF IssuedIn
    <2>3. HeldIn(holds') = HeldIn(s)
        BY <2>1 DEF HeldIn
    <2> QED
        BY <1>3, <2>2, <2>3, SeenByLedger
<1>8. Status[b] # Absent
    <2>1. holds[b] # NoHold /\ holds[b] \in HoldRecord
        BY <1>1, CurrentFacts DEF Settles, Present, StoreInv, TypeOK, Store
    <2> QED
        BY <2>1 DEF Status, HoldRecord, BStatus, Absent
<1>9. ASSUME x = "CONFIRMED"
      PROVE  b \in HeldOnce /\ Ledger!Free(E, b, Issued[b])
    <2>1. s[b].status = "HELD" /\ b \in Present(s)
        BY <1>9 DEF Settles
    <2>2. b \in HeldOnce
        BY <1>1, <1>3, <2>1 DEF Sound, HeldIn
    <2>3. SUFFICES ASSUME NEW c \in Id \ {b}, StatusIn(s)[c] \in Active
                   PROVE  ~Clash(IssuedIn(s)[b], IssuedIn(s)[c])
        BY <1>2, <1>3, <2>2, SameLedger DEF Ledger!Free
    <2>4. s[c] # NoHold /\ s[c].status \in Active
        BY <2>3 DEF StatusIn, Absent, Active
    <2>5. IssuedIn(s)[b] = Columns(s[b]) /\ IssuedIn(s)[c] = Columns(s[c])
        BY <1>1, <2>3, <2>4 DEF IssuedIn
    <2>6. ~Clash(s[b], s[c])
        BY <1>1, <2>1, <2>3, <2>4 DEF Sound, Apart, Present, Active
    <2> QED
        BY <2>5, <2>6, ClashColumns
<1>10. Ledger!Settle(E, b, x)
    BY <1>6, <1>7, <1>8, <1>9, SameLedger DEF Ledger!Settle
<1> QED
    BY <1>10 DEF Ledger!Next

\* Every use-case over the store is one transaction of the abstract ledger, whatever the
\* timetable, the calls and the caps.
THEOREM UseCasesImplementLedger == Spec => ImplementsLedger
<1>1. Init => Ledger!Init
    BY SameLedger DEF Init, Ledger!Init, Status, Issued, HeldOnce
<1>2. ASSUME StoreInv, [Next]_vars
      PROVE  [Ledger!Next]_(Ledger!vars)
    <2>1. now' = now \/ (Tick /\ now' = now + 1)
        BY <1>2 DEF Next, vars, Seed, Tick, Hold, Sell, Confirm, Cancel, Search, Browse, Verify
    <2>2. CASE holds' = holds
        <3>1. Status' = Status /\ Issued' = Issued /\ HeldOnce' = HeldOnce
            BY <2>2 DEF Status, Issued, HeldOnce
        <3> QED
            BY <2>1, <3>1 DEF Ledger!vars, Ledger!Next, Ledger!Tick
    <2>3. CASE UNCHANGED now /\ holds' = Current
        <3>1. PICK E \in SUBSET Ledger!Lapsed : Ledger!Retired(E) = StatusIn(Current)
            BY <1>2, RetiresLapsedHolds
        <3>2. Ledger!Retire(E)
            BY <1>2, <2>3, <3>1, RetiresLapsedHolds, SeenByLedger DEF Ledger!Retire
        <3> QED
            BY <3>2 DEF Ledger!Next
    <2> QED
        BY <1>2, <2>2, <2>3, StoreSteps, IssueSteps, SettleSteps
<1> QED
    BY <1>1, <1>2, StoreSound, PTL DEF Spec, ImplementsLedger, Ledger!Spec
-----------------------------------------------------------------------------
(* The timetable file and the trains a search lists.                       *)

\* A trip has the days and stops of the pattern of the file it is named for.
LEMMA FilePattern ==
    ASSUME NEW p \in Config.patterns, NEW d
    PROVE  /\ PatternOf(TripIdFor(p.code, d)).days = ParseDays(p.days)
           /\ PatternOf(TripIdFor(p.code, d)).stops = StopsOf(p.stops)
<1> DEFINE made(q) == [code |-> q.code, days |-> ParseDays(q.days), stops |-> StopsOf(q.stops),
                       seats |-> UNION {BuildCoach(c) : c \in q.coaches}]
<1>1. Patterns = {made(q) : q \in Config.patterns}
    BY DEF Patterns
<1>2. \A q : /\ made(q).code = q.code /\ made(q).days = ParseDays(q.days)
             /\ made(q).stops = StopsOf(q.stops)
    OBVIOUS
<1> HIDE DEF made
<1>3. PatternOf(TripIdFor(p.code, d)) = CHOOSE q \in Patterns : q.code = p.code
    BY DEF PatternOf, TripIdFor
<1>4. \E q \in Patterns : q.code = p.code
    BY <1>1, <1>2
<1>5. /\ PatternOf(TripIdFor(p.code, d)) \in Patterns
      /\ PatternOf(TripIdFor(p.code, d)).code = p.code
    BY <1>3, <1>4
<1>6. PICK q \in Config.patterns : PatternOf(TripIdFor(p.code, d)) = made(q)
    BY <1>1, <1>5
<1>7. q = p
    BY <1>2, <1>5, <1>6, CodesAssumption
<1> QED
    BY <1>2, <1>6, <1>7

\* Every trip is named for a pattern of the file.
LEMMA TripNamed ==
    ASSUME NEW t \in Trip
    PROVE  \E p \in Config.patterns : t = TripIdFor(p.code, t.date)
<1>1. PICK q \in Patterns : q.code = t.code
    BY DEF Trip
<1>2. PICK p \in Config.patterns : q.code = p.code
    BY DEF Patterns
<1> QED
    BY <1>1, <1>2 DEF Trip, TripIdFor

\* Station codes and sequence numbers tell the same stations apart.
LEMMA SeqFacts ==
    ASSUME NEW a \in {s.code : s \in Stations}, NEW b \in {s.code : s \in Stations}
    PROVE  SeqOf(a) \in Nat /\ (SeqOf(a) = SeqOf(b) => a = b)
<1> DEFINE s == CHOOSE x \in Stations : x.code = a
           t == CHOOSE x \in Stations : x.code = b
<1>1. s \in Stations /\ s.code = a /\ t \in Stations /\ t.code = b
    OBVIOUS
<1>2. SeqOf(a) = s.seq /\ SeqOf(b) = t.seq
    BY DEF SeqOf
<1> HIDE DEF s, t
<1>3. PICK i \in DOMAIN Config.route : s.seq = i - 1 /\ s.code = Config.route[i].code
    BY <1>1 DEF Stations
<1>4. PICK k \in DOMAIN Config.route : t.seq = k - 1 /\ t.code = Config.route[k].code
    BY <1>1 DEF Stations
<1>5. i \in Nat /\ k \in Nat
    BY <1>3, <1>4, RouteAssumption
<1>6. s.seq \in Nat
    BY <1>1, RouteAssumption
<1>7. s.seq = t.seq => i = k
    BY <1>3, <1>4, <1>5
<1> QED
    BY <1>1, <1>2, <1>3, <1>4, <1>6, <1>7

\* A time of the file is a number of minutes.
LEMMA MinutesType ==
    ASSUME NEW t, t.plus \in Nat, t.h \in 0 .. 23, t.m \in 0 .. 59
    PROVE  ParseHHMM(t) \in Nat
<1> DEFINE a == t.plus
           h == t.h
           m == t.m
<1>1. a \in Nat /\ h \in Nat /\ m \in Nat
    OBVIOUS
<1> HIDE DEF a, h, m
<1>2. a * MinutesPerDay + h * 60 + m \in Nat
    BY <1>1 DEF MinutesPerDay
<1> QED
    BY <1>2 DEF ParseHHMM, a, h, m

\* What the loader has checked of an entry's times.
LEMMA TimeFacts ==
    ASSUME NEW p \in Config.patterns, NEW e \in p.stops, NEW field \in {"arrive", "depart"}
    PROVE  /\ e.station \in {s.code : s \in Stations}
           /\ field \in DOMAIN e <=> TimeAt(e, field) # NoTime
           /\ field \in DOMAIN e =>
                TimeAt(e, field) = ParseHHMM(e[field]) /\ TimeAt(e, field) \in Nat
<1>1. e.station \in {s.code : s \in Stations}
    BY ConfigAssumption DEF Loads
<1>2. ASSUME field \in DOMAIN e
      PROVE  TimeAt(e, field) = ParseHHMM(e[field]) /\ ParseHHMM(e[field]) \in Nat
  <2>1. e[field].plus \in Nat /\ e[field].h \in 0 .. 23 /\ e[field].m \in 0 .. 59
    BY <1>2, ConfigAssumption DEF Loads
  <2>2. ParseHHMM(e[field]) \in Nat
    BY <2>1, MinutesType
  <2> QED
    BY <1>2, <2>2 DEF TimeAt
<1>3. field \notin DOMAIN e => TimeAt(e, field) = NoTime
    BY DEF TimeAt
<1>4. \A n \in Nat : n # NoTime
    BY DEF NoTime
<1> QED
    BY <1>1, <1>2, <1>3, <1>4

\* A stop at a station comes from an entry of the file for that station.
LEMMA StopFacts ==
    ASSUME NEW p \in Config.patterns, NEW x \in StopsOf(p.stops),
           NEW a \in {s.code : s \in Stations}, x.seq = SeqOf(a)
    PROVE  \E e \in p.stops : /\ e.station = a
                              /\ x.arrive = TimeAt(e, "arrive") /\ x.depart = TimeAt(e, "depart")
<1>1. PICK e \in p.stops :
        /\ x.seq = SeqOf(e.station)
        /\ x.arrive = TimeAt(e, "arrive") /\ x.depart = TimeAt(e, "depart")
    BY DEF StopsOf
<1>2. e.station \in {s.code : s \in Stations}
    BY TimeFacts
<1> QED
    BY <1>1, <1>2, SeqFacts

\* serves says of a trip what the file says of its pattern.
LEMMA ServesFile ==
    ASSUME NEW p \in Config.patterns, NEW d, NEW j \in Journeys
    PROVE  Serves(TripIdFor(p.code, d), LegOf(j)) <=>
              /\ \E e \in p.stops : e.station = j.from /\ "depart" \in DOMAIN e
              /\ \E e \in p.stops : e.station = j.to /\ "arrive" \in DOMAIN e
<1> DEFINE t == TripIdFor(p.code, d)
<1>1. /\ LegOf(j).origin = SeqOf(j.from) /\ LegOf(j).dest = SeqOf(j.to)
      /\ j.from \in {s.code : s \in Stations} /\ j.to \in {s.code : s \in Stations}
    BY JourneysAssumption DEF LegOf
<1>2. PatternOf(t).stops = StopsOf(p.stops)
    BY FilePattern
<1> HIDE DEF t
<1>3. ASSUME NEW x \in StopAt(t, SeqOf(j.from)), x.depart # NoTime
      PROVE  \E e \in p.stops : e.station = j.from /\ "depart" \in DOMAIN e
  <2>1. x \in StopsOf(p.stops) /\ x.seq = SeqOf(j.from)
    BY <1>2 DEF StopAt
  <2>2. PICK e \in p.stops : e.station = j.from /\ x.depart = TimeAt(e, "depart")
    BY <1>1, <2>1, StopFacts
  <2> QED
    BY <1>3, <2>2, TimeFacts
<1>4. ASSUME NEW x \in StopAt(t, SeqOf(j.to)), x.arrive # NoTime
      PROVE  \E e \in p.stops : e.station = j.to /\ "arrive" \in DOMAIN e
  <2>1. x \in StopsOf(p.stops) /\ x.seq = SeqOf(j.to)
    BY <1>2 DEF StopAt
  <2>2. PICK e \in p.stops : e.station = j.to /\ x.arrive = TimeAt(e, "arrive")
    BY <1>1, <2>1, StopFacts
  <2> QED
    BY <1>4, <2>2, TimeFacts
<1>5. ASSUME NEW e \in p.stops
      PROVE  \E x \in StopAt(t, SeqOf(e.station)) :
                x.arrive = TimeAt(e, "arrive") /\ x.depart = TimeAt(e, "depart")
  <2> DEFINE x == [seq |-> SeqOf(e.station), arrive |-> TimeAt(e, "arrive"),
                   depart |-> TimeAt(e, "depart")]
  <2>1. x \in StopsOf(p.stops)
    BY DEF StopsOf
  <2> QED
    BY <1>2, <2>1 DEF StopAt
<1>6. ASSUME NEW e \in p.stops, NEW f \in p.stops, e.station = j.from, "depart" \in DOMAIN e,
             f.station = j.to, "arrive" \in DOMAIN f
      PROVE  Serves(t, LegOf(j))
  <2>1. PICK x \in StopAt(t, SeqOf(j.from)) : x.depart = TimeAt(e, "depart")
    BY <1>5, <1>6
  <2>2. PICK y \in StopAt(t, SeqOf(j.to)) : y.arrive = TimeAt(f, "arrive")
    BY <1>5, <1>6
  <2>3. x.depart # NoTime /\ y.arrive # NoTime
    BY <1>6, <2>1, <2>2, TimeFacts
  <2> QED
    BY <1>1, <2>1, <2>2, <2>3 DEF Serves
<1> QED
    BY <1>1, <1>3, <1>4, <1>6 DEF Serves, t

\* Minutes on the clock face.
LEMMA ClockFace ==
    ASSUME NEW a \in Nat, NEW b \in Nat
    PROVE  (FormatHHMM(a) + (b - a)) % MinutesPerDay = FormatHHMM(b)
BY DEF FormatHHMM, MinutesPerDay

\* If trains run forwards, so do the times shown.
LEMMA TimesForward ==
    ASSUME RunsForward, NEW p \in Config.patterns, NEW d, NEW j \in Journeys,
           IsLeg(LegOf(j)), Serves(TripIdFor(p.code, d), LegOf(j))
    PROVE  LET times == LegTimes(TripIdFor(p.code, d), LegOf(j))
           IN  /\ times.duration > 0
               /\ (times.depart + times.duration) % MinutesPerDay = times.arrive
<1> DEFINE t == TripIdFor(p.code, d)
           o == CHOOSE s \in StopAt(t, LegOf(j).origin) : TRUE
           a == CHOOSE s \in StopAt(t, LegOf(j).dest) : TRUE
<1>1. /\ LegOf(j).origin = SeqOf(j.from) /\ LegOf(j).dest = SeqOf(j.to)
      /\ j.from \in {s.code : s \in Stations} /\ j.to \in {s.code : s \in Stations}
    BY JourneysAssumption DEF LegOf
<1>2. o \in StopAt(t, LegOf(j).origin) /\ a \in StopAt(t, LegOf(j).dest)
    BY DEF Serves
<1>3. LegTimes(t, LegOf(j)) = [depart |-> FormatHHMM(o.depart), arrive |-> FormatHHMM(a.arrive),
                               duration |-> a.arrive - o.depart]
    BY DEF LegTimes
<1> HIDE DEF o, a
<1>4. PICK e \in p.stops : e.station = j.from /\ o.depart = TimeAt(e, "depart")
  <2>1. o \in StopsOf(p.stops) /\ o.seq = SeqOf(j.from)
    BY <1>1, <1>2, FilePattern DEF StopAt
  <2> QED
    BY <1>1, <2>1, StopFacts
<1>5. PICK f \in p.stops : f.station = j.to /\ a.arrive = TimeAt(f, "arrive")
  <2>1. a \in StopsOf(p.stops) /\ a.seq = SeqOf(j.to)
    BY <1>1, <1>2, FilePattern DEF StopAt
  <2> QED
    BY <1>1, <2>1, StopFacts
<1>6. "depart" \in DOMAIN e /\ "arrive" \in DOMAIN f
  <2>1. PICK g \in p.stops : g.station = j.from /\ "depart" \in DOMAIN g
    BY ServesFile
  <2>2. PICK h \in p.stops : h.station = j.to /\ "arrive" \in DOMAIN h
    BY ServesFile
  <2> QED
    BY <1>4, <1>5, <2>1, <2>2 DEF RunsForward
<1>7. SeqOf(j.from) < SeqOf(j.to)
    BY <1>1, SeqFacts DEF IsLeg
<1>8. /\ o.depart = ParseHHMM(e.depart) /\ o.depart \in Nat
      /\ a.arrive = ParseHHMM(f.arrive) /\ a.arrive \in Nat
    BY <1>4, <1>5, <1>6, TimeFacts
<1>9. o.depart < a.arrive
    BY <1>4, <1>5, <1>6, <1>7, <1>8 DEF RunsForward
<1> HIDE DEF t
<1>10. (FormatHHMM(o.depart) + (a.arrive - o.depart)) % MinutesPerDay = FormatHHMM(a.arrive)
    BY <1>8, ClockFace
<1>11. a.arrive - o.depart > 0
    BY <1>8, <1>9
<1> QED
    BY <1>3, <1>10, <1>11 DEF t

\* Days do not go backwards.
LEMMA DateMonotone ==
    ASSUME NEW t \in Nat
    PROVE  DateAt(t) <= DateAt(t + 1)
<1> DEFINE a == Start + t * TickSeconds + 60 * UtcOffset
           b == Start + (t + 1) * TickSeconds + 60 * UtcOffset
<1>1. /\ TickSeconds \in Nat /\ Start \in Nat /\ UtcOffset \in Int
      /\ t * TickSeconds \in Nat /\ (t + 1) * TickSeconds = t * TickSeconds + TickSeconds
    BY ClockAssumption
<1>2. a \in Int /\ b \in Int /\ a <= b
    BY <1>1
<1>3. DateAt(t) = a \div SecondsPerDay /\ DateAt(t + 1) = b \div SecondsPerDay
    BY DEF DateAt, DateFromEpoch
<1> HIDE DEF a, b
<1>4. SecondsPerDay \in Nat \ {0}
    BY DEF SecondsPerDay
<1> QED
    BY <1>2, <1>3, <1>4, QuotientMonotone

\* trips_for_window makes trips that run on their date.
LEMMA SeededRun ==
    ASSUME NEW start \in Nat, NEW t \in TripsForWindow(start, BookingWindow)
    PROVE  RunsOn(PatternOf(t).days, t.date)
<1>1. PICK q \in Patterns : \E date \in ServiceDates(q.days, start, BookingWindow) :
                              t = TripIdFor(q.code, date)
    BY DEF TripsForWindow
<1>2. PICK date \in ServiceDates(q.days, start, BookingWindow) : t = TripIdFor(q.code, date)
    BY <1>1
<1>3. PICK p \in Config.patterns : q.code = p.code /\ q.days = ParseDays(p.days)
    BY DEF Patterns
<1>4. t.date = date /\ RunsOn(q.days, date)
    BY <1>2 DEF ServiceDates, TripIdFor
<1> QED
    BY <1>2, <1>3, <1>4, FilePattern

\* Seeding again, the passing of days, and requests leave the store seeded.
LEMMA StaysSeeded ==
    ASSUME StoreInv, SeededInv, [Next]_vars
    PROVE  SeededInv'
<1>1. now \in Nat /\ trips \subseteq Trip /\ seeded \in Nat
    BY DEF StoreInv, TypeOK
<1>2. CASE Seed
  <2>1. /\ seeded' = DateAt(now) /\ now' = now /\ DateAt(now) \in Nat
        /\ trips' = trips \cup TripsForWindow(DateAt(now), BookingWindow)
    BY <1>1, <1>2, DateType DEF Seed
  <2>2. seeded' <= DateAt(now')
    BY <2>1
  <2>3. TripsForWindow(seeded', BookingWindow) \subseteq trips'
    BY <2>1
  <2>4. \A t \in trips' : RunsOn(PatternOf(t).days, t.date)
    BY <2>1, SeededRun DEF SeededInv
  <2> QED
    BY <2>2, <2>3, <2>4 DEF SeededInv, TripsForWindow, DateAt
<1>3. CASE Tick
  <2>1. now' = now + 1 /\ trips' = trips /\ seeded' = seeded
    BY <1>3 DEF Tick
  <2>2. DateAt(now) \in Nat /\ DateAt(now + 1) \in Nat /\ DateAt(now) <= DateAt(now + 1)
    BY <1>1, DateType, DateMonotone
  <2>3. seeded' <= DateAt(now')
    BY <1>1, <2>1, <2>2 DEF SeededInv
  <2> QED
    BY <2>1, <2>3 DEF SeededInv
<1>4. CASE UNCHANGED <<now, trips, seeded>>
    BY <1>4 DEF SeededInv
<1> QED
    BY <1>2, <1>3, <1>4 DEF Next, vars, Hold, Sell, Confirm, Cancel, Search, Browse, Verify

\* And the store starts so.
THEOREM StoreSeeded == Spec => []IInv
<1>1. Init => SeededInv
  <2> SUFFICES ASSUME Init PROVE SeededInv
    OBVIOUS
  <2>1. /\ seeded = DateAt(now) /\ DateAt(now) \in Nat
        /\ trips = TripsForWindow(seeded, BookingWindow)
    BY DateType DEF Init
  <2> QED
    BY <2>1, SeededRun DEF SeededInv
<1>2. StoreInv /\ SeededInv /\ [Next]_vars => SeededInv'
    BY StaysSeeded
<1>3. StoreInv /\ SeededInv <=> IInv
    BY DEF IInv
<1> QED
    BY <1>1, <1>2, <1>3, StoreSound, PTL DEF Spec

\* The weekday of a date is one of the codes of the file.
LEMMA RunsOnFile ==
    ASSUME NEW p \in Config.patterns, NEW date \in Nat
    PROVE  RunsOn(ParseDays(p.days), date) <=> DayCodes[Weekday(date) + 1] \in p.days
<1>1. Weekday(date) \in 0 .. 6
    BY DEF Weekday
<1> QED
    BY <1>1 DEF RunsOn, ParseDays

\* For any timetable file whose trains run forwards: on a date that has been seeded, a
\* search lists the trains of the file and no other.
THEOREM SearchListsTheFile == ASSUME RunsForward PROVE Spec => []EveryServiceOffered
<1>1. ASSUME IInv, NEW j \in Journeys, Searchable(j), j.date < seeded + BookingWindow
      PROVE  LET options == TrainOptions(j)
             IN  /\ {o.trip : o \in options} = {TripIdFor(p.code, j.date) : p \in Scheduled(j)}
                 /\ \A o \in options :
                     /\ o.times.duration > 0
                     /\ (o.times.depart + o.times.duration) % MinutesPerDay = o.times.arrive
  <2>1. /\ now \in Nat /\ trips \subseteq Trip /\ seeded \in Nat /\ BookingWindow \in Nat
        /\ j.date \in Nat /\ DateAt(now) \in Nat
    BY <1>1, DateType, ClockAssumption, JourneysAssumption DEF IInv, StoreInv, TypeOK
  <2>2. seeded <= j.date
    BY <1>1, <2>1 DEF IInv, SeededInv, Searchable, WithinWindow
  <2>3. IsLeg(LegOf(j)) <=> SeqOf(j.from) < SeqOf(j.to)
    BY SeqFacts, JourneysAssumption DEF IsLeg, LegOf
  <2>4. ASSUME NEW t \in FindByDate(j.date), IsLeg(LegOf(j)), Serves(t, LegOf(j))
        PROVE  /\ \E p \in Scheduled(j) : t = TripIdFor(p.code, j.date)
               /\ LegTimes(t, LegOf(j)).duration > 0
               /\ (LegTimes(t, LegOf(j)).depart + LegTimes(t, LegOf(j)).duration)
                    % MinutesPerDay = LegTimes(t, LegOf(j)).arrive
    <3>1. t \in trips /\ t \in Trip /\ t.date = j.date
      BY <2>1 DEF FindByDate
    <3>2. PICK p \in Config.patterns : t = TripIdFor(p.code, j.date)
      BY <3>1, TripNamed
    <3>3. RunsOn(PatternOf(t).days, j.date)
      BY <1>1, <3>1 DEF IInv, SeededInv
    <3>4. DayCodes[Weekday(j.date) + 1] \in p.days
      BY <2>1, <3>2, <3>3, FilePattern, RunsOnFile
    <3>5. p \in Scheduled(j)
      BY <2>3, <2>4, <3>2, <3>4, ServesFile DEF Scheduled
    <3> QED
      BY <2>4, <3>2, <3>5, TimesForward
  <2>5. ASSUME NEW p \in Scheduled(j)
        PROVE  LET t == TripIdFor(p.code, j.date)
               IN  t \in FindByDate(j.date) /\ IsLeg(LegOf(j)) /\ Serves(t, LegOf(j))
    <3>1. /\ p \in Config.patterns /\ DayCodes[Weekday(j.date) + 1] \in p.days
          /\ IsLeg(LegOf(j)) /\ Serves(TripIdFor(p.code, j.date), LegOf(j))
      BY <2>3, ServesFile DEF Scheduled
    <3>2. j.date \in ServiceDates(ParseDays(p.days), seeded, BookingWindow)
      <4>1. j.date - seeded \in 0 .. BookingWindow - 1
        BY <1>1, <2>1, <2>2
      <4>2. j.date = seeded + (j.date - seeded)
        BY <2>1
      <4>3. j.date \in {seeded + k : k \in 0 .. BookingWindow - 1}
        BY <4>1, <4>2
      <4> QED
        BY <2>1, <3>1, <4>3, RunsOnFile DEF ServiceDates
    <3>3. \E q \in Patterns : q.code = p.code /\ q.days = ParseDays(p.days)
      <4> DEFINE q == [code |-> p.code, days |-> ParseDays(p.days), stops |-> StopsOf(p.stops),
                       seats |-> UNION {BuildCoach(c) : c \in p.coaches}]
      <4>1. q \in Patterns
        BY <3>1 DEF Patterns
      <4>2. q.code = p.code /\ q.days = ParseDays(p.days)
        OBVIOUS
      <4> HIDE DEF q
      <4> QED
        BY <4>1, <4>2
    <3>4. TripIdFor(p.code, j.date) \in TripsForWindow(seeded, BookingWindow)
      BY <3>2, <3>3 DEF TripsForWindow
    <3>5. TripIdFor(p.code, j.date) \in trips
      BY <1>1, <3>4 DEF IInv, SeededInv
    <3> QED
      BY <3>1, <3>5 DEF FindByDate, TripIdFor
  <2> DEFINE found == {u \in FindByDate(j.date) : IsLeg(LegOf(j)) /\ Serves(u, LegOf(j))}
  <2>6. TrainOptions(j) = {Option(t, LegOf(j)) : t \in found}
    BY DEF TrainOptions
  <2>7. \A t : Option(t, LegOf(j)).trip = t
               /\ Option(t, LegOf(j)).times = LegTimes(t, LegOf(j))
    BY DEF Option
  <2>8. {o.trip : o \in TrainOptions(j)} = found
    <3> HIDE DEF found
    <3> QED
      BY <2>6, <2>7
  <2>9. found = {TripIdFor(p.code, j.date) : p \in Scheduled(j)}
    BY <2>4, <2>5
  <2>10. \A o \in TrainOptions(j) :
            /\ o.times.duration > 0
            /\ (o.times.depart + o.times.duration) % MinutesPerDay = o.times.arrive
    BY <2>4, <2>6, <2>7
  <2> HIDE DEF found
  <2> QED
    BY <2>8, <2>9, <2>10
<1>2. IInv => EveryServiceOffered
    BY <1>1 DEF EveryServiceOffered
<1> QED
    BY <1>2, StoreSeeded, PTL

-----------------------------------------------------------------------------
(* The impact report.                                                      *)

\* How far along the line a station is.
Km(p) == (CHOOSE s \in Stations : s.seq = p).km

LastSeq == Len(Config.route) - 1

\* The stations are numbered from one end of the line to the other.
LEMMA StationAt ==
    ASSUME NEW p \in 0 .. LastSeq
    PROVE  \E s \in Stations : s.seq = p /\ s.km = Km(p)
<1>1. Len(Config.route) \in Nat /\ p + 1 \in DOMAIN Config.route /\ (p + 1) - 1 = p
    BY RouteAssumption DEF LastSeq
<1> DEFINE r == [code |-> Config.route[p + 1].code, seq |-> (p + 1) - 1,
                 km |-> Config.route[p + 1].km]
<1>2. r \in Stations
    BY <1>1 DEF Stations
<1>3. r.seq = p
    BY <1>1
<1> HIDE DEF r
<1> QED
    BY <1>2, <1>3 DEF Km

\* And have no other numbers.
LEMMA StationSeq ==
    ASSUME NEW s \in Stations
    PROVE  s.seq \in 0 .. LastSeq
<1>1. PICK i \in DOMAIN Config.route : s.seq = i - 1
    BY DEF Stations
<1> QED
    BY <1>1, RouteAssumption DEF LastSeq

\* Kilometres grow along the line, whose length is from one end to the other.
LEMMA RouteFacts ==
    ASSUME Len(Config.route) > 0
    PROVE  /\ LastSeq \in Nat
           /\ \A p \in 0 .. LastSeq : Km(p) \in Nat
           /\ \A p, q \in 0 .. LastSeq : p <= q => Km(p) <= Km(q)
           /\ RouteKm = Km(LastSeq) - Km(0)
           /\ \A l \in Leg : /\ l.origin \in 0 .. LastSeq /\ l.dest \in 0 .. LastSeq
                             /\ l.origin < l.dest
                             /\ DistanceKm(l) = Km(l.dest) - Km(l.origin)
<1>1. LastSeq \in Nat /\ 0 \in 0 .. LastSeq /\ LastSeq \in 0 .. LastSeq
    BY RouteAssumption DEF LastSeq
<1>2. \A p \in 0 .. LastSeq : Km(p) \in Nat
    BY StationAt, RouteAssumption
<1>3. ASSUME NEW p \in 0 .. LastSeq, NEW q \in 0 .. LastSeq, p <= q
      PROVE  Km(p) <= Km(q)
  <2>1. PICK s \in Stations : s.seq = p /\ s.km = Km(p)
    BY StationAt
  <2>2. PICK r \in Stations : r.seq = q /\ r.km = Km(q)
    BY StationAt
  <2> QED
    BY <1>3, <2>1, <2>2, RouteAssumption
<1>4. RouteKm = Km(LastSeq) - Km(0)
  <2> DEFINE K == {s.km : s \in Stations}
  <2>1. Km(0) \in K /\ Km(LastSeq) \in K
    BY <1>1, StationAt
  <2>2. ASSUME NEW k \in K PROVE k \in Nat /\ Km(0) <= k /\ k <= Km(LastSeq)
    <3>1. PICK s \in Stations : k = s.km
      OBVIOUS
    <3>2. PICK r \in Stations : r.seq = 0 /\ r.km = Km(0)
      BY <1>1, StationAt
    <3>3. PICK q \in Stations : q.seq = LastSeq /\ q.km = Km(LastSeq)
      BY <1>1, StationAt
    <3>4. s.seq \in Nat /\ s.seq <= LastSeq
      BY <1>1, StationSeq
    <3>5. r.seq <= s.seq /\ s.seq <= q.seq
      BY <3>2, <3>3, <3>4
    <3> QED
      BY <3>1, <3>2, <3>3, <3>5, RouteAssumption
  <2> HIDE DEF K
  <2>3. Sets!Max(K) = Km(LastSeq)
    <3>1. Sets!Max(K) \in K /\ \A k \in K : Sets!Max(K) >= k
      <4>1. \E m \in K : \A k \in K : m >= k
        BY <1>1, <1>2, <2>1, <2>2
      <4> QED
        BY <4>1 DEF Sets!Max
    <3> QED
      BY <1>1, <1>2, <2>1, <2>2, <3>1
  <2>4. Sets!Min(K) = Km(0)
    <3>1. Sets!Min(K) \in K /\ \A k \in K : Sets!Min(K) =< k
      <4>1. \E m \in K : \A k \in K : m =< k
        BY <2>1, <2>2
      <4> QED
        BY <4>1 DEF Sets!Min
    <3> QED
      BY <1>1, <1>2, <2>1, <2>2, <3>1
  <2> QED
    BY <2>3, <2>4 DEF RouteKm, K
<1>5. ASSUME NEW l \in Leg
      PROVE  /\ l.origin \in 0 .. LastSeq /\ l.dest \in 0 .. LastSeq /\ l.origin < l.dest
             /\ DistanceKm(l) = Km(l.dest) - Km(l.origin)
    BY LegEnds, StationSeq DEF DistanceKm, Km
<1> QED
    BY <1>1, <1>2, <1>3, <1>4, <1>5

\* How far a passenger on leg l has come when the train is at station p.
Travelled(l, p) ==
    IF p <= l.origin THEN 0
    ELSE IF p <= l.dest THEN Km(p) - Km(l.origin) ELSE Km(l.dest) - Km(l.origin)

\* From one station to the next, those on the train come that much further.
LEMMA TravelledStep ==
    ASSUME Len(Config.route) > 0, NEW l \in Leg, NEW p \in 0 .. LastSeq - 1
    PROVE  /\ Travelled(l, p) \in Int
           /\ Travelled(l, p + 1)
                = Travelled(l, p) + (IF Contains(l, p) THEN Km(p + 1) - Km(p) ELSE 0)
<1>1. /\ LastSeq \in Nat /\ p \in 0 .. LastSeq /\ p + 1 \in 0 .. LastSeq
      /\ l.origin \in Nat /\ l.dest \in Nat /\ l.origin < l.dest
    BY RouteFacts
<1>2. /\ Km(p) \in Nat /\ Km(p + 1) \in Nat /\ Km(l.origin) \in Nat /\ Km(l.dest) \in Nat
    BY <1>1, RouteFacts
<1>3. CASE p < l.origin
    BY <1>1, <1>2, <1>3 DEF Travelled, Contains
<1>4. CASE l.origin <= p /\ p < l.dest
  <2>1. Contains(l, p) /\ p + 1 <= l.dest /\ ~ p + 1 <= l.origin
    BY <1>1, <1>4 DEF Contains
  <2>2. CASE p = l.origin
    BY <1>1, <1>2, <2>1, <2>2 DEF Travelled
  <2>3. CASE p # l.origin
    <3>1. ~ p <= l.origin /\ p <= l.dest
      BY <1>1, <1>4, <2>3
    <3>2. Travelled(l, p) = Km(p) - Km(l.origin)
      BY <3>1 DEF Travelled
    <3>3. Travelled(l, p + 1) = Km(p + 1) - Km(l.origin)
      BY <2>1 DEF Travelled
    <3> QED
      BY <1>2, <2>1, <3>2, <3>3
  <2> QED
    BY <2>2, <2>3
<1>5. CASE l.dest <= p
  <2>1. ~Contains(l, p) /\ ~ p <= l.origin /\ ~ p + 1 <= l.origin /\ ~ p + 1 <= l.dest
    BY <1>1, <1>5 DEF Contains
  <2>2. Travelled(l, p) = Km(l.dest) - Km(l.origin)
    <3>1. p <= l.dest => p = l.dest
      BY <1>1, <1>5
    <3> QED
      BY <2>1, <3>1 DEF Travelled
  <2>3. Travelled(l, p + 1) = Km(l.dest) - Km(l.origin)
    BY <2>1 DEF Travelled
  <2> QED
    BY <1>2, <2>1, <2>2, <2>3
<1> QED
    BY <1>1, <1>3, <1>4, <1>5

\* The active bookings of a trip are legs over the route.
LEMMA ActiveLegFacts ==
    ASSUME StoreInv, NEW t \in trips
    PROVE  /\ DOMAIN ActiveLegs(t) = ActiveHolds(holds, t)
           /\ IsFiniteSet(ActiveHolds(holds, t))
           /\ \A b \in ActiveHolds(holds, t) :
                ActiveLegs(t)[b] = holds[b].leg /\ holds[b].leg \in Leg
           /\ AreLegs(ActiveLegs(t))
<1>1. ActiveHolds(holds, t) \in SUBSET Id
    BY DEF ActiveHolds, Present
<1>2. IsFiniteSet(ActiveHolds(holds, t))
    BY <1>1, IdAssumption, FS_Subset
<1>3. \A b \in ActiveHolds(holds, t) : holds[b].leg \in Leg
    BY DEF ActiveHolds, Present, StoreInv, TypeOK, Store, HoldRecord
<1>4. \A l \in Leg : l \in [origin : Nat, dest : Nat] /\ l.origin < l.dest
  <2>1. \A s \in Stations : s.seq \in Nat
    BY RouteAssumption
  <2> QED
    BY <2>1 DEF Leg, LegsOver, IsLeg
<1> QED
    BY <1>2, <1>3, <1>4 DEF ActiveLegs, AreLegs

\* min_seats: where most passengers are on the train at once, everyone of them has a seat
\* of their own.
LEMMA UsedSeatsExist ==
    ASSUME StoreInv, NEW t \in trips
    PROVE  MinSeats(ActiveLegs(t))
                <= Cardinality({holds[b].seat : b \in DOMAIN ActiveLegs(t)})
<1> DEFINE legs == ActiveLegs(t)
           A == ActiveHolds(holds, t)
           had == {holds[b].seat : b \in A}
<1>1. /\ DOMAIN legs = A /\ IsFiniteSet(A) /\ AreLegs(legs)
      /\ \A b \in A : legs[b] = holds[b].leg
    BY ActiveLegFacts
<1>2. IsFiniteSet(had) /\ Cardinality(had) \in Nat
  <2> DEFINE f == [b \in A |-> holds[b].seat]
  <2>1. f \in Surjection(A, had)
    BY DEF Surjection
  <2> HIDE DEF A, f, had
  <2> QED
    BY <1>1, <2>1, FS_Surjection, FS_CardinalityType
<1>3. ASSUME NEW p \in Nat PROVE Depth(legs, p) <= Cardinality(had)
  <2> DEFINE At == {b \in A : Contains(legs[b], p)}
             w == [b \in At |-> holds[b].seat]
  <2>1. ASSUME NEW b \in At, NEW c \in At, w[b] = w[c] PROVE b = c
    <3>1. /\ b \in Present(holds) /\ c \in Present(holds)
          /\ holds[b].trip = t /\ holds[c].trip = t
          /\ holds[b].status \in Active /\ holds[c].status \in Active
          /\ holds[b].seat = holds[c].seat
      BY <2>1 DEF ActiveHolds
    <3>2. holds[b].seat # NoSeat
      BY <3>1 DEF StoreInv, Sound
    <3>3. Overlaps(holds[b].leg, holds[c].leg)
      <4>1. /\ legs[b].origin \in Nat /\ legs[b].dest \in Nat
            /\ legs[c].origin \in Nat /\ legs[c].dest \in Nat
            /\ Contains(legs[b], p) /\ Contains(legs[c], p)
        BY <1>1 DEF AreLegs
      <4>2. legs[b] = holds[b].leg /\ legs[c] = holds[c].leg
        BY <1>1
      <4> HIDE DEF legs
      <4> QED
        BY <4>1, <4>2 DEF Contains, Overlaps
    <3> QED
      BY <3>1, <3>2, <3>3 DEF StoreInv, Sound, Apart, Clash
  <2>2. w \in Injection(At, had)
    <3>1. w \in [At -> had]
      OBVIOUS
    <3> HIDE DEF w, At, had
    <3> QED
      BY <2>1, <3>1 DEF Injection, IsInjective
  <2>3. Depth(legs, p) = Cardinality(At)
    <3> HIDE DEF legs, A
    <3> QED
      BY <1>1 DEF Depth
  <2> HIDE DEF w, At, had
  <2> QED
    BY <1>2, <2>2, <2>3, FS_Injection
<1> HIDE DEF legs, had
<1>4. MinSeats(legs) <= Cardinality(had)
  <2>1. CASE MinSeats(legs) = 0
    BY <1>2, <2>1
  <2>2. CASE \E k \in DOMAIN legs :
                \/ MinSeats(legs) = Depth(legs, legs[k].origin)
                \/ MinSeats(legs) = Depth(legs, legs[k].dest)
    BY <1>1, <1>3, <2>2 DEF AreLegs
  <2> QED
    BY <1>1, <2>1, <2>2, PeakIsDepth
<1> QED
    BY <1>1, <1>4 DEF legs, had

\* A stretch more of the line, with no more passengers than that.
LEMMA OneMoreStretch ==
    ASSUME NEW u \in Nat, NEW a \in Nat, NEW d \in Nat, NEW n \in Nat, n <= u,
           NEW x \in Int, x <= u * a
    PROVE  x + d * n <= u * (a + d)
<1>1. d * n <= d * u /\ d * n \in Nat
    BY ProductMonotone
<1>2. u * (a + d) = u * a + d * u /\ u * a \in Nat /\ d * u \in Nat
    OBVIOUS
<1> QED
    BY <1>1, <1>2

\* min_seats seats cannot have carried passengers further than the train went.
LEMMA CarriedSoFar ==
    ASSUME Len(Config.route) > 0, StoreInv, NEW t \in trips, NEW p \in 0 .. LastSeq
    PROVE  LET A == ActiveHolds(holds, t)
           IN  SumOver([b \in A |-> Travelled(holds[b].leg, p)], A)
                    <= MinSeats(ActiveLegs(t)) * (Km(p) - Km(0))
<1> DEFINE legs == ActiveLegs(t)
           A == ActiveHolds(holds, t)
           used == MinSeats(legs)
           f(q) == [b \in A |-> Travelled(holds[b].leg, q)]
           Within(q) == SumOver(f(q), A) <= used * (Km(q) - Km(0))
           Bad == {q \in 0 .. LastSeq : ~Within(q)}
<1>1. /\ DOMAIN legs = A /\ IsFiniteSet(A) /\ AreLegs(legs)
      /\ \A b \in A : legs[b] = holds[b].leg /\ holds[b].leg \in Leg
    BY ActiveLegFacts
<1>2. LastSeq \in Nat /\ 0 \in 0 .. LastSeq
    BY RouteFacts
<1>3. used \in Nat /\ \A q \in Nat : Depth(legs, q) <= used
    BY <1>1, PeakIsDepth
<1>4. Within(0)
  <2>1. {} \subseteq A /\ \A b \in A : f(0)[b] = IF b \in {} THEN 0 ELSE 0
    <3>1. \A b \in A : holds[b].leg.origin \in Nat
      BY <1>1, LegEnds
    <3> QED
      BY <3>1 DEF Travelled
  <2>2. SumOver(f(0), A) = 0 * Cardinality({})
    <3> HIDE DEF f, A
    <3> QED
      BY <1>1, <2>1, SumCount
  <2>3. Cardinality({}) = 0 /\ Km(0) \in Nat
    BY <1>2, FS_EmptySet, RouteFacts
  <2>4. used * (Km(0) - Km(0)) = 0
    BY <1>3, <2>3
  <2> HIDE DEF f, used
  <2> QED
    BY <2>2, <2>3, <2>4
<1>5. ASSUME NEW q \in 0 .. LastSeq - 1, Within(q) PROVE Within(q + 1)
  <2> DEFINE At == {b \in A : Contains(legs[b], q)}
             d == Km(q + 1) - Km(q)
             g == [b \in A |-> IF b \in At THEN d ELSE 0]
             a == Km(q) - Km(0)
  <2>1. d \in Nat /\ a \in Nat /\ Km(q + 1) - Km(0) = a + d
    <3>1. q \in 0 .. LastSeq /\ q + 1 \in 0 .. LastSeq /\ 0 <= q /\ q <= q + 1
      BY <1>2
    <3>2. Km(0) \in Nat /\ Km(q) \in Nat /\ Km(q + 1) \in Nat
      BY <1>2, <3>1, RouteFacts
    <3>3. Km(0) <= Km(q) /\ Km(q) <= Km(q + 1)
      BY <1>2, <3>1, RouteFacts
    <3> QED
      BY <3>2, <3>3
  <2>2. \A b \in A : /\ f(q)[b] \in Int /\ g[b] \in Int
                     /\ f(q + 1)[b] = f(q)[b] + g[b]
    <3> SUFFICES ASSUME NEW b \in A
                 PROVE  f(q)[b] \in Int /\ g[b] \in Int /\ f(q + 1)[b] = f(q)[b] + g[b]
      OBVIOUS
    <3>1. holds[b].leg \in Leg /\ legs[b] = holds[b].leg
      BY <1>1
    <3>2. /\ Travelled(holds[b].leg, q) \in Int
          /\ Travelled(holds[b].leg, q + 1) = Travelled(holds[b].leg, q)
                + (IF Contains(holds[b].leg, q) THEN Km(q + 1) - Km(q) ELSE 0)
      BY <3>1, TravelledStep
    <3>3. g[b] = IF Contains(holds[b].leg, q) THEN d ELSE 0
      BY <3>1
    <3>4. f(q)[b] = Travelled(holds[b].leg, q) /\ f(q + 1)[b] = Travelled(holds[b].leg, q + 1)
      OBVIOUS
    <3> HIDE DEF f, g, A, legs
    <3> QED
      BY <2>1, <3>2, <3>3, <3>4
  <2>3. SumOver(f(q + 1), A) = SumOver(f(q), A) + SumOver(g, A)
    <3> DEFINE now0 == f(q)
               next0 == f(q + 1)
    <3>1. \A b \in A : now0[b] \in Int /\ g[b] \in Int /\ next0[b] = now0[b] + g[b]
      BY <2>2
    <3> HIDE DEF g, A, now0, next0
    <3>2. SumOver(next0, A) = SumOver(now0, A) + SumOver(g, A)
      BY <1>1, <3>1, SumPlus
    <3> QED
      BY <3>2 DEF now0, next0
  <2>4. SumOver(g, A) = d * Cardinality(At)
    <3>1. At \subseteq A /\ \A b \in A : g[b] = IF b \in At THEN d ELSE 0
      OBVIOUS
    <3>2. d \in Int
      BY <2>1
    <3> HIDE DEF g, A, At, d
    <3> QED
      BY <1>1, <3>1, <3>2, SumCount
  <2>5. Cardinality(At) \in Nat /\ Cardinality(At) <= used
    <3>1. At \in SUBSET A
      OBVIOUS
    <3>2. Depth(legs, q) = Cardinality(At)
      <4> HIDE DEF legs, A
      <4> QED
        BY <1>1 DEF Depth
    <3>3. IsFiniteSet(At)
      <4> HIDE DEF At, A
      <4> QED
        BY <1>1, <3>1, FS_Subset
    <3>4. q \in Nat
      BY <1>2
    <3> HIDE DEF At, A, used, legs
    <3> QED
      BY <1>3, <3>2, <3>3, <3>4, FS_CardinalityType
  <2>6. SumOver(f(q), A) \in Int
    <3> DEFINE now0 == f(q)
    <3>1. \A b \in A : now0[b] \in Int
      BY <2>2
    <3> HIDE DEF A, now0
    <3>2. SumOver(now0, A) \in Int
      BY <1>1, <3>1, SumType
    <3> QED
      BY <3>2 DEF now0
  <2>7. SumOver(f(q), A) <= used * a
    BY <1>5
  <2> HIDE DEF a, d, At, g, f, used, A
  <2>8. SumOver(f(q), A) + d * Cardinality(At) <= used * (a + d)
    BY <1>3, <2>1, <2>5, <2>6, <2>7, OneMoreStretch
  <2> QED
    BY <2>1, <2>3, <2>4, <2>8
<1>6. Bad = {}
  <2> SUFFICES ASSUME Bad # {} PROVE FALSE
    OBVIOUS
  <2>1. Bad \subseteq Nat
    BY <1>2
  <2>2. PICK m \in Bad : \A n \in Bad : m <= n
    <3> HIDE DEF Bad
    <3> QED
      BY <2>1, LeastNumber
  <2>3. m \in 0 .. LastSeq /\ ~Within(m)
    OBVIOUS
  <2> HIDE DEF Within
  <2>4. m # 0 /\ m - 1 \in 0 .. LastSeq - 1 /\ m - 1 \in 0 .. LastSeq /\ (m - 1) + 1 = m
    BY <1>2, <1>4, <2>3
  <2>5. ~ m <= m - 1
    BY <2>3
  <2>6. m - 1 \notin Bad
    <3> HIDE DEF Bad
    <3> QED
      BY <2>2, <2>5
  <2>7. Within(m - 1)
    BY <2>4, <2>6
  <2> QED
    BY <1>5, <2>3, <2>4, <2>7
<1>7. Within(p)
    BY <1>6
<1> QED
    BY <1>7

\* seat_km_reclaimed: what the line is longer than each journey, added up.
LEMMA ReclaimedIs ==
    ASSUME Len(Config.route) > 0, StoreInv, NEW t \in trips
    PROVE  LET A == ActiveHolds(holds, t)
           IN  SeatKmReclaimed(t)
                   = SumOver([b \in A |-> RouteKm - DistanceKm(holds[b].leg)], A)
<1> DEFINE S == ActiveHolds(holds, t)
           c == [b \in S |-> RouteKm - DistanceKm(holds[b].leg)]
           Adds(g) == g = [T \in SUBSET S |->
                IF T = {} THEN 0
                ELSE (RouteKm - DistanceKm(holds[CHOOSE x \in T : TRUE].leg))
                        + g[T \ {CHOOSE x \in T : TRUE}]]
           it == CHOOSE g : Adds(g)
<1>1. IsFiniteSet(S)
    BY ActiveLegFacts
<1>2. \A b \in S : c[b] \in Int
  <2>1. RouteKm \in Int
    BY RouteFacts, 0 \in 0 .. LastSeq, LastSeq \in 0 .. LastSeq
  <2>2. \A b \in S : DistanceKm(holds[b].leg) \in Nat
    BY ActiveLegFacts, DistanceFacts
  <2> QED
    BY <2>1, <2>2
<1>3. \A g : Adds(g) <=> Sums(g, c, S)
  <2> TAKE g
  <2>1. \A T \in SUBSET S :
            T # {} => c[CHOOSE x \in T : TRUE]
                        = RouteKm - DistanceKm(holds[CHOOSE x \in T : TRUE].leg)
    <3> HIDE DEF S
    <3> QED
      OBVIOUS
  <2> HIDE DEF c, S
  <2>2. [T \in SUBSET S |->
            IF T = {} THEN 0
            ELSE (RouteKm - DistanceKm(holds[CHOOSE x \in T : TRUE].leg))
                    + g[T \ {CHOOSE x \in T : TRUE}]]
          = [T \in SUBSET S |->
            IF T = {} THEN 0
            ELSE c[CHOOSE x \in T : TRUE] + g[T \ {CHOOSE x \in T : TRUE}]]
    BY <2>1
  <2> QED
    BY <2>2 DEF Sums
<1>4. Adds(it)
  <2> HIDE DEF c, S, Adds
  <2>1. \E g \in [SUBSET S -> Int] : Sums(g, c, S)
    BY <1>1, <1>2, SumDefined
  <2> QED
    BY <1>3, <2>1
<1>5. SeatKmReclaimed(t) = it[S]
    BY DEF SeatKmReclaimed, Sets!MapThenSumSet, Sets!MapThenFoldSet
<1>6. SeatKmReclaimed(t) = SumOver(c, S)
  <2> HIDE DEF c, S, it, Adds
  <2> QED
    BY <1>1, <1>2, <1>3, <1>4, <1>5, SumsAre
<1> QED
    BY <1>6

\* What the line is longer than each journey, and the journeys, make up all the lines.
LEMMA ReclaimedAtLeast ==
    ASSUME Len(Config.route) > 0, StoreInv, NEW t \in trips
    PROVE  LET legs == ActiveLegs(t)
           IN  SeatKmReclaimed(t) >= (Cardinality(DOMAIN legs) - MinSeats(legs)) * RouteKm
<1> DEFINE legs == ActiveLegs(t)
           A == ActiveHolds(holds, t)
           used == MinSeats(legs)
           went == [b \in A |-> Travelled(holds[b].leg, LastSeq)]
           left == [b \in A |-> RouteKm - DistanceKm(holds[b].leg)]
           line == [b \in A |-> RouteKm]
<1>1. /\ DOMAIN legs = A /\ IsFiniteSet(A) /\ AreLegs(legs)
      /\ \A b \in A : holds[b].leg \in Leg
    BY ActiveLegFacts
<1>2. /\ LastSeq \in Nat /\ LastSeq \in 0 .. LastSeq /\ 0 \in 0 .. LastSeq
      /\ RouteKm = Km(LastSeq) - Km(0) /\ RouteKm \in Int
    BY RouteFacts, 0 \in 0 .. LastSeq, LastSeq \in 0 .. LastSeq
<1>3. used \in Nat /\ Cardinality(A) \in Nat
    BY <1>1, PeakIsDepth, FS_CardinalityType
<1>4. \A b \in A : Travelled(holds[b].leg, LastSeq) = DistanceKm(holds[b].leg)
                   /\ DistanceKm(holds[b].leg) \in Int
  <2> SUFFICES ASSUME NEW b \in A, NEW l \in Leg, l = holds[b].leg
               PROVE  Travelled(l, LastSeq) = DistanceKm(l) /\ DistanceKm(l) \in Int
    BY <1>1
  <2>1. /\ l.origin \in 0 .. LastSeq /\ l.dest \in 0 .. LastSeq /\ l.origin < l.dest
        /\ DistanceKm(l) = Km(l.dest) - Km(l.origin)
    BY RouteFacts
  <2>2. ~ LastSeq <= l.origin /\ (LastSeq <= l.dest => l.dest = LastSeq)
    BY <1>2, <2>1
  <2>3. DistanceKm(l) \in Nat
    BY DistanceFacts
  <2> QED
    BY <2>1, <2>2, <2>3 DEF Travelled
<1>5. SumOver(went, A) <= used * RouteKm
    BY <1>2, CarriedSoFar
<1>6. SeatKmReclaimed(t) = SumOver(left, A)
    BY ReclaimedIs
<1>7. \A b \in A : left[b] \in Int /\ went[b] \in Int /\ line[b] = left[b] + went[b]
    BY <1>2, <1>4
<1>8. A \subseteq A /\ \A b \in A : line[b] = IF b \in A THEN RouteKm ELSE 0
    OBVIOUS
<1> HIDE DEF A, legs, used, went, left, line
<1>9. SumOver(line, A) = SumOver(left, A) + SumOver(went, A)
    BY <1>1, <1>7, SumPlus
<1>10. SumOver(line, A) = RouteKm * Cardinality(A)
    BY <1>1, <1>2, <1>8, SumCount
<1>11. SumOver(left, A) \in Int /\ SumOver(went, A) \in Int
    BY <1>1, <1>7, SumType
<1>12. SumOver(left, A) >= (Cardinality(A) - used) * RouteKm
  <2> DEFINE n == Cardinality(A)
  <2>1. (n - used) * RouteKm = RouteKm * n - used * RouteKm
    BY <1>2, <1>3
  <2>2. RouteKm * n \in Int /\ used * RouteKm \in Int
    BY <1>2, <1>3
  <2> QED
    BY <1>5, <1>9, <1>10, <1>11, <2>1, <2>2
<1> QED
    BY <1>1, <1>6, <1>12 DEF legs, used, A

\* For any timetable over a route with a station on it, any calls and any number of
\* bookings, the impact report claims no more than the passengers' seats bear out.
THEOREM ImpactReportHonest ==
    ASSUME Len(Config.route) > 0 PROVE Spec => []ImpactHonest
<1>1. StoreInv => ImpactHonest
    BY UsedSeatsExist, ReclaimedAtLeast DEF ImpactHonest
<1> QED
    BY <1>1, StoreSound, PTL
=============================================================================
