------------------------------ MODULE Timetable ------------------------------
(***************************************************************************)
(* domain/timetable.py and app/timetable_config.py: the timetable file,    *)
(* the service patterns it describes, the dated trips they stand for, and  *)
(* which legs a train serves at what time.                                 *)
(*                                                                         *)
(* A date is the number of days since 1 January 1970 and a time of day the *)
(* number of minutes since midnight of the service date; names, labels,    *)
(* exit rows and the order of lists are left out.                          *)
(***************************************************************************)
EXTENDS Legs, FiniteSets, Sequences

CONSTANT Config     \* the content of config/timetable.json

Sets == INSTANCE FiniteSetsExt

MinutesPerDay == 1440
SecondsPerDay == 86400

\* A time that a stop does not have.
NoTime == -1

-----------------------------------------------------------------------------
(* Dates                                                                   *)

DayCodes == <<"MON", "TUE", "WED", "THU", "FRI", "SAT", "SUN">>

\* parse_days: day codes to the numbers of date.weekday().
ParseDays(codes) == {d \in 0 .. 6 : DayCodes[d + 1] \in codes}

\* date.weekday() of a date; 1 January 1970 was a Thursday.
Weekday(date) == (date + 3) % 7

\* date_from_epoch: the local date at an instant.
DateFromEpoch(epoch, offsetMinutes) == (epoch + 60 * offsetMinutes) \div SecondsPerDay

RunsOn(days, date) == Weekday(date) \in days

\* Every date in [start, start + window) the pattern runs on.
ServiceDates(days, start, window) ==
    {date \in {start + k : k \in 0 .. window - 1} : RunsOn(days, date)}

WithinWindow(date, today, window) == 0 <= date - today /\ date - today < window

-----------------------------------------------------------------------------
(* From the file to service patterns                                       *)

\* "+02:15" is [plus |-> 1, h |-> 2, m |-> 15].
ParseHHMM(t) == t.plus * MinutesPerDay + t.h * 60 + t.m

\* What is left of a time on the clock face.
FormatHHMM(minutes) == minutes % MinutesPerDay

\* The route's stations, in sequence.
Stations ==
    {[code |-> Config.route[i].code, seq |-> i - 1, km |-> Config.route[i].km] :
        i \in DOMAIN Config.route}

SeqOf(code) == (CHOOSE s \in Stations : s.code = code).seq

\* entry.get(field), parsed.
TimeAt(entry, field) == IF field \in DOMAIN entry THEN ParseHHMM(entry[field]) ELSE NoTime

\* _stops: one call per entry.
StopsOf(entries) ==
    {[seq |-> SeqOf(e.station), arrive |-> TimeAt(e, "arrive"), depart |-> TimeAt(e, "depart")] :
        e \in entries}

\* column_labels: how many seats are in a row.
Width(columns) == Sets!MapThenSumSet(LAMBDA i : columns[i], DOMAIN columns)

\* "{coach}{row}{column}" with coaches and columns numbered.
SeatId(coach, row, column) == 1000 * coach + 10 * row + column

\* build_coach: the seats of one coach.
BuildCoach(coach) ==
    LET layout == Config.layouts[coach.layout]
    IN  {[id |-> SeatId(coach.code, row, column), type |-> layout.type, class |-> layout.class] :
            row \in 1 .. layout.rows, column \in 1 .. Width(layout.columns)}

\* load_timetable: the service patterns of the file.
Patterns ==
    {[code |-> p.code, days |-> ParseDays(p.days), stops |-> StopsOf(p.stops),
      seats |-> UNION {BuildCoach(c) : c \in p.coaches}] : p \in Config.patterns}

\* What loading the file insists on.
Loads ==
    /\ \A p \in Config.patterns :
        /\ p.days # {} /\ p.days \subseteq {DayCodes[i] : i \in DOMAIN DayCodes}
        /\ \A e \in p.stops :
            /\ \E s \in Stations : s.code = e.station
            /\ DOMAIN e \cap {"arrive", "depart"} # {}
            /\ \A f \in DOMAIN e \cap {"arrive", "depart"} :
                e[f].plus \in Nat /\ e[f].h \in 0 .. 23 /\ e[f].m \in 0 .. 59
    /\ \A l \in DOMAIN Config.layouts : Width(Config.layouts[l].columns) <= 8

ASSUME ConfigAssumption == Loads

\* Codes tell stations, and patterns, apart (a duplicate would shadow the other).
ASSUME CodesAssumption ==
    /\ \A s, t \in Stations : s.code = t.code => s = t
    /\ \A p, q \in Config.patterns : p.code = q.code => p = q

\* The route lists its stations as they lie, nearest first.
ASSUME RouteAssumption ==
    /\ Len(Config.route) \in Nat /\ DOMAIN Config.route = 1 .. Len(Config.route)
    /\ \A s, t \in Stations :
        /\ s.seq \in Nat /\ s.km \in Nat
        /\ s.seq <= t.seq => s.km <= t.km

-----------------------------------------------------------------------------
(* Dated trips                                                             *)

\* trip_id_for: the same for the same pattern and date whoever computes it.
TripIdFor(code, date) == [code |-> code, date |-> date]

\* Timetable.trips_for_window.
TripsForWindow(start, window) ==
    UNION {{TripIdFor(p.code, date) : date \in ServiceDates(p.days, start, window)} :
              p \in Patterns}

\* Timetable.materialize: a trip has the stops and seats of its pattern.
PatternOf(trip) == CHOOSE p \in Patterns : p.code = trip.code

StopAt(trip, seq) == {s \in PatternOf(trip).stops : s.seq = seq}

\* Fault: calling at both ends is enough.
ServesAnyCall(trip, leg) == StopAt(trip, leg.origin) # {} /\ StopAt(trip, leg.dest) # {}

\* The train lets passengers on at the origin and off at the destination.
Serves(trip, leg) ==
    \E o \in StopAt(trip, leg.origin), d \in StopAt(trip, leg.dest) :
        o.depart # NoTime /\ d.arrive # NoTime

\* leg_times of a leg that is served: on the clock face, and how long it takes.
LegTimes(trip, leg) ==
    LET o == CHOOSE s \in StopAt(trip, leg.origin) : TRUE
        d == CHOOSE s \in StopAt(trip, leg.dest) : TRUE
    IN  [depart |-> FormatHHMM(o.depart), arrive |-> FormatHHMM(d.arrive),
         duration |-> d.arrive - o.depart]

\* Leg.distance_km over km_index, in tenths of a kilometre.
DistanceKm(leg) ==
    LET km(seq) == (CHOOSE s \in Stations : s.seq = seq).km
    IN  km(leg.dest) - km(leg.origin)

\* validate_leg: both ends are stations of the route.
ValidLeg(leg) == {leg.origin, leg.dest} \subseteq {s.seq : s \in Stations}
=============================================================================
