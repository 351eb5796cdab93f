---------------------------- MODULE PackingProofs ----------------------------
(***************************************************************************)
(* Packing for any number of seats, any stations and any bound: no two     *)
(* passengers are put on one seat at once (SeatedApart), and nobody stands *)
(* longer than needed (EarliestSeat).                                      *)
(***************************************************************************)
EXTENDS Packing, OptimizerProofs

\* Overlapping goes both ways.
LEMMA OverlapSymmetric ==
    ASSUME NEW l, NEW m, Overlaps(l, m) PROVE Overlaps(m, l)
BY DEF Overlaps

\* A leg over the route starts at one of its stations and ends at a later one.
LEMMA LegEnds ==
    ASSUME NEW l \in LegsOver(Station)
    PROVE  /\ l.origin \in Station /\ l.dest \in Station
           /\ l.origin \in Nat /\ l.dest \in Nat /\ l.origin < l.dest
BY PackingAssumption DEF LegsOver, IsLeg

\* Whoever is on a seat has a leg over the route.
LEMMA GivenLeg ==
    ASSUME TypeOK, NEW s \in Seat, NEW i \in On(s)
    PROVE  i \in DOMAIN given /\ given[i].leg \in LegsOver(Station)
<1>1. i \in DOMAIN given
    BY DEF On
<1>2. given[i] \in Given
    BY <1>1 DEF TypeOK
<1> QED
    BY <1>1, <1>2 DEF Given

\* A passenger added last, on a seat free for the leg taken, meets nobody.
LEMMA AppendApart ==
    ASSUME TypeOK, SeatedApart, NEW g \in Given, given' = Append(given, g),
           g.seat = Standing \/ \A i \in On(g.seat) : ~Overlaps(g.leg, given[i].leg)
    PROVE  given' \in Seq(Given) /\ SeatedApart'
<1>1. given' \in Seq(Given) /\ Len(given') = Len(given) + 1
    BY DEF TypeOK
<1>2. \A i \in DOMAIN given' :
        \/ i \in DOMAIN given /\ given'[i] = given[i]
        \/ i = Len(given) + 1 /\ given'[i] = g
    BY DEF TypeOK
<1>3. ASSUME NEW i \in DOMAIN given', NEW j \in DOMAIN given', i # j,
             given'[i].seat = given'[j].seat, given'[i].seat # Standing
      PROVE  ~Overlaps(given'[i].leg, given'[j].leg)
  <2>1. CASE i \in DOMAIN given /\ j \in DOMAIN given
    BY <1>2, <1>3, <2>1 DEF SeatedApart, TypeOK
  <2>2. CASE i = Len(given) + 1 /\ j \in DOMAIN given
    BY <1>2, <1>3, <2>2 DEF On, TypeOK
  <2>3. CASE i \in DOMAIN given /\ j = Len(given) + 1
    BY <1>2, <1>3, <2>3, OverlapSymmetric DEF On, TypeOK
  <2> QED
    BY <1>2, <1>3, <2>1, <2>2, <2>3
<1> QED
    BY <1>1, <1>3 DEF SeatedApart

\* choose_seat only picks a seat that is free for the whole leg.
LEMMA AssignApart ==
    ASSUME TypeOK, SeatedApart, NEW l \in LegsOver(Station), Assign(l)
    PROVE  TypeOK' /\ SeatedApart'
<1>1. PICK s \in ChooseSeat(l) : given' = Append(given, [seat |-> s, leg |-> l, asked |-> l])
    BY DEF Assign
<1>2. s \in Seat /\ FreeFor(s, l)
    BY DEF ChooseSeat
<1> DEFINE g == [seat |-> s, leg |-> l, asked |-> l]
<1>3. g \in Given /\ \A i \in On(g.seat) : ~Overlaps(g.leg, given[i].leg)
    BY <1>2 DEF Given, FreeFor
<1> QED
    BY <1>1, <1>3, AppendApart DEF Assign, TypeOK

\* Taking a ticket out leaves the others as they were.
LEMMA CancelKeeps ==
    ASSUME TypeOK, NEW k \in DOMAIN given, Cancel(k)
    PROVE  /\ given' \in Seq(Given)
           /\ \A i \in DOMAIN given' :
                LET old == IF i < k THEN i ELSE i + 1
                IN  old \in DOMAIN given /\ given'[i] = given[old]
<1> DEFINE front == SubSeq(given, 1, k - 1)
           back == SubSeq(given, k + 1, Len(given))
<1>1. given' = front \o back
    BY DEF Cancel, Seqs!RemoveAt
<1>2. /\ given \in Seq(Given) /\ k \in 1 .. Len(given) /\ Len(given) \in Nat
      /\ \A i \in 1 .. Len(given) : given[i] \in Given
    BY DEF TypeOK
<1>3. /\ front \in Seq(Given) /\ Len(front) = k - 1
      /\ \A i \in 1 .. k - 1 : front[i] = given[i]
    BY <1>2
<1>4. /\ back \in Seq(Given) /\ Len(back) = Len(given) - k
      /\ \A i \in 1 .. Len(given) - k : back[i] = given[i + k]
    BY <1>2
<1> HIDE DEF front, back
<1>5. given' \in Seq(Given) /\ DOMAIN given' = 1 .. Len(given) - 1
    BY <1>1, <1>2, <1>3, <1>4
<1>6. ASSUME NEW i \in DOMAIN given', i < k
      PROVE  i \in DOMAIN given /\ given'[i] = given[i]
    BY <1>1, <1>2, <1>3, <1>4, <1>5, <1>6
<1>7. ASSUME NEW i \in DOMAIN given', ~ i < k
      PROVE  i + 1 \in DOMAIN given /\ given'[i] = given[i + 1]
  <2>1. /\ i \in Nat /\ k \in Nat /\ k <= i /\ i + 1 <= Len(given)
        /\ i + 1 \in DOMAIN given
    BY <1>2, <1>5, <1>7
  <2>2. i - (k - 1) \in 1 .. Len(given) - k /\ (i - (k - 1)) + k = i + 1
    BY <1>2, <2>1
  <2>3. back[i - (k - 1)] = given[i + 1]
    BY <1>4, <2>2
  <2>4. given'[i] = back[i - Len(front)]
    <3>1. i \in 1 .. Len(front) + Len(back) /\ i > Len(front)
      BY <1>2, <1>3, <1>4, <2>1
    <3>2. front \in Seq(Given) /\ back \in Seq(Given)
      BY <1>3, <1>4
    <3>3. (front \o back)[i] = back[i - Len(front)]
      BY <3>1, <3>2
    <3> QED
      BY <1>1, <3>3
  <2> QED
    BY <1>3, <2>1, <2>3, <2>4
<1> QED
    BY <1>5, <1>6, <1>7

LEMMA CancelApart ==
    ASSUME TypeOK, SeatedApart, NEW k \in DOMAIN given, Cancel(k)
    PROVE  TypeOK' /\ SeatedApart'
<1> DEFINE old(i) == IF i < k THEN i ELSE i + 1
<1>1. /\ given' \in Seq(Given)
      /\ \A i \in DOMAIN given' : old(i) \in DOMAIN given /\ given'[i] = given[old(i)]
    BY CancelKeeps
<1>2. TypeOK'
    BY <1>1 DEF TypeOK, Cancel
<1>3. SeatedApart'
  <2> SUFFICES ASSUME NEW i \in DOMAIN given', NEW j \in DOMAIN given', i # j,
                      given'[i].seat = given'[j].seat, given'[i].seat # Standing
               PROVE  ~Overlaps(given'[i].leg, given'[j].leg)
    BY DEF SeatedApart
  <2>1. i \in Nat /\ j \in Nat /\ k \in Nat
    BY <1>1 DEF TypeOK
  <2>2. old(i) # old(j)
    BY <2>1
  <2>3. /\ old(i) \in DOMAIN given /\ given'[i] = given[old(i)]
        /\ old(j) \in DOMAIN given /\ given'[j] = given[old(j)]
    BY <1>1
  <2> HIDE DEF old
  <2> QED
    BY <2>2, <2>3 DEF SeatedApart
<1> QED
    BY <1>2, <1>3

\* A standing passenger sits down where everyone in the way has got up, or stands.
LEMMA PromoteApart ==
    ASSUME TypeOK, SeatedApart, NEW l \in LegsOver(Station), Promote(l)
    PROVE  TypeOK' /\ SeatedApart'
<1>1. CASE \E o \in BestOffer(l) :
            given' = Append(given, [seat |-> o.seat, asked |-> l,
                                    leg |-> [origin |-> o.board, dest |-> l.dest]])
  <2>1. PICK o \in BestOffer(l) :
            given' = Append(given, [seat |-> o.seat, asked |-> l,
                                    leg |-> [origin |-> o.board, dest |-> l.dest]])
    BY <1>1
  <2> DEFINE s == o.seat
             d == o.board
  <2>2. s \in Seat /\ d \in FreesFor(s, l) /\ d < l.dest
    BY DEF BestOffer, Openings
  <2> HIDE DEF s, d
  <2> DEFINE m == [origin |-> d, dest |-> l.dest]
             g == [seat |-> s, asked |-> l, leg |-> m]
  <2>3. /\ d \in Station /\ l.origin <= d
        /\ \A i \in Blocking(s, l) : given[i].leg.dest <= d
    <3>1. CASE Blocking(s, l) = {}
        BY <2>2, <3>1, LegEnds, PackingAssumption DEF FreesFor
    <3>2. CASE Blocking(s, l) # {}
      <4>1. d \in {given[i].leg.dest : i \in Blocking(s, l)}
            /\ \A i \in Blocking(s, l) : given[i].leg.dest <= d
        BY <2>2, <3>2 DEF FreesFor
      <4>2. PICK i \in Blocking(s, l) : d = given[i].leg.dest
        BY <4>1
      <4>3. i \in On(s) /\ d > l.origin
        BY <4>2 DEF Blocking
      <4>4. d \in Station /\ d \in Nat /\ l.origin \in Nat
        BY <2>2, <4>2, <4>3, GivenLeg, LegEnds
      <4> QED
        BY <4>1, <4>3, <4>4
    <3> QED
        BY <3>1, <3>2
  <2>4. l.dest \in Station /\ l.dest \in Nat /\ d \in Nat /\ l.origin \in Nat
    BY <2>3, LegEnds, PackingAssumption
  <2>5. m \in LegsOver(Station)
    BY <2>2, <2>3, <2>4 DEF LegsOver, IsLeg
  <2>6. ASSUME NEW i \in On(s) PROVE ~Overlaps(m, given[i].leg)
    <3>1. given[i].leg.origin \in Nat /\ given[i].leg.dest \in Nat
        BY <2>2, GivenLeg, LegEnds
    <3>2. CASE i \in Blocking(s, l)
        BY <2>3, <2>4, <3>1, <3>2 DEF Overlaps
    <3>3. CASE i \notin Blocking(s, l)
        BY <2>3, <2>4, <3>1, <3>3 DEF Overlaps, Blocking
    <3> QED
        BY <3>2, <3>3
  <2>7. g \in Given
    BY <2>2, <2>5 DEF Given
  <2>8. given' = Append(given, g)
    BY <2>1 DEF s, d
  <2>9. \A i \in On(g.seat) : ~Overlaps(g.leg, given[i].leg)
    BY <2>6
  <2> HIDE DEF g
  <2>10. given' \in Seq(Given) /\ SeatedApart'
    BY <2>7, <2>8, <2>9, AppendApart
  <2> QED
    BY <2>10 DEF Promote, TypeOK
<1>2. CASE given' = Append(given, [seat |-> Standing, leg |-> l, asked |-> l])
  <2>1. [seat |-> Standing, leg |-> l, asked |-> l] \in Given
    BY DEF Given
  <2> QED
    BY <1>2, <2>1, AppendApart DEF Promote, TypeOK
<1> QED
    BY <1>1, <1>2 DEF Promote

\* For any coach and any route, whatever is sold, cancelled and queued for: no two
\* passengers have one seat over overlapping legs.
THEOREM NobodySharesASeat == Spec => [](TypeOK /\ SeatedApart)
<1>1. Init => TypeOK /\ SeatedApart
  <2> SUFFICES ASSUME Init PROVE TypeOK /\ SeatedApart
    OBVIOUS
  <2>1. given = <<>> /\ queueing = FALSE
    BY DEF Init
  <2>2. given \in Seq(Given) /\ DOMAIN given = {}
    BY <2>1
  <2> QED
    BY <2>1, <2>2 DEF TypeOK, SeatedApart
<1>2. TypeOK /\ SeatedApart /\ [Next]_vars => (TypeOK /\ SeatedApart)'
  <2> SUFFICES ASSUME TypeOK, SeatedApart, [Next]_vars PROVE (TypeOK /\ SeatedApart)'
    OBVIOUS
  <2>1. ASSUME NEW l \in LegsOver(Station), Assign(l) PROVE (TypeOK /\ SeatedApart)'
    BY <2>1, AssignApart
  <2>2. ASSUME NEW l \in LegsOver(Station), Promote(l) PROVE (TypeOK /\ SeatedApart)'
    BY <2>2, PromoteApart
  <2>3. ASSUME NEW i \in DOMAIN given, Cancel(i) PROVE (TypeOK /\ SeatedApart)'
    BY <2>3, CancelApart
  <2>4. CASE UNCHANGED vars
    BY <2>4 DEF vars, TypeOK, SeatedApart
  <2> QED
    BY <2>1, <2>2, <2>3, <2>4 DEF Next
<1> QED
    BY <1>1, <1>2, PTL DEF Spec

-----------------------------------------------------------------------------
(* The earliest seat.                                                      *)

\* Finitely many journeys do not go on for ever.
LEMMA LastDest ==
    ASSUME TypeOK PROVE \E m \in Nat : \A i \in DOMAIN given : given[i].leg.dest <= m
<1> DEFINE d == [i \in 1 .. Len(given) |-> given[i].leg.dest]
<1>1. Len(given) \in Nat /\ DOMAIN given = 1 .. Len(given)
    BY DEF TypeOK
<1>2. ASSUME NEW i \in 1 .. Len(given) PROVE given[i].leg.dest \in Nat
  <2>1. given[i] \in Given
    BY DEF TypeOK
  <2> QED
    BY <2>1, LegEnds DEF Given
<1>3. d \in [1 .. Len(given) -> Nat]
    BY <1>2
<1>4. PICK m \in Nat : \A i \in 1 .. Len(given) : d[i] <= m
  <2> HIDE DEF d
  <2> QED
    BY <1>1, <1>3, Bounded
<1>5. \A i \in 1 .. Len(given) : given[i].leg.dest <= m
    BY <1>4
<1> QED
    BY <1>1, <1>5

\* _frees_for_remainder: a taken seat comes free when the last of those in the way gets
\* off.
LEMMA SeatComesFree ==
    ASSUME TypeOK, NEW s \in Seat, NEW l \in LegsOver(Station), Blocking(s, l) # {}
    PROVE  \E i \in Blocking(s, l) : given[i].leg.dest \in FreesFor(s, l)
<1> DEFINE S == {given[i].leg.dest : i \in Blocking(s, l)}
<1>1. S \subseteq Nat /\ S # {}
    BY GivenLeg, LegEnds DEF Blocking
<1>2. PICK m \in Nat : \A i \in DOMAIN given : given[i].leg.dest <= m
    BY LastDest
<1>3. \A n \in S : n <= m
    BY <1>2 DEF Blocking, On
<1>4. \E g \in S : \A n \in S : n <= g
  <2> HIDE DEF S
  <2> QED
    BY <1>1, <1>3, GreatestNumber
<1>5. PICK i \in Blocking(s, l) : \A n \in S : n <= given[i].leg.dest
    BY <1>4
<1>6. given[i].leg.dest \in FreesFor(s, l)
    BY <1>5 DEF FreesFor
<1> QED
    BY <1>6

\* If any seat comes free before the end of the journey, one is offered.
LEMMA OfferExists ==
    ASSUME TypeOK, NEW l \in LegsOver(Station), Openings(l) # {}
    PROVE  BestOffer(l) # {}
<1>1. \A o \in Openings(l) : o.seat \in Nat /\ o.board \in Nat
  <2> TAKE o \in Openings(l)
  <2>1. PICK s \in Seat : o.seat = s /\ o.board \in FreesFor(s, l)
    BY DEF Openings
  <2>2. s \in Nat
    BY PackingAssumption DEF Seat
  <2>3. FreesFor(s, l) \subseteq Nat
    BY GivenLeg, LegEnds DEF FreesFor, Blocking
  <2> QED
    BY <2>1, <2>2, <2>3
<1> DEFINE B == {o.board : o \in Openings(l)}
<1>2. B \subseteq Nat /\ B # {}
    BY <1>1
<1>3. PICK b \in B : \A c \in B : b <= c
  <2> HIDE DEF B
  <2> QED
    BY <1>2, LeastNumber
<1> DEFINE T == {o.seat : o \in {p \in Openings(l) : p.board = b}}
<1>4. T \subseteq Nat /\ T # {}
    BY <1>1
<1>5. PICK t \in T : \A u \in T : t <= u
  <2> HIDE DEF T
  <2> QED
    BY <1>4, LeastNumber
<1>6. PICK o \in Openings(l) : o.board = b /\ o.seat = t
    OBVIOUS
<1>7. ASSUME NEW p \in Openings(l)
      PROVE  o.board < p.board \/ (o.board = p.board /\ o.seat <= p.seat)
  <2>1. o.board <= p.board /\ o.board \in Nat /\ p.board \in Nat
    BY <1>1, <1>3, <1>6
  <2>2. p.board = b => o.seat <= p.seat
    BY <1>5, <1>6
  <2> QED
    BY <1>6, <2>1, <2>2
<1> QED
    BY <1>6, <1>7 DEF BestOffer
\* A seat a passenger cannot have yet is taken by someone for some of the way left.
LEMMA TakenUntilFree ==
    ASSUME TypeOK, NEW l \in LegsOver(Station), NEW s \in Seat,
           NEW b \in l.origin .. l.dest - 1, \A d \in FreesFor(s, l) : d < l.dest => b < d
    PROVE  \E j \in DOMAIN given :
              given[j].seat = s /\ Overlaps(given[j].leg, [origin |-> b, dest |-> l.dest])
<1>1. l.origin \in Nat /\ l.dest \in Nat /\ l.origin < l.dest
    BY LegEnds
<1>2. b \in Nat /\ l.origin <= b /\ b < l.dest
    BY <1>1
<1>3. Blocking(s, l) # {}
  <2>1. SUFFICES ASSUME Blocking(s, l) = {} PROVE FALSE
    OBVIOUS
  <2>2. FreesFor(s, l) = {l.origin}
    BY <2>1 DEF FreesFor
  <2> QED
    BY <1>1, <1>2, <2>2
<1>4. PICK i \in Blocking(s, l) : given[i].leg.dest \in FreesFor(s, l)
    BY <1>3, SeatComesFree
<1>5. i \in On(s) /\ given[i].leg.origin < l.dest
    BY DEF Blocking
<1>6. i \in DOMAIN given /\ given[i].seat = s /\ given[i].leg.dest \in Nat
    BY <1>5, GivenLeg, LegEnds DEF On
<1>7. b < given[i].leg.dest
    BY <1>1, <1>2, <1>4, <1>6
<1> QED
    BY <1>5, <1>6, <1>7 DEF Overlaps

\* Who is added last changes nothing for the ones before.
LEMMA AppendEarliest ==
    ASSUME TypeOK, EarliestSeat, NEW g \in Given, given' = Append(given, g),
           \A b \in g.asked.origin ..
                      (IF g.seat = Standing THEN g.asked.dest ELSE g.leg.origin) - 1,
              s \in Seat :
             \E j \in DOMAIN given :
                given[j].seat = s /\ Overlaps(given[j].leg, [origin |-> b, dest |-> g.asked.dest])
    PROVE  EarliestSeat'
<1> DEFINE from(p) == IF p.seat = Standing THEN p.asked.dest ELSE p.leg.origin
           taken(gs, j, s, b, p) ==
              gs[j].seat = s /\ Overlaps(gs[j].leg, [origin |-> b, dest |-> p.asked.dest])
<1>1. /\ Len(given) \in Nat /\ DOMAIN given = 1 .. Len(given)
      /\ DOMAIN given' = 1 .. Len(given) + 1 /\ given'[Len(given) + 1] = g
      /\ \A j \in DOMAIN given : given'[j] = given[j]
    BY DEF TypeOK
<1>2. \A i \in DOMAIN given : \A b \in given[i].asked.origin .. from(given[i]) - 1 :
        \A s \in Seat : \E j \in DOMAIN given : j < i /\ taken(given, j, s, b, given[i])
    BY DEF EarliestSeat
<1>3. \A b \in g.asked.origin .. from(g) - 1 : \A s \in Seat :
        \E j \in DOMAIN given : taken(given, j, s, b, g)
    OBVIOUS
<1>4. \A j \in DOMAIN given : \A s, b, p : taken(given, j, s, b, p) => taken(given', j, s, b, p)
    BY <1>1
<1> HIDE DEF from, taken
<1>5. ASSUME NEW i \in DOMAIN given', NEW b \in given'[i].asked.origin .. from(given'[i]) - 1,
             NEW s \in Seat
      PROVE  \E j \in DOMAIN given' : j < i /\ taken(given', j, s, b, given'[i])
  <2>1. CASE i \in DOMAIN given
    <3>1. PICK j \in DOMAIN given : j < i /\ taken(given, j, s, b, given[i])
      BY <1>1, <1>2, <1>5, <2>1
    <3> QED
      BY <1>1, <1>4, <2>1, <3>1
  <2>2. CASE i = Len(given) + 1
    <3>1. PICK j \in DOMAIN given : taken(given, j, s, b, g)
      BY <1>1, <1>3, <1>5, <2>2
    <3> QED
      BY <1>1, <1>4, <2>2, <3>1
  <2> QED
    BY <1>1, <2>1, <2>2
<1> QED
    BY <1>5 DEF EarliestSeat, from, taken

\* predict_standing_seats offers the seat that comes free first.
LEMMA PromoteEarliest ==
    ASSUME TypeOK, EarliestSeat, NEW l \in LegsOver(Station), Promote(l), TypeOK'
    PROVE  EarliestSeat'
<1>1. l.origin \in Nat /\ l.dest \in Nat /\ l.origin < l.dest
    BY LegEnds
<1>2. CASE \E o \in BestOffer(l) :
            given' = Append(given, [seat |-> o.seat, asked |-> l,
                                    leg |-> [origin |-> o.board, dest |-> l.dest]])
  <2>1. PICK o \in BestOffer(l) :
            given' = Append(given, [seat |-> o.seat, asked |-> l,
                                    leg |-> [origin |-> o.board, dest |-> l.dest]])
    BY <1>2
  <2> DEFINE g == [seat |-> o.seat, asked |-> l,
                   leg |-> [origin |-> o.board, dest |-> l.dest]]
  <2>2. g \in Given
    <3>1. /\ DOMAIN given' = 1 .. Len(given) + 1 /\ Len(given) \in Nat
          /\ given'[Len(given) + 1] = g
      BY <2>1 DEF TypeOK
    <3>2. given'[Len(given) + 1] \in Given
      BY <3>1 DEF TypeOK
    <3> QED
      BY <3>1, <3>2
  <2>3. g.seat \in Seat /\ g.asked = l /\ g.leg.origin = o.board /\ o.board < l.dest
    BY DEF BestOffer, Openings
  <2>4. g.seat # Standing /\ o.board \in Nat
    BY <2>2, <2>3, PackingAssumption, LegEnds DEF Given, Seat, Standing
  <2>5. ASSUME NEW b \in l.origin .. o.board - 1, NEW s \in Seat
        PROVE  \E j \in DOMAIN given :
                  given[j].seat = s /\ Overlaps(given[j].leg, [origin |-> b, dest |-> l.dest])
    <3>1. ASSUME NEW d \in FreesFor(s, l), d < l.dest PROVE b < d
      <4>1. [seat |-> s, board |-> d] \in Openings(l)
        BY <3>1 DEF Openings
      <4>2. o.board < d \/ o.board = d
        BY <4>1 DEF BestOffer
      <4>3. d \in Nat
        BY <1>1, GivenLeg, LegEnds DEF FreesFor, Blocking
      <4> QED
        BY <1>1, <2>4, <4>2, <4>3
    <3>2. b \in l.origin .. l.dest - 1
      BY <1>1, <2>3, <2>4
    <3> QED
      BY <3>1, <3>2, TakenUntilFree
  <2>6. given' = Append(given, g)
    BY <2>1
  <2>7. \A b \in g.asked.origin ..
                   (IF g.seat = Standing THEN g.asked.dest ELSE g.leg.origin) - 1,
           s \in Seat :
          \E j \in DOMAIN given :
             given[j].seat = s /\ Overlaps(given[j].leg, [origin |-> b, dest |-> g.asked.dest])
    BY <2>3, <2>4, <2>5
  <2> HIDE DEF g
  <2> QED
    BY <2>2, <2>6, <2>7, AppendEarliest
<1>3. CASE /\ BestOffer(l) = {}
           /\ given' = Append(given, [seat |-> Standing, leg |-> l, asked |-> l])
  <2> DEFINE g == [seat |-> Standing, leg |-> l, asked |-> l]
  <2>1. g \in Given
    BY DEF Given
  <2>2. Openings(l) = {}
    BY <1>3, OfferExists
  <2>3. ASSUME NEW b \in l.origin .. l.dest - 1, NEW s \in Seat
        PROVE  \E j \in DOMAIN given :
                  given[j].seat = s /\ Overlaps(given[j].leg, [origin |-> b, dest |-> l.dest])
    <3>1. ASSUME NEW d \in FreesFor(s, l), d < l.dest PROVE FALSE
      <4>1. [seat |-> s, board |-> d] \in Openings(l)
        BY <3>1 DEF Openings
      <4> QED
        BY <2>2, <4>1
    <3> QED
      BY <3>1, TakenUntilFree
  <2>4. g.seat = Standing /\ g.asked = l /\ given' = Append(given, g)
    BY <1>3
  <2> HIDE DEF g
  <2> QED
    BY <2>1, <2>3, <2>4, AppendEarliest
<1> QED
    BY <1>2, <1>3 DEF Promote

\* Whoever sits for the whole journey has not stood at all.
LEMMA SoldEarliest ==
    ASSUME TypeOK', SoldAsAsked', ~queueing' PROVE EarliestSeat'
<1>1. ASSUME NEW i \in DOMAIN given'
      PROVE  given'[i].seat # Standing /\ given'[i].leg = given'[i].asked
    BY DEF SoldAsAsked
<1>2. ASSUME NEW i \in DOMAIN given'
      PROVE  given'[i].asked.origin .. given'[i].leg.origin - 1 = {}
  <2>1. given'[i] \in Given
    BY DEF TypeOK
  <2>2. given'[i].asked.origin \in Nat
    BY <2>1, LegEnds DEF Given
  <2> QED
    BY <1>1, <2>2
<1> QED
    BY <1>1, <1>2 DEF EarliestSeat

\* A sale gives the whole journey, a cancellation leaves the other tickets as they are.
LEMMA SoldStep ==
    ASSUME TypeOK, SoldAsAsked,
           (\E l \in LegsOver(Station) : Assign(l)) \/ (\E k \in DOMAIN given : Cancel(k))
    PROVE  SoldAsAsked' /\ ~queueing'
<1>1. ASSUME NEW l \in LegsOver(Station), Assign(l) PROVE SoldAsAsked' /\ ~queueing'
  <2>1. PICK s \in ChooseSeat(l) :
            given' = Append(given, [seat |-> s, leg |-> l, asked |-> l])
    BY <1>1 DEF Assign
  <2>2. ~queueing /\ ~queueing'
    BY <1>1 DEF Assign
  <2>3. s # Standing
    BY PackingAssumption DEF ChooseSeat, Seat, Standing
  <2>4. \A i \in DOMAIN given' :
            \/ i \in DOMAIN given /\ given'[i] = given[i]
            \/ given'[i] = [seat |-> s, leg |-> l, asked |-> l]
    BY <2>1 DEF TypeOK
  <2> QED
    BY <2>2, <2>3, <2>4 DEF SoldAsAsked
<1>2. ASSUME NEW k \in DOMAIN given, Cancel(k) PROVE SoldAsAsked' /\ ~queueing'
  <2>1. \A i \in DOMAIN given' : \E j \in DOMAIN given : given'[i] = given[j]
    BY <1>2, CancelKeeps
  <2> QED
    BY <1>2, <2>1 DEF SoldAsAsked, Cancel
<1> QED
    BY <1>1, <1>2

\* For any coach and any route, the invariant of the run packing.
THEOREM PackingInductive == Spec => []IInv
<1>1. Init => IInv
  <2> SUFFICES ASSUME Init PROVE IInv
    OBVIOUS
  <2>1. given = <<>> /\ queueing = FALSE
    BY DEF Init
  <2>2. given \in Seq(Given) /\ DOMAIN given = {}
    BY <2>1
  <2> QED
    BY <2>1, <2>2 DEF IInv, TypeOK, SeatedApart, SoldAsAsked, EarliestSeat
<1>2. IInv /\ [Next]_vars => IInv'
  <2> SUFFICES ASSUME IInv, [Next]_vars PROVE IInv'
    OBVIOUS
  <2>1. TypeOK /\ SeatedApart /\ SoldAsAsked /\ EarliestSeat
    BY DEF IInv
  <2>2. CASE UNCHANGED vars
    BY <2>1, <2>2 DEF vars, IInv, TypeOK, SeatedApart, SoldAsAsked, EarliestSeat
  <2>3. CASE (\E l \in LegsOver(Station) : Assign(l)) \/ (\E k \in DOMAIN given : Cancel(k))
    <3>1. TypeOK' /\ SeatedApart'
      BY <2>1, <2>3, AssignApart, CancelApart
    <3>2. SoldAsAsked' /\ ~queueing'
      BY <2>1, <2>3, SoldStep
    <3>3. EarliestSeat'
      BY <3>1, <3>2, SoldEarliest
    <3> QED
      BY <3>1, <3>2, <3>3 DEF IInv
  <2>4. ASSUME NEW l \in LegsOver(Station), Promote(l) PROVE IInv'
    <3>1. TypeOK' /\ SeatedApart'
      BY <2>1, <2>4, PromoteApart
    <3>2. SoldAsAsked'
      BY <2>4 DEF Promote, SoldAsAsked
    <3>3. EarliestSeat'
      BY <2>1, <2>4, <3>1, PromoteEarliest
    <3> QED
      BY <3>1, <3>2, <3>3 DEF IInv
  <2> QED
    BY <2>2, <2>3, <2>4 DEF Next
<1> QED
    BY <1>1, <1>2, PTL DEF Spec

\* For any coach and any route, whatever is sold and cancelled before the queue forms:
\* nobody stands longer than needed.
THEOREM NobodyStandsTooLong == Spec => []EarliestSeat
<1>1. IInv => EarliestSeat
    BY DEF IInv
<1> QED
    BY <1>1, PackingInductive, PTL

-----------------------------------------------------------------------------
(* Two tests of one fact.                                                  *)

\* Among finitely many numbered candidates one has the greatest value, and the least
\* number of those that do.
LEMMA FullestFirst ==
    ASSUME NEW F, IsFiniteSet(F), F # {}, F \subseteq Nat, NEW v, \A s \in F : v[s] \in Int
    PROVE  \E s \in F : \A u \in F : v[u] < v[s] \/ (v[u] = v[s] /\ s <= u)
<1> DEFINE Better(u, s) == v[s] < v[u] \/ (v[u] = v[s] /\ u < s)
           D(s) == {u \in F : Better(u, s)}
           B == {D(s) : s \in F}
<1>1. B \subseteq SUBSET F /\ B # {}
    OBVIOUS
<1>2. PICK m \in B : \A n \in B : Cardinality(m) <= Cardinality(n)
  <2> HIDE DEF B
  <2> QED
    BY <1>1, Smallest
<1>3. PICK s \in F : m = D(s)
    OBVIOUS
<1>4. ASSUME NEW u \in D(s) PROVE FALSE
  <2>1. u \in F /\ Better(u, s) /\ D(u) \in B
    BY <1>4
  <2>2. s \in Nat /\ u \in Nat /\ v[s] \in Int /\ v[u] \in Int
    BY <2>1
  <2>3. u \notin D(u)
    BY <2>2
  <2>4. ASSUME NEW w \in D(u) PROVE w \in D(s)
    <3>1. w \in F /\ w \in Nat /\ v[w] \in Int /\ Better(w, u)
      BY <2>4
    <3>2. Better(w, s)
      BY <2>1, <2>2, <3>1
    <3> QED
      BY <3>1, <3>2
  <2>5. IsFiniteSet(D(s)) /\ D(u) \in SUBSET D(s) /\ D(u) # D(s)
    <3>1. IsFiniteSet(D(s))
      <4>1. D(s) \in SUBSET F
        OBVIOUS
      <4> HIDE DEF D
      <4> QED
        BY <4>1, FS_Subset
    <3> HIDE DEF D
    <3> QED
      BY <1>4, <2>3, <2>4, <3>1
  <2>6. /\ Cardinality(D(u)) <= Cardinality(D(s)) /\ Cardinality(D(u)) # Cardinality(D(s))
        /\ Cardinality(D(u)) \in Nat /\ Cardinality(D(s)) \in Nat
    <3> HIDE DEF D, B
    <3>1. IsFiniteSet(D(u)) /\ Cardinality(D(u)) <= Cardinality(D(s))
          /\ Cardinality(D(u)) # Cardinality(D(s))
      BY <2>5, FS_Subset
    <3> QED
      BY <2>5, <3>1, FS_CardinalityType
  <2>7. Cardinality(D(s)) <= Cardinality(D(u))
    <3> HIDE DEF D, B
    <3> QED
      BY <1>2, <1>3, <2>1
  <2> QED
    BY <2>6, <2>7
<1>5. ASSUME NEW u \in F PROVE v[u] < v[s] \/ (v[u] = v[s] /\ s <= u)
  <2>1. u \in Nat /\ s \in Nat /\ v[u] \in Int /\ v[s] \in Int
    OBVIOUS
  <2>2. ~Better(u, s)
    BY <1>4
  <2> QED
    BY <2>1, <2>2
<1> QED
    BY <1>5

\* _occupied_span is a number of station-hops.
LEMMA SpanIsNumber ==
    ASSUME TypeOK, NEW s \in Seat PROVE OccupiedSpan(s) \in Int
<1> DEFINE S == On(s)
           f == [i \in S |-> Length(given[i].leg)]
           Adds(g) == g = [T \in SUBSET S |->
                IF T = {} THEN 0
                ELSE Length(given[CHOOSE x \in T : TRUE].leg) + g[T \ {CHOOSE x \in T : TRUE}]]
           it == CHOOSE g : Adds(g)
<1>1. IsFiniteSet(S)
  <2>1. Len(given) \in Int /\ 1 \in Int /\ S \in SUBSET (1 .. Len(given))
    BY DEF TypeOK, On
  <2>2. IsFiniteSet(1 .. Len(given))
    BY <2>1, FS_Interval
  <2> HIDE DEF S
  <2> QED
    BY <2>1, <2>2, FS_Subset
<1>2. \A i \in S : f[i] \in Int
    BY GivenLeg, LegEnds DEF Length
<1>3. \A g : Adds(g) <=> Sums(g, f, S)
  <2> TAKE g
  <2>1. \A T \in SUBSET S :
            T # {} => f[CHOOSE x \in T : TRUE] = Length(given[CHOOSE x \in T : TRUE].leg)
    <3> HIDE DEF S
    <3> QED
      OBVIOUS
  <2> HIDE DEF f, S
  <2>2. [T \in SUBSET S |->
            IF T = {} THEN 0
            ELSE Length(given[CHOOSE x \in T : TRUE].leg) + g[T \ {CHOOSE x \in T : TRUE}]]
          = [T \in SUBSET S |->
            IF T = {} THEN 0
            ELSE f[CHOOSE x \in T : TRUE] + g[T \ {CHOOSE x \in T : TRUE}]]
    BY <2>1
  <2> QED
    BY <2>2 DEF Sums
<1>4. Adds(it)
  <2> HIDE DEF f, S, Adds
  <2>1. \E g \in [SUBSET S -> Int] : Sums(g, f, S)
    BY <1>1, <1>2, SumDefined
  <2> QED
    BY <1>3, <2>1
<1>5. OccupiedSpan(s) = it[S]
    BY DEF OccupiedSpan, Fin!MapThenSumSet, Fin!MapThenFoldSet
<1>6. OccupiedSpan(s) = SumOver(f, S)
  <2> HIDE DEF f, S, it, Adds
  <2> QED
    BY <1>1, <1>2, <1>3, <1>4, <1>5, SumsAre
<1> HIDE DEF f, S
<1> QED
    BY <1>1, <1>2, <1>6, SumType

\* choose_seat finds a seat whenever one is free for the whole leg.
LEMMA SomeSeatChosen ==
    ASSUME TypeOK, NEW l, NEW t \in Seat, FreeFor(t, l) PROVE ChooseSeat(l) # {}
<1> DEFINE F == {s \in Seat : FreeFor(s, l)}
           v == [s \in F |-> OccupiedSpan(s)]
<1>1. F \subseteq Nat /\ F # {}
    BY PackingAssumption DEF Seat
<1>2. IsFiniteSet(F)
  <2>1. IsFiniteSet(Seat)
    <3>1. Seats - 1 \in Int /\ 0 \in Int
      BY PackingAssumption
    <3> QED
      BY <3>1, FS_Interval DEF Seat
  <2>2. F \in SUBSET Seat
    OBVIOUS
  <2> QED
    BY <2>1, <2>2, FS_Subset
<1>3. \A s \in F : v[s] \in Int
    BY SpanIsNumber
<1>4. PICK s \in F : \A u \in F : v[u] < v[s] \/ (v[u] = v[s] /\ s <= u)
  <2> HIDE DEF F, v
  <2> QED
    BY <1>1, <1>2, <1>3, FullestFirst
<1>5. s \in ChooseSeat(l)
  <2>1. ASSUME NEW u \in Seat, FreeFor(u, l)
        PROVE  \/ OccupiedSpan(u) < OccupiedSpan(s)
               \/ OccupiedSpan(u) = OccupiedSpan(s) /\ s <= u
    <3>1. u \in F /\ v[u] = OccupiedSpan(u) /\ v[s] = OccupiedSpan(s)
      BY <2>1
    <3> QED
      BY <1>4, <3>1
  <2> QED
    BY <2>1 DEF ChooseSeat
<1> QED
    BY <1>5

\* A seat is free for a leg exactly if it comes free where the leg starts.
LEMMA FreeFromStart ==
    ASSUME TypeOK, NEW s \in Seat, NEW l \in LegsOver(Station)
    PROVE  FreeFor(s, l) <=> l.origin \in FreesFor(s, l)
<1>1. l.origin \in Nat /\ l.dest \in Nat
    BY LegEnds
<1>2. FreeFor(s, l) <=> Blocking(s, l) = {}
  <2>1. \A i \in On(s) : given[i].leg.origin \in Nat /\ given[i].leg.dest \in Nat
    BY GivenLeg, LegEnds
  <2>2. \A i \in On(s) : ~Overlaps(l, given[i].leg) <=> i \notin Blocking(s, l)
    BY <1>1, <2>1 DEF Overlaps, Blocking
  <2>3. Blocking(s, l) \subseteq On(s)
    BY DEF Blocking
  <2> QED
    BY <2>2, <2>3 DEF FreeFor
<1>3. CASE Blocking(s, l) = {}
    BY <1>2, <1>3 DEF FreesFor
<1>4. CASE Blocking(s, l) # {}
  <2>1. ASSUME l.origin \in FreesFor(s, l) PROVE FALSE
    <3>1. PICK i \in Blocking(s, l) : l.origin = given[i].leg.dest
      BY <1>4, <2>1 DEF FreesFor
    <3>2. i \in On(s) /\ given[i].leg.dest > l.origin
      BY DEF Blocking
    <3>3. given[i].leg.dest \in Nat
      BY <3>2, GivenLeg, LegEnds
    <3> QED
      BY <1>1, <3>1, <3>2, <3>3
  <2> QED
    BY <1>2, <1>4, <2>1
<1> QED
    BY <1>3, <1>4

\* For any coach and any route, whatever is sold, cancelled and queued for: choose_seat
\* and predict_standing_seats agree on whether a journey can be seated from its start.
THEOREM TestsAgree == Spec => []SeatTestsAgree
<1>1. TypeOK => SeatTestsAgree
  <2> SUFFICES ASSUME TypeOK, NEW l \in LegsOver(Station)
               PROVE  ChooseSeat(l) # {} <=> \E s \in Seat : l.origin \in FreesFor(s, l)
    BY DEF SeatTestsAgree
  <2>1. ChooseSeat(l) # {} <=> \E s \in Seat : FreeFor(s, l)
    BY SomeSeatChosen DEF ChooseSeat
  <2> QED
    BY <2>1, FreeFromStart
<1> QED
    BY <1>1, NobodySharesASeat, PTL

-----------------------------------------------------------------------------
(* The optimizer on what the coach was asked for.                          *)

\* For any coach and any route with a station on it, whatever is asked for: min_seats is
\* the overlap depth of the journeys, and pack seats them apart on that many seats.
THEOREM OptimizerIsRight ==
    ASSUME Station # {} PROVE Spec => []PackIsOptimal
<1>1. ASSUME TypeOK PROVE PackIsOptimal
  <2> DEFINE legs == [i \in DOMAIN given |-> given[i].asked]
             depths == {Depth(legs, p) : p \in Station}
             packed == Pack(legs)
  <2>1. AreLegs(legs) /\ DOMAIN legs \subseteq Nat
    <3>1. Len(given) \in Nat /\ DOMAIN legs = 1 .. Len(given)
      BY <1>1 DEF TypeOK
    <3>2. IsFiniteSet(DOMAIN legs)
      BY <3>1, FS_Interval
    <3>3. ASSUME NEW i \in DOMAIN legs
          PROVE  legs[i] \in [origin : Nat, dest : Nat] /\ legs[i].origin < legs[i].dest
      <4>1. given[i] \in Given /\ legs[i] = given[i].asked
        BY <1>1, <3>3 DEF TypeOK
      <4>2. legs[i] \in LegsOver(Station)
        BY <4>1 DEF Given
      <4> HIDE DEF legs
      <4> QED
        BY <4>2, PackingAssumption DEF LegsOver, IsLeg
    <3> QED
      BY <3>1, <3>2, <3>3 DEF AreLegs
  <2>2. \A i \in DOMAIN legs : legs[i].origin \in Station /\ legs[i].dest \in Station
    <3> TAKE i \in DOMAIN legs
    <3>1. given[i] \in Given
      BY <1>1 DEF TypeOK
    <3> QED
      BY <3>1, LegEnds DEF Given
  <2> HIDE DEF legs
  <2>3. \A d \in depths : d <= MinSeats(legs)
    BY <2>1, PeakIsDepth, PackingAssumption
  <2>4. MinSeats(legs) \in depths
    <3>1. CASE \E k \in DOMAIN legs :
                  \/ MinSeats(legs) = Depth(legs, legs[k].origin)
                  \/ MinSeats(legs) = Depth(legs, legs[k].dest)
      BY <2>2, <3>1
    <3>2. CASE DOMAIN legs = {} /\ MinSeats(legs) = 0
      <4>1. PICK p \in Station : TRUE
        OBVIOUS
      <4>2. Depth(legs, p) = 0
        <5>1. {i \in DOMAIN legs : Contains(legs[i], p)} = {}
          BY <3>2
        <5> QED
          BY <5>1, FS_EmptySet DEF Depth
      <4> QED
        BY <3>2, <4>2
    <3> QED
      BY <2>1, <3>1, <3>2, PeakIsDepth
  <2>5. /\ packed.count = MinSeats(legs)
        /\ \A i \in DOMAIN legs : packed.seat[i] \in 0 .. packed.count - 1
        /\ \A i, j \in DOMAIN legs :
             i # j /\ packed.seat[i] = packed.seat[j] => ~Overlaps(legs[i], legs[j])
    BY <2>1, PackOptimal
  <2>6. \A i \in DOMAIN legs : packed.seat[i] < packed.count
    <3>1. packed.count \in Nat
      BY <2>1, <2>5, PeakIsDepth
    <3> QED
      BY <2>5, <3>1
  <2> HIDE DEF depths, packed
  <2> QED
    BY <2>3, <2>4, <2>5, <2>6 DEF PackIsOptimal, legs, depths, packed
<1> QED
    BY <1>1, NobodySharesASeat, PTL
=============================================================================
