--------------------------- MODULE CheckoutProofs ---------------------------
(***************************************************************************)
(* Checkout for any number of trains, seats, bookings, carts and lost      *)
(* messages, however late the server's writes come: no seat is left behind *)
(* by a checkout (NothingStranded), none is booked more often than answers *)
(* were lost (BookedOncePerKey), the server is a ledger                    *)
(* (ImplementsLedger), and every ticket shown is the server's              *)
(* (TicketsMatch).                                                         *)
(***************************************************************************)
EXTENDS Checkout, FiniteSetTheorems, TLAPS

\* domain/booking_sm.py for the statuses a seat booking has.
LEMMA Transits ==
    ASSUME NEW s \in Status
    PROVE  CanApply(s, "CANCEL") <=> s \in Active
BY DEF CanApply, Transitions, BStatus, Status, Active

\* app/errors.py: no refusal of a booking route looks like a success.
LEMMA RefusalsFail ==
    ASSUME NEW e \in Refusal
    PROVE  /\ Refused(e) \in Answer /\ ~Succeeded(Refused(e)) /\ Refused(e).booking = 0
           /\ Refused(e) # NoAnswer
<1>1. StatusFor = [d \in DOMAIN BaseOf |->
                    IF d \in DOMAIN HttpStatus THEN HttpStatus[d] ELSE StatusFor[BaseOf[d]]]
    BY DEF StatusFor
<1>2. /\ Refusal \cup {"AntiAbuseError"} \subseteq DOMAIN BaseOf
      /\ BaseOf["SeatCapExceeded"] = "AntiAbuseError"
      /\ BaseOf["VelocityExceeded"] = "AntiAbuseError"
      /\ BaseOf["AbuseSuspected"] = "AntiAbuseError"
    BY DEF BaseOf, Refusal
<1>3. /\ HttpStatus["OverlapError"] = 409 /\ HttpStatus["IllegalTransition"] = 409
      /\ HttpStatus["PaymentDeclined"] = 402 /\ HttpStatus["AntiAbuseError"] = 429
      /\ {"OverlapError", "IllegalTransition", "PaymentDeclined", "AntiAbuseError"}
            \subseteq DOMAIN HttpStatus
      /\ {"SeatCapExceeded", "VelocityExceeded", "AbuseSuspected"} \cap DOMAIN HttpStatus = {}
    BY DEF HttpStatus
<1> HIDE DEF BaseOf, HttpStatus, StatusFor
<1>4. StatusFor["AntiAbuseError"] = 429
    BY <1>1, <1>2, <1>3
<1>5. StatusFor[e] \in {402, 409, 429}
    BY <1>1, <1>2, <1>3, <1>4 DEF Refusal
<1>6. Refused(e) \in Answer
  <2>1. 0 \in 0 .. MaxBooking
    BY CheckoutAssumption
  <2> QED
    BY <2>1 DEF Refused, Answer
<1> QED
    BY <1>5, <1>6 DEF Refused, Succeeded, NoAnswer

\* The answers that name no booking.
LEMMA NoAnswerSound == ~Succeeded(NoAnswer) /\ NoAnswer.booking = 0 /\ Sound(NoAnswer)
BY DEF NoAnswer, Succeeded, Sound

LEMMA FailedSound ==
    /\ Failed \in Answer /\ Sound(Failed) /\ ~Succeeded(Failed)
    /\ Failed.booking = 0 /\ Failed # NoAnswer
BY CheckoutAssumption DEF Failed, Answer, Sound, Succeeded, NoAnswer

LEMMA RefusedSound ==
    ASSUME NEW e \in Refusal PROVE Refused(e) \in Answer /\ Sound(Refused(e))
BY RefusalsFail DEF Sound

LEMMA GoodSound ==
    ASSUME NEW b \in DOMAIN bookings, TypeOK
    PROVE  LET a == [code |-> 200, booking |-> b]
           IN  a \in Answer /\ Sound(a) /\ Succeeded(a)
<1>1. b \in 0 .. MaxBooking
    BY CheckoutAssumption DEF TypeOK
<1> QED
    BY <1>1 DEF Answer, Sound, Succeeded

-----------------------------------------------------------------------------
(* What a step of the server may leave behind.                             *)

\* The request moves on, and is otherwise the same.
Moved(r, stage, answer) == [r EXCEPT !.stage = stage, !.answer = answer]

\* It is still about if somebody waits for it or it has more to do.
LEMMA MovedOn ==
    ASSUME TypeOK, NEW r \in wire, NEW g \in {"lookup", "run", "write", "store", "done"},
           NEW a \in Answer \cup {NoAnswer}, Becomes(r, g, a)
    PROVE  LET m == Moved(r, g, a)
           IN  /\ m \in Request /\ wire' \subseteq Request
               /\ wire' \subseteq (wire \ {r}) \cup {m} /\ wire \ {r} \subseteq wire'
               /\ r.live \/ g # "done" => m \in wire'
               /\ m.op = r.op /\ m.trip = r.trip /\ m.seat = r.seat
               /\ m.booking = r.booking /\ m.live = r.live
               /\ m.stage = g /\ m.answer = a
<1>1. r \in Request
    BY DEF TypeOK
<1>2. Moved(r, g, a) \in Request
    BY <1>1 DEF Moved, Request
<1>3. LET m == Moved(r, g, a)
      IN  /\ m.op = r.op /\ m.trip = r.trip /\ m.seat = r.seat
          /\ m.booking = r.booking /\ m.live = r.live
          /\ m.stage = g /\ m.answer = a
    BY <1>1 DEF Moved, Request
<1>4. wire' = (wire \ {r}) \cup {q \in {Moved(r, g, a)} : q.live \/ g # "done"}
    BY DEF Becomes, Moved
<1> HIDE DEF Moved
<1>5. /\ wire' \subseteq (wire \ {r}) \cup {Moved(r, g, a)} /\ wire \ {r} \subseteq wire'
      /\ r.live \/ g # "done" => Moved(r, g, a) \in wire'
    BY <1>3, <1>4
<1> QED
    BY <1>2, <1>3, <1>5 DEF TypeOK

\* Only the requests move.
LEMMA WizardKept ==
    ASSUME WizardInv, UNCHANGED browser, DOMAIN bookings \subseteq DOMAIN bookings',
           \A q \in Live' : \E p \in Live : q.op = p.op /\ q.booking = p.booking,
           (\A p, q \in Live : p = q) => (\A p, q \in Live' : p = q)
    PROVE  WizardInv'
BY DEF WizardInv, browser

\* A cancellation that will take booking b, or a hold that brings it.
Cancelling(r, b) == r.op = "cancel" /\ r.stage \in {"run", "write"} /\ r.booking = b
Bringing(r, b) == r.op = "hold" /\ r.answer.booking = b

\* No seat is taken that nobody answers for, and who answers for one still does.
LEMMA AccountedKept ==
    ASSUME AccountedInv, UNCHANGED <<step, held>>, DOMAIN bookings' = DOMAIN bookings,
           orphans \subseteq orphans', issued \subseteq issued',
           \A b \in DOMAIN bookings :
               bookings'[b].status \in Active =>
                   \/ bookings[b].status \in Active
                   \/ b \in orphans
                   \/ step = "confirm" /\ \E i \in DOMAIN held : held[i] = b,
           \A b \in DOMAIN bookings, r \in Live :
               /\ bookings'[b].status \in Active
               /\ Bringing(r, b) \/ Cancelling(r, b)
               => b \in orphans' \/ \E q \in Live' : Bringing(q, b) \/ Cancelling(q, b)
    PROVE  AccountedInv'
<1> SUFFICES ASSUME NEW b \in DOMAIN bookings, bookings'[b].status \in Active
             PROVE  \/ b \in orphans' \cup Ticketed'
                    \/ step \in {"hold", "confirm"} /\ \E i \in DOMAIN held : held[i] = b
                    \/ \E r \in Live' : Bringing(r, b) \/ Cancelling(r, b)
    BY DEF AccountedInv, ActiveBooking, Bringing, Cancelling
<1>1. Ticketed \subseteq Ticketed'
    BY DEF Ticketed
<1>2. ActiveBooking(b) => \/ b \in orphans \cup Ticketed
                          \/ step \in {"hold", "confirm"} /\ \E i \in DOMAIN held : held[i] = b
                          \/ \E r \in Live : Bringing(r, b) \/ Cancelling(r, b)
    BY DEF AccountedInv, Bringing, Cancelling
<1> QED
    BY <1>1, <1>2 DEF ActiveBooking

\* The requests waited for, when one of all moves on or goes.
LEMMA LiveMoved ==
    ASSUME NEW r \in wire, NEW m, m.live = r.live,
           wire' \subseteq (wire \ {r}) \cup {m}, wire \ {r} \subseteq wire',
           r.live => m \in wire'
    PROVE  /\ Live' \subseteq Live \cup {m}
           /\ m \in Live' => r \in Live
           /\ r \in Live => m \in Live'
           /\ Live \ {r} \subseteq Live'
           /\ (\A p, q \in Live : p = q) => (\A p, q \in Live' : p = q)
BY DEF Live

\* A request moves on, and its booking with it if it has one.
LEMMA MoveKeeps ==
    ASSUME CoreInv, NEW r \in wire, NEW g \in {"run", "write", "store", "done"},
           NEW a \in Answer \cup {NoAnswer}, Becomes(r, g, a),
           Sound(a), g \in {"run", "write"} => a = NoAnswer,
           r.op # "hold" => g \in {"write", "done"}, r.op = "hold" => g # "write",
           r.op = "hold" => r.answer.booking \in {0, a.booking},
           UNCHANGED <<browser, issued, orphans, lost>>, again' \subseteq Booking,
           DOMAIN bookings' = DOMAIN bookings,
           bookings' \in Seq([trip : Trip, seat : Seat, status : Status]),
           \A b \in DOMAIN bookings :
               bookings'[b].status \in Active =>
                   \/ bookings[b].status \in Active
                   \/ b \in orphans
                   \/ step = "confirm" /\ \E i \in DOMAIN held : held[i] = b,
           r.op = "cancel" => g = "write" \/ bookings'[r.booking].status \notin Active,
           cache' \in [Seat -> Answer \cup {NoAnswer}], \A s \in Seat : Sound(cache'[s])
    PROVE  CoreInv'
<1> USE DEF CoreInv
<1> DEFINE m == Moved(r, g, a)
<1>1. /\ m \in Request /\ wire' \subseteq Request
      /\ wire' \subseteq (wire \ {r}) \cup {m} /\ wire \ {r} \subseteq wire'
      /\ r.live \/ g # "done" => m \in wire'
      /\ m.op = r.op /\ m.trip = r.trip /\ m.seat = r.seat
      /\ m.booking = r.booking /\ m.live = r.live
      /\ m.stage = g /\ m.answer = a
    BY MovedOn
<1> HIDE DEF m
<1>2. /\ Live' \subseteq Live \cup {m}
      /\ m \in Live' => r \in Live
      /\ r \in Live => m \in Live'
      /\ Live \ {r} \subseteq Live'
      /\ (\A p, q \in Live : p = q) => (\A p, q \in Live' : p = q)
    BY <1>1, LiveMoved
<1>3. Len(bookings') = Len(bookings)
    BY DEF TypeOK
<1>4. TypeOK'
    BY <1>1, <1>3 DEF TypeOK, browser
<1>5. WireInv'
  <2>1. \A q \in wire : Proper(q) => Proper(q)'
    BY DEF Proper, Sound
  <2>2. Proper(r)
    BY DEF WireInv
  <2>3. Proper(m)'
    BY <1>1, <2>2 DEF Proper, Sound
  <2>4. \A s \in Seat : Sound(cache[s])'
    BY DEF Sound
  <2> QED
    BY <1>1, <2>1, <2>3, <2>4 DEF WireInv
<1>6. WizardInv'
  <2>1. \A q \in Live' : \E p \in Live : q.op = p.op /\ q.booking = p.booking
    BY <1>1, <1>2
  <2> QED
    BY <1>2, <2>1, WizardKept
<1>7. GivenUpInv'
    BY <1>1 DEF GivenUpInv
<1>8. AccountedInv'
  <2>1. ASSUME NEW b \in DOMAIN bookings, NEW p \in Live, bookings'[b].status \in Active,
               Bringing(p, b) \/ Cancelling(p, b)
        PROVE  \E q \in Live' : Bringing(q, b) \/ Cancelling(q, b)
    <3>1. CASE p # r
        BY <1>2, <2>1, <3>1
    <3>2. CASE p = r
        <4>1. b # 0
            BY DEF TypeOK
        <4>2. CASE r.op = "hold"
            BY <1>1, <1>2, <2>1, <3>2, <4>1, <4>2 DEF Bringing, Cancelling
        <4>3. CASE r.op = "cancel"
            BY <1>1, <1>2, <2>1, <3>2, <4>3 DEF Bringing, Cancelling
        <4> QED
            BY <2>1, <3>2, <4>2, <4>3 DEF Bringing, Cancelling
    <3> QED
        BY <3>1, <3>2
  <2> QED
    BY <2>1, AccountedKept DEF browser
<1> QED
    BY <1>4, <1>5, <1>6, <1>7, <1>8

-----------------------------------------------------------------------------
(* The server.                                                             *)

LEMMA ElementOf == ASSUME NEW S, NEW q \in Seq(S), NEW i \in DOMAIN q PROVE q[i] \in S
OBVIOUS

LEMMA RowType ==
    ASSUME TypeOK, NEW b \in DOMAIN bookings
    PROVE  bookings[b] \in [trip : Trip, seat : Seat, status : Status]
<1>1. bookings \in Seq([trip : Trip, seat : Seat, status : Status])
    BY DEF TypeOK
<1> QED
    BY <1>1, ElementOf

LEMMA LookUpKeeps ==
    ASSUME CoreInv, NEW r \in wire, LookUp(r) PROVE CoreInv'
<1> USE DEF CoreInv
<1>1. /\ r \in Request /\ r.stage = "lookup" /\ r.op = "hold" /\ r.seat \in Seat
      /\ r.answer.booking = 0
    BY NoAnswerSound DEF LookUp, TypeOK, WireInv, Proper, Request
<1>2. UNCHANGED <<browser, bookings, cache, issued, orphans, lost>>
    BY DEF LookUp, server
<1>3. CASE cache[r.seat] # NoAnswer
  <2>1. /\ Becomes(r, "done", cache[r.seat])
        /\ again' = again \cup {b \in Ticketed : r.live /\ b = cache[r.seat].booking}
    BY <1>3 DEF LookUp
  <2>2. cache[r.seat] \in Answer \cup {NoAnswer} /\ Sound(cache[r.seat])
    BY <1>1 DEF TypeOK, WireInv, Proper
  <2>3. again' \subseteq Booking
    BY <2>1 DEF TypeOK, Ticketed
  <2> QED
    BY <1>1, <1>2, <2>1, <2>2, <2>3, MoveKeeps DEF TypeOK, WireInv, Proper
<1>4. CASE cache[r.seat] = NoAnswer
  <2>1. Becomes(r, "run", NoAnswer) /\ UNCHANGED again
    BY <1>4 DEF LookUp
  <2> QED
    BY <1>1, <1>2, <2>1, NoAnswerSound, MoveKeeps DEF TypeOK, WireInv, Proper
<1> QED
    BY <1>3, <1>4

LEMMA StoreKeeps ==
    ASSUME CoreInv, NEW r \in wire, Store(r) PROVE CoreInv'
<1> USE DEF CoreInv
<1>1. /\ r.stage = "store" /\ r.op = "hold" /\ r.seat \in Seat
      /\ r.answer \in Answer \cup {NoAnswer} /\ Sound(r.answer)
    BY DEF Store, TypeOK, WireInv, Proper, Request
<1>2. /\ cache' = [cache EXCEPT ![r.seat] = r.answer] /\ Becomes(r, "done", r.answer)
      /\ UNCHANGED <<browser, bookings, issued, again, orphans, lost>>
    BY DEF Store, Kept
<1>3. cache' \in [Seat -> Answer \cup {NoAnswer}] /\ \A s \in Seat : Sound(cache'[s])
    BY <1>1, <1>2 DEF TypeOK, WireInv, Proper
<1> QED
    BY <1>1, <1>2, <1>3, MoveKeeps DEF TypeOK

\* What the write of a status makes of the bookings.
LEMMA Settling ==
    ASSUME TypeOK, NEW b \in DOMAIN bookings, NEW x \in Status, SetStatus(b, x)
    PROVE  /\ bookings' \in Seq([trip : Trip, seat : Seat, status : Status])
           /\ DOMAIN bookings' = DOMAIN bookings
           /\ bookings'[b].status = x
           /\ \A c \in DOMAIN bookings :
                /\ bookings'[c].trip = bookings[c].trip /\ bookings'[c].seat = bookings[c].seat
                /\ c # b => bookings'[c] = bookings[c]
<1> DEFINE row == [bookings[b] EXCEPT !.status = x]
<1>6. bookings[b] \in [trip : Trip, seat : Seat, status : Status]
    BY RowType
<1>1. /\ row \in [trip : Trip, seat : Seat, status : Status] /\ row.status = x
      /\ row.trip = bookings[b].trip /\ row.seat = bookings[b].seat
    BY <1>6
<1>2. bookings' = [bookings EXCEPT ![b] = row]
    BY DEF SetStatus
<1> HIDE DEF row
<1>3. \A c \in DOMAIN bookings : bookings'[c] = IF c = b THEN row ELSE bookings[c]
    BY <1>2
<1>4. bookings' \in Seq([trip : Trip, seat : Seat, status : Status])
    BY <1>1, <1>2 DEF TypeOK
<1>5. DOMAIN bookings' = DOMAIN bookings
    BY <1>2
<1> QED
    BY <1>1, <1>3, <1>4, <1>5

\* Past its guard or refused, a request leaves the bookings as they are.
LEMMA GuardKeeps ==
    ASSUME CoreInv, NEW r \in wire, r.op \in {"confirm", "cancel"},
           NEW g \in {"write", "done"}, NEW a \in Answer \cup {NoAnswer}, Becomes(r, g, a),
           Sound(a), g = "write" => a = NoAnswer,
           r.op = "cancel" => g = "write" \/ bookings[r.booking].status \notin Active,
           UNCHANGED <<bookings, cache, browser, issued, again, orphans, lost>>
    PROVE  CoreInv'
BY MoveKeeps DEF CoreInv, TypeOK, WireInv

LEMMA GuardConfirmKeeps ==
    ASSUME CoreInv, NEW r \in wire, GuardConfirm(r) PROVE CoreInv'
<1>1. r.op = "confirm" /\ UNCHANGED <<bookings, cache, browser, issued, again, orphans, lost>>
    BY DEF GuardConfirm, server
<1>2. \/ Becomes(r, "write", NoAnswer) \/ Becomes(r, "done", Refused("PaymentDeclined"))
      \/ Becomes(r, "done", Refused("IllegalTransition"))
    BY DEF GuardConfirm
<1>3. CASE Becomes(r, "write", NoAnswer)
    BY <1>1, <1>3, NoAnswerSound, GuardKeeps
<1>4. ASSUME NEW e \in Refusal, Becomes(r, "done", Refused(e)) PROVE CoreInv'
    BY <1>1, <1>4, RefusedSound, GuardKeeps
<1> QED
    BY <1>2, <1>3, <1>4 DEF Refusal

LEMMA GuardCancelKeeps ==
    ASSUME CoreInv, NEW r \in wire, GuardCancel(r) PROVE CoreInv'
<1>1. r.op = "cancel" /\ UNCHANGED <<bookings, cache, browser, issued, again, orphans, lost>>
    BY DEF GuardCancel, server
<1>2. CASE Becomes(r, "write", NoAnswer)
    BY <1>1, <1>2, NoAnswerSound, GuardKeeps
<1>3. CASE ~CanApply(bookings[r.booking].status, "CANCEL")
           /\ Becomes(r, "done", Refused("IllegalTransition"))
  <2>1. r.booking \in DOMAIN bookings
    BY <1>1 DEF CoreInv, WireInv, Proper
  <2>2. bookings[r.booking].status \notin Active
    BY <1>3, <2>1, RowType, Transits DEF CoreInv
  <2> QED
    BY <1>1, <1>3, <2>2, RefusedSound, GuardKeeps DEF Refusal
<1> QED
    BY <1>2, <1>3 DEF GuardCancel

\* Late or not, a booking that is confirmed is the checkout's or given up.
LEMMA WriteConfirmKeeps ==
    ASSUME CoreInv, NEW r \in wire, WriteConfirm(r) PROVE CoreInv'
<1> USE DEF CoreInv
<1> DEFINE b == r.booking
           a == [code |-> 200, booking |-> b]
<1>1. /\ r.op = "confirm" /\ b \in DOMAIN bookings
      /\ UNCHANGED <<cache, browser, issued, again, orphans, lost>>
    BY DEF WriteConfirm, WireInv, Proper
<1>2. /\ cache' \in [Seat -> Answer \cup {NoAnswer}] /\ \A s \in Seat : Sound(cache'[s])
      /\ again' \subseteq Booking
    BY <1>1 DEF TypeOK, WireInv
<1>3. CASE SetStatus(b, "CONFIRMED") /\ Becomes(r, "done", a)
  <2>1. /\ bookings' \in Seq([trip : Trip, seat : Seat, status : Status])
        /\ DOMAIN bookings' = DOMAIN bookings
        /\ \A c \in DOMAIN bookings \ {b} : bookings'[c] = bookings[c]
    BY <1>1, <1>3, Settling DEF Status
  <2>2. a \in Answer \cup {NoAnswer} /\ Sound(a) /\ Becomes(r, "done", a)
    BY <1>1, <1>3, GoodSound
  <2> HIDE DEF a
  <2>3. b \in orphans \/ (step = "confirm" /\ \E i \in DOMAIN held : held[i] = b)
    <3>1. CASE ~r.live
        BY <1>1, <3>1 DEF GivenUpInv
    <3>2. CASE r.live
        <4>1. r \in Live
            BY <3>2 DEF Live
        <4>2. step = "confirm"
            BY <1>1, <4>1 DEF WizardInv, TypeOK
        <4>3. tickets + 1 \in DOMAIN held /\ b = held[tickets + 1]
            BY <4>1, <4>2 DEF WizardInv, TypeOK
        <4> QED
            BY <4>2, <4>3
    <3> QED
        BY <3>1, <3>2
  <2> QED
    BY <1>1, <1>2, <2>1, <2>2, <2>3, MoveKeeps
<1>4. CASE Becomes(r, "done", Failed) /\ UNCHANGED bookings
    BY <1>1, <1>4, FailedSound, GuardKeeps
<1> QED
    BY <1>3, <1>4 DEF WriteConfirm

LEMMA WriteCancelKeeps ==
    ASSUME CoreInv, NEW r \in wire, WriteCancel(r) PROVE CoreInv'
<1> USE DEF CoreInv
<1> DEFINE b == r.booking
           a == [code |-> 200, booking |-> b]
<1>1. /\ r.op = "cancel" /\ b \in DOMAIN bookings
      /\ UNCHANGED <<cache, browser, issued, again, orphans, lost>>
    BY DEF WriteCancel, WireInv, Proper
<1>2. /\ cache' \in [Seat -> Answer \cup {NoAnswer}] /\ \A s \in Seat : Sound(cache'[s])
      /\ again' \subseteq Booking
    BY <1>1 DEF TypeOK, WireInv
<1>3. /\ bookings' \in Seq([trip : Trip, seat : Seat, status : Status])
      /\ DOMAIN bookings' = DOMAIN bookings /\ bookings'[b].status \notin Active
      /\ \A c \in DOMAIN bookings \ {b} : bookings'[c] = bookings[c]
    BY <1>1, Settling DEF Status, Active, WriteCancel
<1>4. a \in Answer \cup {NoAnswer} /\ Sound(a) /\ Becomes(r, "done", a)
    BY <1>1, GoodSound DEF WriteCancel
<1> HIDE DEF a
<1> QED
    BY <1>1, <1>2, <1>3, <1>4, MoveKeeps

\* The new booking is the browser's if it still waits for it, and lost to it otherwise.
LEMMA HoldSeatKeeps ==
    ASSUME CoreInv, NEW r \in wire, HoldSeat(r) PROVE CoreInv'
<1> USE DEF CoreInv
<1>1. /\ r.op = "hold" /\ r.stage = "run" /\ r.answer.booking = 0
      /\ r.trip \in Trip /\ r.seat \in Seat
      /\ UNCHANGED <<cache, browser, issued, again, lost>>
    BY NoAnswerSound DEF HoldSeat, WireInv, Proper
<1>2. ASSUME NEW e \in Refusal, Becomes(r, "store", Refused(e)), UNCHANGED <<bookings, orphans>>
      PROVE  CoreInv'
    BY <1>1, <1>2, RefusedSound, MoveKeeps DEF TypeOK, WireInv, Proper
<1>4. ASSUME Becomes(r, "done", Failed), UNCHANGED <<bookings, orphans>>
      PROVE  CoreInv'
    BY <1>1, <1>4, FailedSound, MoveKeeps DEF TypeOK, WireInv, Proper
<1> DEFINE b == Len(bookings) + 1
           row == [trip |-> r.trip, seat |-> r.seat, status |-> "HELD"]
           a == [code |-> 201, booking |-> b]
           m == Moved(r, "store", a)
<1>3. ASSUME Len(bookings) < MaxBooking, bookings' = Append(bookings, row),
             Becomes(r, "store", a),
             orphans' = IF r.live THEN orphans ELSE orphans \cup {b}
      PROVE  CoreInv'
  <2>1. /\ bookings \in Seq([trip : Trip, seat : Seat, status : Status])
        /\ row \in [trip : Trip, seat : Seat, status : Status]
        /\ b \in Booking /\ b \in 0 .. MaxBooking /\ b = Len(bookings) + 1 /\ b \in Nat
    BY <1>1, <1>3, CheckoutAssumption DEF TypeOK, Booking, Status
  <2>2. a \in Answer /\ Succeeded(a) /\ a.booking = b
    BY <2>1 DEF Answer, Succeeded
  <2>3. /\ m \in Request /\ wire' \subseteq Request
        /\ wire' \subseteq (wire \ {r}) \cup {m} /\ wire \ {r} \subseteq wire' /\ m \in wire'
        /\ m.op = r.op /\ m.trip = r.trip /\ m.seat = r.seat
        /\ m.booking = r.booking /\ m.live = r.live
        /\ m.stage = "store" /\ m.answer = a
    BY <1>3, <2>2, MovedOn
  <2> HIDE DEF a, b, m, row
  <2>4. /\ Live' \subseteq Live \cup {m}
        /\ m \in Live' => r \in Live
        /\ r \in Live => m \in Live'
        /\ Live \ {r} \subseteq Live'
        /\ (\A p, q \in Live : p = q) => (\A p, q \in Live' : p = q)
    BY <2>3, LiveMoved
  <2>5. /\ bookings' \in Seq([trip : Trip, seat : Seat, status : Status])
        /\ Len(bookings') = b /\ DOMAIN bookings' = DOMAIN bookings \cup {b}
        /\ \A c \in DOMAIN bookings : bookings'[c] = bookings[c]
    <3>1. bookings' = Append(bookings, row)
        BY <1>3 DEF row, b
    <3>2. /\ bookings' \in Seq([trip : Trip, seat : Seat, status : Status])
          /\ Len(bookings') = b
        BY <2>1, <3>1
    <3>3. DOMAIN bookings' = DOMAIN bookings \cup {b}
        BY <2>1, <3>2
    <3>4. \A c \in DOMAIN bookings : bookings'[c] = bookings[c]
        BY <2>1, <3>1
    <3> QED
        BY <3>2, <3>3, <3>4
  <2>6. TypeOK'
    <3>1. orphans' \subseteq Booking
        BY <1>3, <2>1 DEF TypeOK
    <3>2. Len(bookings') <= MaxBooking
        BY <2>1, <2>5
    <3> QED
        BY <1>1, <2>3, <2>5, <3>1, <3>2 DEF TypeOK, browser
  <2>7. WireInv'
    BY <1>1, <2>2, <2>3, <2>5 DEF WireInv, Proper, Sound
  <2>8. WizardInv'
    <3>1. \A q \in Live' : \E p \in Live : q.op = p.op /\ q.booking = p.booking
        BY <2>3, <2>4
    <3> QED
        BY <1>1, <2>4, <2>5, <3>1, WizardKept
  <2>10. GivenUpInv'
    BY <1>1, <1>3, <2>3 DEF GivenUpInv
  <2>9. AccountedInv'
    <3> SUFFICES ASSUME NEW c \in DOMAIN bookings', bookings'[c].status \in Active
                 PROVE  \/ c \in orphans' \cup Ticketed
                        \/ step \in {"hold", "confirm"} /\ \E i \in DOMAIN held : held[i] = c
                        \/ \E p \in Live' : Bringing(p, c) \/ Cancelling(p, c)
        BY <1>1 DEF AccountedInv, ActiveBooking, browser, Ticketed, Bringing, Cancelling
    <3>1. CASE c = b
      <4>1. CASE r.live
        BY <1>1, <2>2, <2>3, <2>4, <3>1, <4>1 DEF Live, Bringing
      <4>2. CASE ~r.live
        BY <1>3, <3>1, <4>2
      <4> QED
        BY <4>1, <4>2
    <3>2. CASE c # b
      <4>1. c \in DOMAIN bookings /\ ActiveBooking(c) /\ c # 0 /\ orphans \subseteq orphans'
        BY <1>3, <2>5, <3>2 DEF ActiveBooking, TypeOK
      <4>2. ASSUME NEW p \in Live, Bringing(p, c) \/ Cancelling(p, c) PROVE p \in Live'
        BY <1>1, <2>4, <4>1, <4>2 DEF Bringing, Cancelling
      <4> QED
        BY <4>1, <4>2 DEF AccountedInv, Bringing, Cancelling
    <3> QED
        BY <3>1, <3>2
  <2> QED
    BY <2>6, <2>7, <2>8, <2>9, <2>10
<1> QED
    BY <1>2, <1>3, <1>4 DEF HoldSeat, Refusal

\* Late or not, a row that is retired is nobody's to answer for.
LEMMA ExpireRowKeeps ==
    ASSUME CoreInv, NEW b \in DOMAIN bookings, ExpireRow(b) PROVE CoreInv'
<1> USE DEF CoreInv
<1>1. UNCHANGED <<cache, wire, browser, issued, again, orphans, lost>>
    BY DEF ExpireRow
<1>2. /\ bookings' \in Seq([trip : Trip, seat : Seat, status : Status])
      /\ DOMAIN bookings' = DOMAIN bookings
      /\ bookings'[b].status \notin Active
      /\ \A c \in DOMAIN bookings \ {b} : bookings'[c] = bookings[c]
    BY Settling DEF ExpireRow, Active, Status
<1>3. Len(bookings') = Len(bookings)
    BY <1>2 DEF TypeOK
<1>4. TypeOK'
    BY <1>1, <1>2, <1>3 DEF TypeOK, browser
<1>5. WireInv'
    BY <1>1, <1>2 DEF WireInv, Proper, Sound
<1>6. WizardInv' /\ GivenUpInv'
    BY <1>1, <1>2, WizardKept DEF Live, GivenUpInv
<1>7. AccountedInv'
    BY <1>1, <1>2, AccountedKept DEF Live, browser
<1> QED
    BY <1>4, <1>5, <1>6, <1>7

-----------------------------------------------------------------------------
(* The browser.                                                            *)

\* What changes no more than the cart and the train.
LEMMA SameCheckout ==
    ASSUME CoreInv, UNCHANGED <<bookings, cache, wire, step, seatIds, held, tickets,
                                conflict, issued, again, orphans, lost>>,
           train' \in Trip \cup {NoTrip}, cart' \subseteq Seat, IsFiniteSet(cart'),
           cart' # {} => train' \in Trip
    PROVE  CoreInv'
<1> USE DEF CoreInv
<1>1. TypeOK'
    BY DEF TypeOK
<1>2. WireInv'
    BY DEF WireInv, Proper, Sound
<1>3. WizardInv'
    BY DEF WizardInv, Live
<1>4. GivenUpInv' /\ AccountedInv'
    BY DEF GivenUpInv, AccountedInv, ActiveBooking, Live, Ticketed
<1> QED
    BY <1>1, <1>2, <1>3, <1>4

LEMMA ChooseKeeps ==
    ASSUME CoreInv, NEW t \in Trip, NEW c \in Carts, Choose(t, c) PROVE CoreInv'
<1>1. c \subseteq Seat /\ IsFiniteSet(c)
    BY DEF Carts
<1> QED
    BY <1>1, SameCheckout DEF Choose, server

LEMMA HomeKeeps == ASSUME CoreInv, Home PROVE CoreInv'
BY FS_EmptySet, SameCheckout DEF Home, server

\* The seats of a cart in some order are a sequence without repetitions.
LEMMA OrdersOf ==
    ASSUME NEW S, IsFiniteSet(S), S # {}, NEW q \in Orders(S)
    PROVE  /\ q \in Seq(S) /\ Len(q) > 0
           /\ \A i, j \in DOMAIN q : q[i] = q[j] => i = j
<1> DEFINE n == Cardinality(S)
<1>1. n \in Nat /\ n # 0
    BY FS_CardinalityType, FS_EmptySet
<1>2. q \in [1 .. n -> S] /\ \A i, j \in DOMAIN q : q[i] = q[j] => i = j
    BY DEF Orders
<1> HIDE DEF n
<1> QED
    BY <1>1, <1>2

LEMMA PayKeeps == ASSUME CoreInv, Pay PROVE CoreInv'
<1> USE DEF CoreInv
<1>1. /\ step = "choosing" /\ cart # {} /\ step' = "hold" /\ seatIds' \in Orders(cart)
      /\ UNCHANGED <<server, wire, train, cart, held, tickets, conflict, issued, again,
                     orphans, lost>>
    BY DEF Pay
<1>2. Live = {} /\ Live' = {} /\ held = <<>> /\ tickets = 0
    BY <1>1 DEF WizardInv, Live
<1>3. /\ seatIds' \in Seq(Seat) /\ Len(seatIds') > 0
      /\ \A i, j \in DOMAIN seatIds' : seatIds'[i] = seatIds'[j] => i = j
  <2>1. cart \subseteq Seat /\ IsFiniteSet(cart)
    BY DEF TypeOK, WizardInv
  <2>2. /\ seatIds' \in Seq(cart) /\ Len(seatIds') > 0
        /\ \A i, j \in DOMAIN seatIds' : seatIds'[i] = seatIds'[j] => i = j
    BY <1>1, <2>1, OrdersOf
  <2> QED
    BY <2>1, <2>2
<1>4. TypeOK'
    BY <1>1, <1>3 DEF TypeOK, server
<1>5. WireInv'
    BY <1>1 DEF WireInv, Proper, Sound, server
<1>6. WizardInv'
  <2>1. Len(held) < Len(seatIds')
    BY <1>2, <1>3
  <2> QED
    BY <1>1, <1>2, <1>3, <2>1 DEF WizardInv, server
<1>7. GivenUpInv' /\ AccountedInv'
    BY <1>1, <1>2 DEF GivenUpInv, AccountedInv, ActiveBooking, server, Ticketed
<1> QED
    BY <1>4, <1>5, <1>6, <1>7

\* A cancellation of everything held takes over what the wizard answers for.
LEMMA ReleaseAllKeeps ==
    ASSUME CoreInv, step \in {"hold", "confirm"}, NEW others, NEW c \in BOOLEAN,
           ReleaseAll(others, c), others \subseteq Request,
           \A r \in others : /\ Proper(r) /\ ~r.live
                             /\ r.op # "hold" => r.booking \in orphans',
           UNCHANGED <<server, issued, again>>,
           orphans \subseteq orphans', orphans' \subseteq Booking, lost' \in 0 .. MaxLost,
           \A r \in Live : r.op = "hold" => r.answer.booking \in {0} \cup orphans'
    PROVE  CoreInv'
<1> USE DEF CoreInv
<1> DEFINE mine == {RequestAbout("cancel", b) : b \in ToRelease}
<1>1. /\ step' = "release" /\ conflict' = c /\ wire' = others \cup mine
      /\ UNCHANGED <<train, cart, seatIds, held, tickets>>
      /\ UNCHANGED <<bookings, cache, issued, again>>
    BY DEF ReleaseAll, server
<1>2. ASSUME NEW b \in ToRelease
      PROVE  LET q == RequestAbout("cancel", b)
             IN  /\ q \in Request /\ Proper(q) /\ q.live /\ q.op = "cancel"
                 /\ q.stage = "run" /\ q.booking = b
  <2>1. b \in DOMAIN bookings
    BY DEF ToRelease, WizardInv
  <2>2. b \in 0 .. MaxBooking /\ lost \in 0 .. MaxLost
    BY <2>1, CheckoutAssumption DEF TypeOK
  <2> QED
    BY <2>1, <2>2, NoAnswerSound DEF RequestAbout, Request, Proper
<1>3. \A q \in mine : /\ q \in Request /\ Proper(q) /\ q.op = "cancel" /\ q.live
                      /\ \E i \in DOMAIN held : held[i] = q.booking
    BY <1>2 DEF ToRelease
<1>4. \A i \in DOMAIN held : \E q \in mine : q.live /\ Cancelling(q, held[i])
    BY <1>2 DEF ToRelease, Cancelling
<1> HIDE DEF mine
<1>5. TypeOK'
    BY <1>1, <1>3 DEF TypeOK
<1>6. WireInv'
    BY <1>1, <1>3 DEF WireInv, Proper, Sound
<1>7. WizardInv'
    BY <1>1, <1>3 DEF WizardInv, Live
<1>8. GivenUpInv'
    BY <1>1, <1>3 DEF GivenUpInv
<1>9. AccountedInv'
  <2> SUFFICES ASSUME NEW b \in DOMAIN bookings, ActiveBooking(b)
               PROVE  \/ b \in orphans' \cup Ticketed
                      \/ \E r \in Live' : Cancelling(r, b)
    BY <1>1 DEF AccountedInv, ActiveBooking, Ticketed, Cancelling
  <2>1. b # 0
    BY DEF TypeOK
  <2>2. \A r \in Live : r.op # "cancel"
    BY DEF WizardInv
  <2>3. CASE \E i \in DOMAIN held : held[i] = b
    BY <1>1, <1>4, <2>3 DEF Live
  <2> QED
    BY <2>1, <2>2, <2>3 DEF AccountedInv
<1> QED
    BY <1>5, <1>6, <1>7, <1>8, <1>9

\* The one request waited for is sent.
LEMMA SendKeeps ==
    ASSUME CoreInv, Live = {}, NEW q \in Request, wire' = wire \cup {q}, Proper(q), q.live,
           step = "hold" => q.op = "hold",
           step = "confirm" => q.op = "confirm" /\ q.booking = held[tickets + 1],
           step \in {"hold", "confirm"},
           UNCHANGED <<server, browser, issued, again, orphans, lost>>
    PROVE  CoreInv'
<1> USE DEF CoreInv
<1>1. Live' \subseteq {q}
    BY DEF Live
<1>2. TypeOK'
    BY DEF TypeOK, server, browser
<1>3. WireInv'
    BY DEF WireInv, Proper, Sound, server
<1>4. WizardInv'
    BY <1>1 DEF WizardInv, server, browser
<1>5. GivenUpInv' /\ AccountedInv'
    BY DEF GivenUpInv, AccountedInv, ActiveBooking, server, browser, Ticketed
<1> QED
    BY <1>2, <1>3, <1>4, <1>5

LEMMA SendHoldKeeps == ASSUME CoreInv, SendHold PROVE CoreInv'
<1> USE DEF CoreInv
<1> DEFINE s == seatIds[Len(held) + 1]
           q == HoldRequest(s)
<1>1. step = "hold" /\ Live = {} /\ UNCHANGED <<server, issued, again, orphans, lost>>
    BY DEF SendHold
<1>2. ASSUME ReleaseAll(wire, FALSE) PROVE CoreInv'
  <2>1. /\ wire \subseteq Request
        /\ \A r \in wire : /\ Proper(r) /\ ~r.live
                           /\ r.op # "hold" => r.booking \in orphans'
    BY <1>1 DEF TypeOK, WireInv, Live, GivenUpInv
  <2> QED
    BY <1>1, <1>2, <2>1, ReleaseAllKeeps DEF TypeOK
<1>3. ASSUME train # NoTrip, wire' = wire \cup {q}, UNCHANGED browser PROVE CoreInv'
  <2>1. s \in Seat
    BY <1>1 DEF TypeOK, WizardInv
  <2>2. 0 \in 0 .. MaxBooking /\ train \in Trip /\ lost \in 0 .. MaxLost
    BY <1>3, CheckoutAssumption DEF TypeOK
  <2> HIDE DEF s
  <2>3. q \in Request /\ q.op = "hold" /\ Proper(q) /\ q.live
    BY <2>1, <2>2, NoAnswerSound DEF HoldRequest, Request, Proper
  <2> HIDE DEF q
  <2> QED
    BY <1>1, <1>3, <2>3, SendKeeps
<1> QED
    BY <1>2, <1>3 DEF SendHold, StillChosen

LEMMA SendConfirmKeeps == ASSUME CoreInv, SendConfirm PROVE CoreInv'
<1> USE DEF CoreInv
<1> DEFINE b == held[tickets + 1]
           q == RequestAbout("confirm", b)
<1>1. /\ step = "confirm" /\ Live = {} /\ wire' = wire \cup {q}
      /\ UNCHANGED <<server, browser, issued, again, orphans, lost>>
    BY DEF SendConfirm
<1>2. b \in DOMAIN bookings
    BY <1>1 DEF TypeOK, WizardInv
<1>3. b \in 0 .. MaxBooking /\ lost \in 0 .. MaxLost
    BY <1>2, CheckoutAssumption DEF TypeOK
<1>4. q \in Request /\ q.op = "confirm" /\ q.booking = b /\ Proper(q) /\ q.live
    BY <1>2, <1>3, NoAnswerSound DEF RequestAbout, Request, Proper
<1> HIDE DEF q
<1> QED
    BY <1>1, <1>4, SendKeeps

\* The answer waited for is about the last booking, or everything is released.
LEMMA TakeHoldKeeps == ASSUME CoreInv, NEW r \in wire, TakeHold(r) PROVE CoreInv'
<1> USE DEF CoreInv
<1>1. /\ step = "hold" /\ r \in Live /\ r.op = "hold"
      /\ UNCHANGED <<server, issued, again, orphans, lost>>
      /\ r \in Request /\ Proper(r)
    BY DEF TakeHold, TypeOK, WireInv
<1>2. Live = {r} /\ tickets = 0 /\ Len(held) < Len(seatIds)
    BY <1>1 DEF WizardInv
<1> DEFINE b == r.answer.booking
<1>3. ASSUME Succeeded(r.answer), wire' = wire \ {r}, held' = Append(held, b),
             step' = IF Len(held') = Len(seatIds) THEN "confirm" ELSE "hold",
             UNCHANGED <<train, cart, seatIds, tickets, conflict>>
      PROVE  CoreInv'
  <2>1. b \in DOMAIN bookings
    BY <1>1, <1>3 DEF Proper, Sound
  <2>2. b \in Booking
    BY <2>1, CheckoutAssumption DEF TypeOK, Booking
  <2> HIDE DEF b
  <2>3. held \in Seq(Booking) /\ seatIds \in Seq(Seat) /\ held' \in Seq(Booking)
    BY <1>3, <2>2 DEF TypeOK
  <2>4. /\ Len(held') = Len(held) + 1 /\ held'[Len(held) + 1] = b
        /\ Len(held) + 1 \in DOMAIN held'
    BY <1>3, <2>2, <2>3
  <2>5. \A i \in DOMAIN held : i \in DOMAIN held' /\ held'[i] = held[i]
    BY <1>3, <2>2, <2>3
  <2>6. \A i \in DOMAIN held' : held'[i] \in DOMAIN bookings
    <3> TAKE i \in DOMAIN held'
    <3>1. i = Len(held) + 1 \/ i \in DOMAIN held
        BY <2>3, <2>4
    <3> QED
        BY <2>1, <2>4, <2>5, <3>1 DEF WizardInv
  <2>7. Live' = {}
    BY <1>2, <1>3 DEF Live
  <2>8. TypeOK'
    <3>1. tickets' \in 0 .. Len(held')
        BY <1>2, <1>3, <2>3, <2>4
    <3> QED
        BY <1>1, <1>3, <2>3, <3>1 DEF TypeOK, server
  <2>9. WireInv'
    BY <1>1, <1>3 DEF WireInv, Proper, Sound, server
  <2>10. Len(held') <= Len(seatIds)
    BY <1>2, <2>3, <2>4
  <2>11. step' = "hold" => Len(held') < Len(seatIds)
    BY <1>3, <2>3, <2>10
  <2>12. step' = "confirm" => tickets < Len(held') /\ Len(held') = Len(seatIds)
    BY <1>2, <1>3, <2>3, <2>4
  <2>13. WizardInv'
    BY <1>1, <1>2, <1>3, <2>6, <2>7, <2>11, <2>12 DEF WizardInv, server
  <2>14. GivenUpInv'
    BY <1>1, <1>3 DEF GivenUpInv
  <2>15. AccountedInv'
    <3> SUFFICES ASSUME NEW c \in DOMAIN bookings, ActiveBooking(c),
                        c \notin orphans \cup Ticketed
                 PROVE  \E i \in DOMAIN held' : held'[i] = c
        BY <1>1, <1>3 DEF AccountedInv, ActiveBooking, server, Ticketed
    <3>1. (\E i \in DOMAIN held : held[i] = c) \/ c = b
        BY <1>1, <1>2 DEF AccountedInv, b
    <3> QED
        BY <2>4, <2>5, <3>1
  <2> QED
    BY <2>8, <2>9, <2>13, <2>14, <2>15
<1>4. ASSUME ~Succeeded(r.answer), ReleaseAll(wire \ {r}, Conflict(r.answer)) PROVE CoreInv'
  <2>1. b = 0
    BY <1>1, <1>4 DEF Proper, Sound
  <2>2. /\ wire \ {r} \subseteq Request
        /\ \A q \in wire \ {r} : /\ Proper(q) /\ ~q.live
                                 /\ q.op # "hold" => q.booking \in orphans'
    BY <1>1, <1>2 DEF TypeOK, WireInv, Live, GivenUpInv
  <2>3. Conflict(r.answer) \in BOOLEAN
    BY DEF Conflict
  <2> QED
    BY <1>1, <1>2, <1>4, <2>1, <2>2, <2>3, ReleaseAllKeeps DEF TypeOK
<1> QED
    BY <1>3, <1>4 DEF TakeHold

LEMMA TakeConfirmKeeps == ASSUME CoreInv, NEW r \in wire, TakeConfirm(r) PROVE CoreInv'
<1> USE DEF CoreInv
<1>1. /\ step = "confirm" /\ r \in Live /\ r.op = "confirm"
      /\ UNCHANGED <<server, again, orphans, lost>>
    BY DEF TakeConfirm
<1>2. Live = {r} /\ tickets < Len(held) /\ Len(held) = Len(seatIds)
    BY <1>1 DEF WizardInv
<1>3. CASE UNCHANGED issued /\ ReleaseAll(wire \ {r}, FALSE)
  <2>1. /\ wire \ {r} \subseteq Request
        /\ \A q \in wire \ {r} : /\ Proper(q) /\ ~q.live
                                 /\ q.op # "hold" => q.booking \in orphans'
    BY <1>1, <1>2 DEF TypeOK, WireInv, Live, GivenUpInv
  <2> QED
    BY <1>1, <1>2, <1>3, <2>1, ReleaseAllKeeps DEF TypeOK
<1>4. ASSUME wire' = wire \ {r}, UNCHANGED conflict,
             \/ /\ tickets + 1 < Len(held)
                /\ tickets' = tickets + 1
                /\ UNCHANGED <<step, train, cart, seatIds, held, issued>>
             \/ /\ issued' = issued \cup Tickets
                /\ step' = "choosing" /\ train' = NoTrip /\ cart' = {}
                /\ seatIds' = <<>> /\ held' = <<>> /\ tickets' = 0
      PROVE  CoreInv'
  <2>1. Live' = {}
    BY <1>2, <1>4 DEF Live
  <2>2. WireInv' /\ GivenUpInv'
    BY <1>1, <1>4 DEF WireInv, Proper, Sound, server, GivenUpInv
  <2>3. CASE /\ tickets + 1 < Len(held) /\ tickets' = tickets + 1
             /\ UNCHANGED <<step, train, cart, seatIds, held, issued>>
    <3>1. tickets' \in 0 .. Len(held)
        BY <2>3 DEF TypeOK
    <3>2. TypeOK'
        BY <1>1, <1>4, <2>3, <3>1 DEF TypeOK, server
    <3>3. WizardInv'
        BY <1>1, <1>2, <1>4, <2>1, <2>3 DEF WizardInv, server
    <3>4. AccountedInv'
        BY <1>1, <1>2, <2>3 DEF AccountedInv, ActiveBooking, server, Ticketed
    <3> QED
        BY <2>2, <3>2, <3>3, <3>4
  <2>4. CASE /\ issued' = issued \cup Tickets
             /\ step' = "choosing" /\ train' = NoTrip /\ cart' = {}
             /\ seatIds' = <<>> /\ held' = <<>> /\ tickets' = 0
    <3>1. Tickets \subseteq [booking : Booking, seat : Seat]
      <4>1. \A i \in DOMAIN held : held[i] \in Booking /\ seatIds[i] \in Seat
        BY <1>2 DEF TypeOK
      <4> QED
        BY <4>1 DEF Tickets
    <3>2. /\ <<>> \in Seq(Seat) /\ <<>> \in Seq(Booking) /\ 0 \in 0 .. Len(<<>>)
          /\ \A i, j \in DOMAIN <<>> : <<>>[i] = <<>>[j] => i = j
        OBVIOUS
    <3>3. TypeOK'
        BY <1>1, <1>4, <2>4, <3>1, <3>2 DEF TypeOK, server
    <3>4. WizardInv'
        BY <1>1, <2>1, <2>4, FS_EmptySet DEF WizardInv, server
    <3>5. \A i \in DOMAIN held : held[i] \in Ticketed'
      <4> TAKE i \in DOMAIN held
      <4>1. [booking |-> held[i], seat |-> seatIds[i]] \in issued'
        BY <2>4 DEF Tickets
      <4> QED
        BY <4>1 DEF Ticketed
    <3>6. Ticketed \subseteq Ticketed'
        BY <2>4 DEF Ticketed
    <3>7. AccountedInv'
        BY <1>1, <1>2, <2>4, <3>5, <3>6 DEF AccountedInv, ActiveBooking, server
    <3> QED
        BY <2>2, <3>3, <3>4, <3>7
  <2> QED
    BY <1>4, <2>3, <2>4
<1> QED
    BY <1>3, <1>4 DEF TakeConfirm

\* A cancellation that was answered is over.
LEMMA TakeCancelKeeps == ASSUME CoreInv, NEW r \in wire, TakeCancel(r) PROVE CoreInv'
<1> USE DEF CoreInv
<1>1. /\ r.op = "cancel" /\ r.stage = "done" /\ wire' = wire \ {r}
      /\ UNCHANGED <<server, browser, issued, again, orphans, lost>>
    BY DEF TakeCancel, WizardInv, Settled
<1>2. TypeOK'
    BY <1>1 DEF TypeOK, server, browser
<1>3. WireInv' /\ GivenUpInv'
    BY <1>1 DEF WireInv, Proper, Sound, server, GivenUpInv
<1>4. WizardInv'
    BY <1>1, WizardKept DEF Live, server
<1>5. AccountedInv'
    BY <1>1, AccountedKept DEF Live, server, browser, Bringing, Cancelling
<1> QED
    BY <1>2, <1>3, <1>4, <1>5

LEMMA ReleasedKeeps == ASSUME CoreInv, Released PROVE CoreInv'
<1> USE DEF CoreInv
<1>1. /\ step = "release" /\ Live = {} /\ step' = "choosing"
      /\ cart' \subseteq cart
      /\ seatIds' = <<>> /\ held' = <<>> /\ tickets' = 0 /\ conflict' = FALSE
      /\ UNCHANGED <<server, wire, train, issued, again, orphans, lost>>
    BY DEF Released
<1>2. /\ <<>> \in Seq(Seat) /\ <<>> \in Seq(Booking) /\ 0 \in 0 .. Len(<<>>)
      /\ \A i, j \in DOMAIN <<>> : <<>>[i] = <<>>[j] => i = j
    OBVIOUS
<1>3. TypeOK'
    BY <1>1, <1>2 DEF TypeOK, server
<1>4. WireInv' /\ GivenUpInv'
    BY <1>1 DEF WireInv, Proper, Sound, server, GivenUpInv
<1>5. WizardInv'
  <2>1. IsFiniteSet(cart')
    BY <1>1, FS_Subset DEF WizardInv
  <2> QED
    BY <1>1, <2>1 DEF WizardInv, Live, server
<1>6. AccountedInv'
    BY <1>1 DEF AccountedInv, ActiveBooking, server, Ticketed
<1> QED
    BY <1>3, <1>4, <1>5, <1>6

-----------------------------------------------------------------------------
(* The network.                                                            *)

\* What is left of the requests when the browser gives up on one of them.
Abandoned(r) == [r EXCEPT !.live = FALSE]
Others(r) == (wire \ {r}) \cup {q \in {Abandoned(r)} : q.stage # "done"}

LEMMA GivenUp ==
    ASSUME CoreInv, NEW r \in Live
    PROVE  LET m == Abandoned(r)
           IN  /\ m \in Request /\ ~m.live /\ Proper(m) /\ m.booking = r.booking
               /\ m.op = r.op /\ m.seat = r.seat /\ m.answer = r.answer /\ m.stage = r.stage
               /\ Others(r) \subseteq (wire \ {r}) \cup {m} /\ wire \ {r} \subseteq Others(r)
               /\ r.stage # "done" => m \in Others(r)
               /\ Others(r) \subseteq Request /\ \A q \in Others(r) : Proper(q)
<1> USE DEF CoreInv
<1> DEFINE m == Abandoned(r)
<1>1. r \in Request /\ Proper(r) /\ r \in wire
    BY DEF TypeOK, WireInv, Live
<1>2. /\ m \in Request /\ ~m.live /\ Proper(m) /\ m.booking = r.booking
      /\ m.op = r.op /\ m.seat = r.seat /\ m.answer = r.answer /\ m.stage = r.stage
    BY <1>1 DEF Request, Proper, Abandoned
<1> HIDE DEF m
<1>3. /\ Others(r) \subseteq (wire \ {r}) \cup {m} /\ wire \ {r} \subseteq Others(r)
      /\ r.stage # "done" => m \in Others(r)
    BY <1>2 DEF Others, m
<1>4. Others(r) \subseteq Request /\ \A q \in Others(r) : Proper(q)
    BY <1>2, <1>3 DEF TypeOK, WireInv
<1> QED
    BY <1>2, <1>3, <1>4 DEF m

\* A lost answer makes an orphan of its booking.
LEMMA LoseKeeps == ASSUME CoreInv, NEW r \in wire, Lose(r) PROVE CoreInv'
<1> USE DEF CoreInv
<1> DEFINE others == Others(r)
           m == Abandoned(r)
<1>1. /\ r \in Live /\ r.live /\ r \in Request /\ Proper(r) /\ lost' \in 0 .. MaxLost
      /\ orphans' = orphans \cup LeftOpen(r)
      /\ \/ r.op # "cancel" /\ ReleaseAll(others, FALSE)
         \/ r.op = "cancel" /\ wire' = others /\ UNCHANGED browser
      /\ UNCHANGED <<server, issued, again>>
  <2>1. /\ r \in Live /\ lost < MaxLost /\ lost' = lost + 1
        /\ orphans' = orphans \cup LeftOpen(r)
        /\ \/ r.op # "cancel" /\ ReleaseAll(others, FALSE)
           \/ r.op = "cancel" /\ wire' = others /\ UNCHANGED browser
        /\ UNCHANGED <<server, issued, again>>
    BY DEF Lose, Others, Abandoned
  <2>2. lost' \in 0 .. MaxLost
    BY <2>1, CheckoutAssumption DEF TypeOK
  <2>3. r.live /\ r \in Request /\ Proper(r)
    BY <2>1 DEF TypeOK, WireInv, Live
  <2> QED
    BY <2>1, <2>2, <2>3
<1>2. /\ m \in Request /\ ~m.live /\ Proper(m) /\ m.booking = r.booking
      /\ m.op = r.op
      /\ others \subseteq (wire \ {r}) \cup {m} /\ wire \ {r} \subseteq others
      /\ others \subseteq Request /\ \A q \in others : Proper(q)
    BY <1>1, GivenUp
<1> HIDE DEF m, others
<1>3. LeftOpen(r) \subseteq Booking /\ (r.op # "hold" => r.booking \in LeftOpen(r))
  <2>1. r.answer.booking \in 0 .. MaxBooking /\ r.booking \in 0 .. MaxBooking
    BY <1>1, NoAnswerSound, CheckoutAssumption DEF Request, Answer
  <2>2. r.op # "hold" => r.booking # 0
    BY <1>1 DEF Proper, TypeOK
  <2> QED
    BY <2>1, <2>2, CheckoutAssumption DEF LeftOpen, Booking
<1>4. orphans' \subseteq Booking /\ orphans \subseteq orphans'
    BY <1>1, <1>3 DEF TypeOK
<1>5. \A q \in others : ~q.live /\ q.op # "hold" => q.booking \in orphans'
    BY <1>1, <1>2, <1>3 DEF GivenUpInv
<1>6. CASE r.op # "cancel"
  <2>1. step \in {"hold", "confirm"} /\ Live = {r}
    BY <1>1, <1>6 DEF TypeOK, WizardInv
  <2>2. \A q \in others : ~q.live
    BY <1>2, <2>1 DEF Live
  <2>3. \A q \in Live : q.op = "hold" => q.answer.booking \in {0} \cup orphans'
    BY <1>1, <2>1 DEF LeftOpen
  <2>4. ReleaseAll(others, FALSE)
    BY <1>1, <1>6
  <2> QED
    BY <1>1, <1>2, <1>4, <1>5, <2>1, <2>2, <2>3, <2>4, ReleaseAllKeeps
<1>7. CASE r.op = "cancel"
  <2>1. step = "release" /\ wire' = others /\ UNCHANGED browser
    BY <1>1, <1>7 DEF TypeOK, WizardInv
  <2>2. Live' = Live \ {r}
    BY <1>2, <2>1 DEF Live
  <2>3. TypeOK'
    BY <1>1, <1>2, <1>4, <2>1 DEF TypeOK, server, browser
  <2>4. WireInv' /\ GivenUpInv'
    BY <1>1, <1>2, <1>5, <2>1 DEF WireInv, Proper, Sound, server, GivenUpInv
  <2>5. WizardInv'
    BY <1>1, <2>1, <2>2, WizardKept DEF server
  <2>6. AccountedInv'
    BY <1>1, <1>3, <1>4, <1>7, <2>1, <2>2, AccountedKept
       DEF server, browser, Bringing, Cancelling
  <2> QED
    BY <2>3, <2>4, <2>5, <2>6
<1> QED
    BY <1>6, <1>7

-----------------------------------------------------------------------------
LEMMA InitHolds == Init => CoreInv
<1> SUFFICES ASSUME Init PROVE CoreInv
    OBVIOUS
<1>1. TypeOK
  <2>1. /\ <<>> \in Seq([trip : Trip, seat : Seat, status : Status]) /\ Len(<<>>) = 0
        /\ <<>> \in Seq(Seat) /\ <<>> \in Seq(Booking)
    OBVIOUS
  <2>2. 0 <= MaxBooking /\ 0 \in 0 .. 0 /\ 0 \in 0 .. MaxLost
    BY CheckoutAssumption
  <2>3. [s \in Seat |-> NoAnswer] \in [Seat -> Answer \cup {NoAnswer}]
    OBVIOUS
  <2> QED
    BY <2>1, <2>2, <2>3 DEF Init, TypeOK
<1>2. WireInv /\ WizardInv /\ GivenUpInv /\ AccountedInv
    BY NoAnswerSound, FS_EmptySet DEF Init, WireInv, WizardInv, GivenUpInv, AccountedInv, Live
<1> QED
    BY <1>1, <1>2 DEF CoreInv

LEMMA NextKeeps == CoreInv /\ [Next]_vars => CoreInv'
<1> SUFFICES ASSUME CoreInv, [Next]_vars PROVE CoreInv'
    OBVIOUS
<1>1. CASE Continue
    BY <1>1, SendHoldKeeps, SendConfirmKeeps, ReleasedKeeps, TakeHoldKeeps,
       TakeConfirmKeeps, TakeCancelKeeps DEF Continue
<1>2. CASE Pay \/ Home
    BY <1>2, PayKeeps, HomeKeeps
<1>3. ASSUME NEW t \in Trip, NEW c \in Carts, Choose(t, c) PROVE CoreInv'
    BY <1>3, ChooseKeeps
<1>4. ASSUME NEW r \in wire, Serve(r) PROVE CoreInv'
    BY <1>4, LookUpKeeps, HoldSeatKeeps, StoreKeeps, GuardConfirmKeeps, WriteConfirmKeeps,
       GuardCancelKeeps, WriteCancelKeeps DEF Serve
<1>5. ASSUME NEW r \in wire, Lose(r) PROVE CoreInv'
    BY <1>5, LoseKeeps
<1>6. ASSUME NEW b \in DOMAIN bookings, ExpireRow(b) PROVE CoreInv'
    BY <1>6, ExpireRowKeeps
<1>7. CASE UNCHANGED vars
  <2>1. UNCHANGED <<bookings, cache, wire, step, train, cart, seatIds, held, tickets,
                    conflict, issued, again, orphans, lost>>
    BY <1>7 DEF vars
  <2> QED
    BY <2>1, SameCheckout DEF CoreInv, TypeOK, WizardInv
<1> QED
    BY <1>1, <1>2, <1>3, <1>4, <1>5, <1>6, <1>7 DEF Next

\* The invariant of the checkout, for every number of trains, seats, bookings and losses:
\* what the wizard awaits, and who answers for every seat taken, with the writes of
\* confirm_booking, cancel_booking and expire_due as late as they like.
THEOREM CheckoutInductive == Spec => []CoreInv
<1>1. Init => CoreInv
    BY InitHolds
<1>2. CoreInv /\ [Next]_vars => CoreInv'
    BY NextKeeps
<1> QED
    BY <1>1, <1>2, PTL DEF Spec

\* BookingWizard.svelte: "all-or-nothing for the group".  Whatever was refused, declined,
\* replayed from the cache, retired or lost on the way, and whatever is written late, a
\* checkout that is over leaves no seat behind that is not on a ticket shown, unless an
\* answer about it was lost.
THEOREM CheckoutStrandsNothing == Spec => []NothingStranded
<1>1. CoreInv => NothingStranded
    BY DEF CoreInv, AccountedInv, WizardInv, NothingStranded
<1> QED
    BY <1>1, CheckoutInductive, PTL

-----------------------------------------------------------------------------
(* The key of a hold.                                                      *)

\* One element of a finite set gives way to another, or is gone.
LEMMA Swapped ==
    ASSUME NEW S, IsFiniteSet(S), NEW r, NEW m, NEW T, T \subseteq (S \ {r}) \cup {m}
    PROVE  /\ IsFiniteSet(T) /\ Cardinality(T) \in Nat /\ Cardinality(S) \in Nat
           /\ Cardinality(T) <= Cardinality(S) + 1
           /\ r \in S \/ m \notin T => Cardinality(T) <= Cardinality(S)
           /\ r \in S /\ m \notin T => Cardinality(T) <= Cardinality(S) - 1
<1> DEFINE R == S \ {r}
<1>1. /\ IsFiniteSet(R)
      /\ Cardinality(R) = IF r \in S THEN Cardinality(S) - 1 ELSE Cardinality(S)
    BY FS_RemoveElement
<1>2. Cardinality(S) \in Nat /\ Cardinality(R) \in Nat
    BY <1>1, FS_CardinalityType
<1>3. /\ IsFiniteSet(R \cup {m})
      /\ Cardinality(R \cup {m}) = IF m \in R THEN Cardinality(R) ELSE Cardinality(R) + 1
    BY <1>1, FS_AddElement
<1>4. T \in SUBSET (R \cup {m}) /\ (m \notin T => T \in SUBSET R)
    OBVIOUS
<1> HIDE DEF R
<1>5. /\ IsFiniteSet(T) /\ Cardinality(T) <= Cardinality(R \cup {m})
      /\ m \notin T => Cardinality(T) <= Cardinality(R)
    BY <1>1, <1>3, <1>4, FS_Subset
<1>6. Cardinality(T) \in Nat
    BY <1>5, FS_CardinalityType
<1> QED
    BY <1>1, <1>2, <1>3, <1>5, <1>6

LEMMA CountedHolds ==
    ASSUME IsFiniteSet(wire), NEW s
    PROVE  /\ IsFiniteSet(Running(s)) /\ IsFiniteSet(Unanswered(s))
           /\ Running(s) \subseteq Unanswered(s)
           /\ Cardinality(Running(s)) \in Nat /\ Cardinality(Unanswered(s)) \in Nat
           /\ Cardinality(Running(s)) <= Cardinality(Unanswered(s))
<1>1. /\ Running(s) \in SUBSET wire /\ Unanswered(s) \in SUBSET wire
      /\ Running(s) \in SUBSET Unanswered(s)
    BY DEF Running, Unanswered
<1>2. IsFiniteSet(Running(s)) /\ IsFiniteSet(Unanswered(s))
    BY <1>1, FS_Subset
<1> QED
    BY <1>1, <1>2, FS_Subset, FS_CardinalityType

LEMMA CountedBookings ==
    ASSUME TypeOK, NEW s PROVE IsFiniteSet(Made(s)) /\ Cardinality(Made(s)) \in Nat
<1>1. DOMAIN bookings = 1 .. Len(bookings) /\ Len(bookings) \in Int /\ 1 \in Int
    BY DEF TypeOK
<1>2. Made(s) \in SUBSET (1 .. Len(bookings)) /\ IsFiniteSet(1 .. Len(bookings))
    BY <1>1, FS_Interval DEF Made
<1>3. IsFiniteSet(Made(s))
    BY <1>2, FS_Subset
<1> QED
    BY <1>3, FS_CardinalityType

LEMMA CountedLosses ==
    ASSUME TypeOK PROVE lost \in Nat
BY CheckoutAssumption DEF TypeOK

\* Hold r moves on.
LEMMA HoldMoves ==
    ASSUME IsFiniteSet(wire), NEW r \in wire, NEW m,
           wire' \subseteq (wire \ {r}) \cup {m}, wire \ {r} \subseteq wire',
           r.op = "hold", m.op = "hold", m.seat = r.seat, m # r,
           r.stage \notin {"lookup", "run"} => m.stage \notin {"lookup", "run"}
    PROVE  /\ IsFiniteSet(wire')
           /\ \A s : s # r.seat => Running(s)' = Running(s) /\ Unanswered(s)' = Unanswered(s)
           /\ IsFiniteSet(Running(r.seat)') /\ IsFiniteSet(Unanswered(r.seat)')
           /\ Cardinality(Unanswered(r.seat)') <= Cardinality(Unanswered(r.seat))
           /\ m.stage # "run" \/ r.stage = "run"
                => Cardinality(Running(r.seat)') <= Cardinality(Running(r.seat))
           /\ r.stage = "run" /\ m.stage \notin {"lookup", "run"}
                => /\ Cardinality(Running(r.seat)') <= Cardinality(Running(r.seat)) - 1
                   /\ Cardinality(Unanswered(r.seat)') <= Cardinality(Unanswered(r.seat)) - 1
<1> DEFINE s == r.seat
<1>1. IsFiniteSet(wire')
    BY Swapped
<1>2. IsFiniteSet(Running(s)) /\ IsFiniteSet(Unanswered(s))
    BY CountedHolds
<1>3. \A z : z # s => Running(z)' = Running(z) /\ Unanswered(z)' = Unanswered(z)
    BY DEF Running, Unanswered
<1>4. /\ Running(s)' \subseteq (Running(s) \ {r}) \cup {m}
      /\ m \in Running(s)' => m.stage = "run"
      /\ r \in Running(s) <=> r.stage = "run"
    BY DEF Running
<1>5. /\ Unanswered(s)' \subseteq (Unanswered(s) \ {r}) \cup {m}
      /\ m \in Unanswered(s)' => m.stage \in {"lookup", "run"}
      /\ r \in Unanswered(s) <=> r.stage \in {"lookup", "run"}
    BY DEF Unanswered
<1> HIDE DEF s
<1>6. /\ IsFiniteSet(Running(s)')
      /\ r \in Running(s) \/ m \notin Running(s)'
            => Cardinality(Running(s)') <= Cardinality(Running(s))
      /\ r \in Running(s) /\ m \notin Running(s)'
            => Cardinality(Running(s)') <= Cardinality(Running(s)) - 1
    BY <1>2, <1>4, Swapped
<1>7. /\ IsFiniteSet(Unanswered(s)')
      /\ r \in Unanswered(s) \/ m \notin Unanswered(s)'
            => Cardinality(Unanswered(s)') <= Cardinality(Unanswered(s))
      /\ r \in Unanswered(s) /\ m \notin Unanswered(s)'
            => Cardinality(Unanswered(s)') <= Cardinality(Unanswered(s)) - 1
    BY <1>2, <1>5, Swapped
<1> QED
    BY <1>1, <1>3, <1>4, <1>5, <1>6, <1>7 DEF s

\* No booking is made and no hold sent, handled or answered; one that is awaited is given
\* up only where it does not matter.
LEMMA KeyKept ==
    ASSUME TypeOK, KeyInv, \A s : Made(s)' = Made(s), UNCHANGED cache, IsFiniteSet(wire'),
           lost' \in Nat, lost <= lost',
           \A q \in wire' : q.op = "hold" => q \in wire,
           \A r \in Live : r.op = "hold" =>
               r \in Live' \/ cache[r.seat] # NoAnswer \/ r.answer = Failed
    PROVE  KeyInv'
<1>1. ASSUME NEW s \in Seat
      PROVE  /\ Cardinality(Made(s)') + Cardinality(Running(s)') <= lost' + 1
             /\ cache[s] = NoAnswer =>
                    Cardinality(Made(s)') + Cardinality(Unanswered(s)')
                        <= lost' + (IF Awaited(s)' THEN 1 ELSE 0)
    <2>1. /\ IsFiniteSet(Running(s)) /\ IsFiniteSet(Unanswered(s))
          /\ Cardinality(Running(s)) \in Nat /\ Cardinality(Unanswered(s)) \in Nat
        BY CountedHolds DEF KeyInv
    <2>2. Running(s)' \in SUBSET Running(s) /\ Unanswered(s)' \in SUBSET Unanswered(s)
        BY DEF Running, Unanswered
    <2>3. /\ Cardinality(Running(s)') <= Cardinality(Running(s))
          /\ Cardinality(Unanswered(s)') <= Cardinality(Unanswered(s))
          /\ Cardinality(Running(s)') \in Nat /\ Cardinality(Unanswered(s)') \in Nat
        BY <2>1, <2>2, FS_Subset, FS_CardinalityType
    <2>4. cache[s] = NoAnswer /\ Awaited(s) => Awaited(s)'
        BY DEF Awaited
    <2>5. Cardinality(Made(s)) \in Nat /\ Cardinality(Made(s)') = Cardinality(Made(s)) /\ lost \in Nat
        BY CountedBookings, CountedLosses
    <2>6. /\ Cardinality(Made(s)) + Cardinality(Running(s)) <= lost + 1
          /\ cache[s] = NoAnswer =>
                Cardinality(Made(s)) + Cardinality(Unanswered(s))
                    <= lost + (IF Awaited(s) THEN 1 ELSE 0)
        BY DEF KeyInv
    <2> DEFINE w == IF Awaited(s) THEN 1 ELSE 0
               v == IF Awaited(s)' THEN 1 ELSE 0
    <2>7. w \in 0 .. 1 /\ v \in 0 .. 1 /\ (cache[s] = NoAnswer => w <= v)
        BY <2>4
    <2> HIDE DEF w, v
    <2>8. cache[s] = NoAnswer => Cardinality(Made(s)) + Cardinality(Unanswered(s)) <= lost + w
        BY <2>6 DEF w
    <2>9. /\ Cardinality(Made(s)') + Cardinality(Running(s)') <= lost' + 1
          /\ cache[s] = NoAnswer =>
                Cardinality(Made(s)') + Cardinality(Unanswered(s)') <= lost' + v
        BY <2>1, <2>3, <2>5, <2>6, <2>7, <2>8
    <2> QED
        BY <2>9 DEF v
<1>2. /\ \A r \in wire' : r.op = "hold" /\ r.stage = "store" => r.answer # NoAnswer
      /\ \A r \in wire' : r.op = "hold" /\ r.stage = "done" =>
            r.answer = Failed \/ cache'[r.seat] # NoAnswer
    BY DEF KeyInv
<1> QED
    BY <1>1, <1>2 DEF KeyInv

\* Hold r moves on; s is its seat.
LEMMA KeyOfMoved ==
    ASSUME CoreInv, KeyInv, NEW r \in wire, NEW m,
           wire' \subseteq (wire \ {r}) \cup {m}, wire \ {r} \subseteq wire',
           r.op = "hold", m.op = "hold", m.seat = r.seat, m # r,
           r.stage \notin {"lookup", "run"} => m.stage \notin {"lookup", "run"},
           m.stage = "store" => m.answer # NoAnswer,
           m.stage = "done" => m.answer = Failed \/ cache'[m.seat] # NoAnswer,
           \A s \in Seat \ {r.seat} :
                Made(s)' = Made(s) /\ cache'[s] = cache[s] /\ (Awaited(s)' <=> Awaited(s)),
           \A s \in Seat : cache[s] # NoAnswer => cache'[s] # NoAnswer,
           lost' \in Nat, lost <= lost',
           LET s == r.seat
           IN  /\ Cardinality(Made(s)') + Cardinality(Running(s)') <= lost' + 1
               /\ cache'[s] = NoAnswer =>
                      Cardinality(Made(s)') + Cardinality(Unanswered(s)')
                          <= lost' + (IF Awaited(s)' THEN 1 ELSE 0)
    PROVE  KeyInv'
<1>1. /\ IsFiniteSet(wire')
      /\ \A s : s # r.seat => Running(s)' = Running(s) /\ Unanswered(s)' = Unanswered(s)
    BY HoldMoves DEF KeyInv
<1>2. ASSUME NEW s \in Seat
      PROVE  /\ Cardinality(Made(s)') + Cardinality(Running(s)') <= lost' + 1
             /\ cache'[s] = NoAnswer =>
                    Cardinality(Made(s)') + Cardinality(Unanswered(s)')
                        <= lost' + (IF Awaited(s)' THEN 1 ELSE 0)
    <2>1. CASE s = r.seat
        BY <2>1
    <2>2. CASE s # r.seat
        <3>1. /\ Cardinality(Made(s)) \in Nat /\ lost \in Nat
              /\ Cardinality(Running(s)) \in Nat /\ Cardinality(Unanswered(s)) \in Nat
            BY CountedBookings, CountedHolds, CountedLosses DEF KeyInv, CoreInv
        <3>2. /\ Cardinality(Made(s)) + Cardinality(Running(s)) <= lost + 1
              /\ cache[s] = NoAnswer =>
                    Cardinality(Made(s)) + Cardinality(Unanswered(s))
                        <= lost + (IF Awaited(s) THEN 1 ELSE 0)
            BY DEF KeyInv
        <3>3. /\ Made(s)' = Made(s) /\ cache'[s] = cache[s] /\ (Awaited(s)' <=> Awaited(s))
              /\ Running(s)' = Running(s) /\ Unanswered(s)' = Unanswered(s)
            BY <1>1, <2>2
        <3> QED
            BY <3>1, <3>2, <3>3
    <2> QED
        BY <2>1, <2>2
<1>3. ASSUME NEW q \in wire', q.op = "hold"
      PROVE  /\ q.stage = "store" => q.answer # NoAnswer
             /\ q.stage = "done" => q.answer = Failed \/ cache'[q.seat] # NoAnswer
    <2>1. CASE q = m
        BY <2>1
    <2>2. CASE q # m
        <3>1. q \in wire /\ q.seat \in Seat
            BY <1>3, <2>2 DEF CoreInv, WireInv, Proper
        <3> QED
            BY <1>3, <3>1 DEF KeyInv
    <2> QED
        BY <2>1, <2>2
<1> QED
    BY <1>1, <1>2, <1>3 DEF KeyInv

LEMMA AwaitedMoved ==
    ASSUME NEW r \in wire, NEW m,
           wire' \subseteq (wire \ {r}) \cup {m}, wire \ {r} \subseteq wire',
           m.op = r.op, m.seat = r.seat, m.live = r.live, r.live => m \in wire'
    PROVE  /\ \A s : s # r.seat => (Awaited(s)' <=> Awaited(s))
           /\ m.answer # Failed => \A s : Awaited(s) => Awaited(s)'
BY DEF Awaited, Live

LEMMA MadeKept == ASSUME UNCHANGED bookings PROVE \A s : Made(s)' = Made(s)
BY DEF Made

\* The counts for the seat of a hold.
LEMMA KeyCounts ==
    ASSUME TypeOK, KeyInv, NEW s \in Seat
    PROVE  /\ Cardinality(Made(s)) \in Nat /\ lost \in Nat
           /\ Cardinality(Running(s)) \in Nat /\ Cardinality(Unanswered(s)) \in Nat
           /\ Cardinality(Running(s)) <= Cardinality(Unanswered(s))
           /\ Cardinality(Made(s)) + Cardinality(Running(s)) <= lost + 1
           /\ cache[s] = NoAnswer => Cardinality(Made(s)) + Cardinality(Unanswered(s)) <= lost + 1
           /\ cache[s] = NoAnswer /\ ~Awaited(s) =>
                Cardinality(Made(s)) + Cardinality(Unanswered(s)) <= lost
<1>1. /\ Cardinality(Made(s)) \in Nat /\ lost \in Nat
      /\ Cardinality(Running(s)) \in Nat /\ Cardinality(Unanswered(s)) \in Nat
      /\ Cardinality(Running(s)) <= Cardinality(Unanswered(s))
    BY CountedBookings, CountedHolds, CountedLosses DEF KeyInv
<1>2. /\ Cardinality(Made(s)) + Cardinality(Running(s)) <= lost + 1
      /\ cache[s] = NoAnswer =>
            Cardinality(Made(s)) + Cardinality(Unanswered(s))
                <= lost + (IF Awaited(s) THEN 1 ELSE 0)
    BY DEF KeyInv
<1>3. CASE Awaited(s)
    BY <1>1, <1>2, <1>3
<1>4. CASE ~Awaited(s)
    BY <1>1, <1>2, <1>4
<1> QED
    BY <1>3, <1>4

\* A key without an answer lets a hold through; with one, none.
LEMMA LookUpServes ==
    ASSUME CoreInv, ServerInv, NEW r \in wire, LookUp(r) PROVE ServerInv'
<1> USE DEF CoreInv, ServerInv
<1> DEFINE s == r.seat
           g == IF cache[s] # NoAnswer THEN "done" ELSE "run"
           a == cache[s]
           m == Moved(r, g, a)
<1>1. /\ r \in Request /\ r.stage = "lookup" /\ r.op = "hold" /\ s \in Seat
      /\ UNCHANGED <<bookings, cache, lost>>
    BY DEF LookUp, TypeOK, WireInv, Proper, Request, server
<1>2. Becomes(r, g, a) /\ a \in Answer \cup {NoAnswer} /\ g \in {"lookup", "run", "write", "store", "done"}
    BY <1>1 DEF LookUp, TypeOK
<1>3. /\ wire' \subseteq (wire \ {r}) \cup {m} /\ wire \ {r} \subseteq wire'
      /\ r.live => m \in wire'
      /\ m.op = r.op /\ m.seat = r.seat /\ m.live = r.live
      /\ m.stage = g /\ m.answer = a
    BY <1>2, MovedOn
<1>4. /\ cache[s] # NoAnswer => m.stage = "done"
      /\ cache[s] = NoAnswer => m.stage = "run" /\ m.answer # Failed
    BY <1>3, FailedSound
<1> HIDE DEF m, g, a
<1>5. /\ m # r
      /\ \A z : z # s => (Awaited(z)' <=> Awaited(z))
      /\ cache[s] = NoAnswer => (Awaited(s) => Awaited(s)')
    BY <1>1, <1>3, <1>4, AwaitedMoved
<1>6. \A z : Made(z)' = Made(z)
    BY <1>1, MadeKept
<1>7. /\ IsFiniteSet(wire')
      /\ Cardinality(Unanswered(s)') <= Cardinality(Unanswered(s))
      /\ m.stage # "run" => Cardinality(Running(s)') <= Cardinality(Running(s))
    BY <1>1, <1>3, <1>5, HoldMoves DEF KeyInv
<1>8. /\ Cardinality(Running(s)') \in Nat /\ Cardinality(Unanswered(s)') \in Nat
      /\ Cardinality(Running(s)') <= Cardinality(Unanswered(s)')
  <2>1. /\ Running(s)' \in SUBSET wire' /\ Unanswered(s)' \in SUBSET wire'
        /\ Running(s)' \in SUBSET Unanswered(s)'
    BY DEF Running, Unanswered
  <2>2. IsFiniteSet(Unanswered(s)') /\ IsFiniteSet(Running(s)')
    BY <1>7, <2>1, FS_Subset
  <2> QED
    BY <2>1, <2>2, FS_Subset, FS_CardinalityType
<1>9. Cardinality(Made(s)') + Cardinality(Running(s)') <= lost' + 1
  <2> HIDE DEF s
  <2>1. CASE m.stage # "run"
    BY <1>1, <1>6, <1>7, <1>8, <2>1, KeyCounts
  <2>2. CASE cache[s] = NoAnswer
    BY <1>1, <1>6, <1>7, <1>8, <2>2, KeyCounts
  <2> QED
    BY <1>4, <2>1, <2>2
<1>10. cache'[s] = NoAnswer =>
            Cardinality(Made(s)') + Cardinality(Unanswered(s)')
                <= lost' + (IF Awaited(s)' THEN 1 ELSE 0)
  <2> HIDE DEF s
  <2>1. CASE Awaited(s)
    BY <1>1, <1>5, <1>6, <1>7, <1>8, <2>1, KeyCounts
  <2>2. CASE ~Awaited(s)
    BY <1>1, <1>5, <1>6, <1>7, <1>8, <2>2, KeyCounts
  <2> QED
    BY <2>1, <2>2
<1>11. KeyInv'
    BY <1>1, <1>3, <1>4, <1>5, <1>6, <1>9, <1>10, CountedLosses, KeyOfMoved
<1>12. OwnApart'
    BY <1>1 DEF OwnApart, ActiveBooking
<1> QED
    BY <1>11, <1>12

\* From the first answer on, the key has one.
LEMMA StoreServes ==
    ASSUME CoreInv, ServerInv, NEW r \in wire, Store(r) PROVE ServerInv'
<1> USE DEF CoreInv, ServerInv
<1> DEFINE s == r.seat
           m == Moved(r, "done", r.answer)
<1>1. /\ r.stage = "store" /\ r.op = "hold" /\ s \in Seat /\ r.answer # NoAnswer
      /\ r.answer \in Answer \cup {NoAnswer}
      /\ cache' = [cache EXCEPT ![s] = r.answer] /\ Becomes(r, "done", r.answer)
      /\ UNCHANGED <<bookings, lost>>
  <2>1. r.stage = "store" /\ r.op = "hold" /\ s \in Seat /\ r.answer \in Answer \cup {NoAnswer}
    BY DEF Store, TypeOK, WireInv, Proper, Request
  <2>2. r.answer # NoAnswer
    BY <2>1 DEF KeyInv
  <2> QED
    BY <2>1, <2>2 DEF Store, Kept
<1>2. /\ wire' \subseteq (wire \ {r}) \cup {m} /\ wire \ {r} \subseteq wire'
      /\ r.live => m \in wire'
      /\ m.op = r.op /\ m.seat = r.seat /\ m.live = r.live
      /\ m.stage = "done"
    BY <1>1, MovedOn
<1> HIDE DEF m
<1>3. /\ m # r /\ \A z : z # s => (Awaited(z)' <=> Awaited(z))
      /\ \A z : Made(z)' = Made(z)
    BY <1>1, <1>2, AwaitedMoved, MadeKept
<1>4. cache'[s] # NoAnswer /\ \A z \in Seat \ {s} : cache'[z] = cache[z]
    BY <1>1 DEF TypeOK
<1>5. /\ IsFiniteSet(Running(s)')
      /\ Cardinality(Running(s)') <= Cardinality(Running(s))
    BY <1>1, <1>2, <1>3, HoldMoves DEF KeyInv
<1>6. Cardinality(Made(s)') + Cardinality(Running(s)') <= lost' + 1
  <2>1. Cardinality(Running(s)') \in Nat
    BY <1>5, FS_CardinalityType
  <2> HIDE DEF s
  <2> QED
    BY <1>1, <1>3, <1>5, <2>1, KeyCounts
<1>7. KeyInv'
    BY <1>1, <1>2, <1>3, <1>4, <1>6, CountedLosses, KeyOfMoved
<1>8. OwnApart'
    BY <1>1 DEF OwnApart, ActiveBooking
<1> QED
    BY <1>7, <1>8

\* The bookings when one is appended.
LEMMA Appended ==
    ASSUME TypeOK, NEW row \in [trip : Trip, seat : Seat, status : Status],
           bookings' = Append(bookings, row)
    PROVE  LET b == Len(bookings) + 1
           IN  /\ Len(bookings') = b /\ Len(bookings) \in Nat
               /\ DOMAIN bookings' = DOMAIN bookings \cup {b} /\ b \notin DOMAIN bookings
               /\ bookings'[b] = row
               /\ \A c \in DOMAIN bookings : bookings'[c] = bookings[c]
<1> DEFINE b == Len(bookings) + 1
<1>1. bookings \in Seq([trip : Trip, seat : Seat, status : Status])
    BY DEF TypeOK
<1>2. Len(bookings') = b /\ b = Len(bookings) + 1 /\ Len(bookings) \in Nat
    BY <1>1
<1> HIDE DEF b
<1>3. bookings' \in Seq([trip : Trip, seat : Seat, status : Status])
    BY <1>1
<1>4. DOMAIN bookings' = 1 .. b /\ DOMAIN bookings = 1 .. Len(bookings)
    BY <1>1, <1>2, <1>3
<1>5. DOMAIN bookings' = DOMAIN bookings \cup {b} /\ b \notin DOMAIN bookings
    BY <1>2, <1>4
<1>6. bookings'[b] = row /\ \A c \in DOMAIN bookings : bookings'[c] = bookings[c]
    BY <1>1, <1>2
<1> QED
    BY <1>2, <1>5, <1>6 DEF b

\* The hold that is handled is one of those counted, whether it makes a booking or not.
LEMMA HoldSeatServes ==
    ASSUME CoreInv, ServerInv, NEW r \in wire, HoldSeat(r) PROVE ServerInv'
<1> USE DEF CoreInv, ServerInv
<1> DEFINE s == r.seat
           b == Len(bookings) + 1
           row == [trip |-> r.trip, seat |-> r.seat, status |-> "HELD"]
           ticket == [code |-> 201, booking |-> b]
<1>1. /\ r.op = "hold" /\ r.stage = "run" /\ s \in Seat /\ r.trip \in Trip
      /\ UNCHANGED <<cache, lost>>
    BY DEF HoldSeat, WireInv, Proper
<1>2. \/ /\ Vacant(r.trip, s, 0) /\ bookings' = Append(bookings, row)
         /\ Len(bookings) < MaxBooking /\ Becomes(r, "store", ticket)
      \/ /\ \E e \in Refusal : Becomes(r, "store", Refused(e))
         /\ UNCHANGED bookings
      \/ Becomes(r, "done", Failed) /\ UNCHANGED bookings
    BY DEF HoldSeat, Refusal
<1>3. PICK a \in Answer, g \in {"store", "done"} :
        /\ Becomes(r, g, a) /\ a # NoAnswer
        /\ g = "done" => a = Failed
        /\ bookings' # bookings => a # Failed
  <2>1. CASE Becomes(r, "store", ticket) /\ Len(bookings) < MaxBooking
    <3>1. b \in 0 .. MaxBooking
        BY <2>1, CheckoutAssumption DEF TypeOK
    <3>2. ticket \in Answer /\ ticket # NoAnswer /\ ticket # Failed
        BY <3>1 DEF Answer, NoAnswer, Failed
    <3> HIDE DEF ticket
    <3> QED
        BY <2>1, <3>2
  <2>2. ASSUME NEW e \in Refusal, Becomes(r, "store", Refused(e)), UNCHANGED bookings
        PROVE  \E a \in Answer, g \in {"store", "done"} :
                /\ Becomes(r, g, a) /\ a # NoAnswer
                /\ g = "done" => a = Failed
                /\ bookings' # bookings => a # Failed
    <3>1. Refused(e) \in Answer /\ Refused(e) # NoAnswer
        BY RefusalsFail
    <3> QED
        BY <2>2, <3>1
  <2>3. CASE Becomes(r, "done", Failed) /\ UNCHANGED bookings
    BY <2>3, FailedSound
  <2> QED
    BY <1>2, <2>1, <2>2, <2>3
<1> DEFINE m == Moved(r, g, a)
<1>4. /\ wire' \subseteq (wire \ {r}) \cup {m} /\ wire \ {r} \subseteq wire'
      /\ r.live => m \in wire'
      /\ m.op = r.op /\ m.seat = r.seat /\ m.live = r.live
      /\ m.stage = g /\ m.answer = a
    BY <1>3, MovedOn
<1> HIDE DEF m, row
<1>5. /\ m # r
      /\ \A z : z # s => (Awaited(z)' <=> Awaited(z))
      /\ bookings' # bookings => (Awaited(s) => Awaited(s)')
    BY <1>1, <1>3, <1>4, AwaitedMoved
<1>6. /\ IsFiniteSet(Running(s)') /\ IsFiniteSet(Unanswered(s)')
      /\ Cardinality(Running(s)') <= Cardinality(Running(s)) - 1
      /\ Cardinality(Unanswered(s)') <= Cardinality(Unanswered(s)) - 1
    BY <1>1, <1>3, <1>4, <1>5, HoldMoves DEF KeyInv
<1>7. Cardinality(Running(s)') \in Nat /\ Cardinality(Unanswered(s)') \in Nat
    BY <1>6, FS_CardinalityType
<1>8. /\ \A z : z # s => Made(z)' = Made(z)
      /\ Cardinality(Made(s)') \in Nat /\ Cardinality(Made(s)') <= Cardinality(Made(s)) + 1
      /\ bookings' = bookings => Made(s)' = Made(s)
      /\ OwnApart'
  <2>1. CASE UNCHANGED bookings
    <3>1. OwnApart'
        BY <2>1 DEF OwnApart, ActiveBooking
    <3>2. Cardinality(Made(s)) \in Nat
        BY CountedBookings
    <3> QED
        BY <2>1, <3>1, <3>2, MadeKept
  <2>2. CASE bookings' = Append(bookings, row) /\ Vacant(r.trip, s, 0)
    <3>1. /\ row \in [trip : Trip, seat : Seat, status : Status]
          /\ row.trip = r.trip /\ row.seat = s
        BY <1>1 DEF Status, row
    <3>3. /\ DOMAIN bookings' = DOMAIN bookings \cup {b} /\ b \notin DOMAIN bookings
          /\ bookings'[b] = row /\ bookings' # bookings
          /\ \A c \in DOMAIN bookings : bookings'[c] = bookings[c]
        BY <2>2, <3>1, Appended
    <3>9. \A c \in DOMAIN bookings : c # 0
        BY DEF TypeOK
    <3> HIDE DEF b
    <3>4. \A z : z # s => Made(z)' = Made(z)
        BY <3>1, <3>3 DEF Made
    <3>5. Made(s)' = Made(s) \cup {b} /\ b \notin Made(s)
        BY <3>1, <3>3 DEF Made
    <3>6. IsFiniteSet(Made(s)) /\ Cardinality(Made(s)) \in Nat
        BY CountedBookings
    <3>7. Cardinality(Made(s)') = Cardinality(Made(s)) + 1
        BY <3>5, <3>6, FS_AddElement
    <3>8. OwnApart'
        BY <2>2, <3>1, <3>3, <3>9 DEF OwnApart, ActiveBooking, Vacant
    <3> QED
        BY <3>3, <3>4, <3>6, <3>7, <3>8
  <2> QED
    BY <1>2, <2>1, <2>2
<1>9. Cardinality(Made(s)') + Cardinality(Running(s)') <= lost' + 1
  <2> HIDE DEF s
  <2> QED
    BY <1>1, <1>6, <1>7, <1>8, KeyCounts
<1>10. cache'[s] = NoAnswer =>
            Cardinality(Made(s)') + Cardinality(Unanswered(s)')
                <= lost' + (IF Awaited(s)' THEN 1 ELSE 0)
  <2> HIDE DEF s
  <2>1. CASE Awaited(s)'
    BY <1>1, <1>6, <1>7, <1>8, <2>1, KeyCounts
  <2>2. CASE ~Awaited(s)' /\ bookings' # bookings
    BY <1>1, <1>5, <1>6, <1>7, <1>8, <2>2, KeyCounts
  <2>3. CASE ~Awaited(s)' /\ bookings' = bookings
    BY <1>1, <1>6, <1>7, <1>8, <2>3, KeyCounts
  <2> QED
    BY <2>1, <2>2, <2>3
<1>11. KeyInv'
    BY <1>1, <1>3, <1>4, <1>5, <1>8, <1>9, <1>10, CountedLosses, KeyOfMoved
<1> QED
    BY <1>8, <1>11

\* Only the status of a booking changes, which is active only where nothing is in its way,
\* and no hold moves.
LEMMA SettlingServes ==
    ASSUME CoreInv, ServerInv, NEW b \in DOMAIN bookings, NEW x \in Status, SetStatus(b, x),
           x \in Active => Vacant(bookings[b].trip, bookings[b].seat, b),
           UNCHANGED <<cache, lost>>,
           IsFiniteSet(wire'), \A q \in wire' : q.op = "hold" => q \in wire,
           \A q \in wire : q.op = "hold" => q \in wire'
    PROVE  ServerInv'
<1> USE DEF CoreInv, ServerInv
<1>1. /\ DOMAIN bookings' = DOMAIN bookings /\ bookings'[b].status = x
      /\ \A c \in DOMAIN bookings :
            /\ bookings'[c].trip = bookings[c].trip /\ bookings'[c].seat = bookings[c].seat
            /\ c # b => bookings'[c] = bookings[c]
    BY Settling
<1>2. OwnApart'
    BY <1>1 DEF OwnApart, ActiveBooking, Vacant
<1>3. \A s : Made(s)' = Made(s)
    BY <1>1 DEF Made
<1>4. KeyInv'
    BY <1>3, CountedLosses, KeyKept DEF Live
<1> QED
    BY <1>2, <1>4

\* The bookings stay, and so do the holds that matter.
LEMMA RequestsServe ==
    ASSUME CoreInv, ServerInv, UNCHANGED <<bookings, cache>>, IsFiniteSet(wire'),
           lost' \in {lost, lost + 1},
           \A q \in wire' : q.op = "hold" => q \in wire,
           \A r \in Live : r.op = "hold" => r \in wire' \/ r.stage = "done"
    PROVE  ServerInv'
<1> USE DEF CoreInv, ServerInv
<1>1. OwnApart' /\ \A s : Made(s)' = Made(s)
    BY MadeKept DEF OwnApart, ActiveBooking
<1>2. lost \in Nat /\ lost' \in Nat /\ lost <= lost'
    BY CountedLosses
<1>3. \A r \in Live : r.op = "hold" =>
            r \in Live' \/ cache[r.seat] # NoAnswer \/ r.answer = Failed
    BY DEF Live, KeyInv
<1>4. KeyInv'
    BY <1>1, <1>2, <1>3, KeyKept
<1> QED
    BY <1>1, <1>4

\* A request that is no hold moves on.
LEMMA Aside ==
    ASSUME CoreInv, KeyInv, NEW r \in wire, r.op # "hold",
           NEW g \in {"write", "done"}, NEW a \in Answer \cup {NoAnswer}, Becomes(r, g, a)
    PROVE  /\ IsFiniteSet(wire')
           /\ \A q \in wire' : q.op = "hold" => q \in wire
           /\ \A q \in wire : q.op = "hold" => q \in wire'
<1> DEFINE m == Moved(r, g, a)
<1>1. /\ wire' \subseteq (wire \ {r}) \cup {m} /\ wire \ {r} \subseteq wire'
      /\ m.op = r.op
    BY MovedOn DEF CoreInv
<1> HIDE DEF m
<1>2. IsFiniteSet(wire')
    BY <1>1, Swapped DEF KeyInv
<1> QED
    BY <1>1, <1>2

LEMMA GuardServes ==
    ASSUME CoreInv, ServerInv, NEW r \in wire, GuardConfirm(r) \/ GuardCancel(r)
    PROVE  ServerInv'
<1>1. /\ r.op # "hold" /\ UNCHANGED <<bookings, cache, lost>>
      /\ \/ Becomes(r, "write", NoAnswer)
         \/ Becomes(r, "done", Refused("PaymentDeclined"))
         \/ Becomes(r, "done", Refused("IllegalTransition"))
    BY DEF GuardConfirm, GuardCancel, server
<1>2. PICK g \in {"write", "done"}, a \in Answer \cup {NoAnswer} : Becomes(r, g, a)
  <2>1. /\ Refused("PaymentDeclined") \in Answer /\ Refused("IllegalTransition") \in Answer
    BY RefusalsFail DEF Refusal
  <2> QED
    BY <1>1, <2>1
<1> QED
    BY <1>1, <1>2, Aside, RequestsServe DEF Live, ServerInv

LEMMA WriteServes ==
    ASSUME CoreInv, ServerInv, NEW r \in wire, WriteConfirm(r) \/ WriteCancel(r)
    PROVE  ServerInv'
<1> USE DEF CoreInv, ServerInv
<1> DEFINE b == r.booking
           a == [code |-> 200, booking |-> b]
<1>1. /\ r.op # "hold" /\ b \in DOMAIN bookings /\ UNCHANGED <<cache, lost>>
      /\ a \in Answer /\ Failed \in Answer
  <2>1. r.op # "hold" /\ UNCHANGED <<cache, lost>>
    BY DEF WriteConfirm, WriteCancel
  <2>2. b \in DOMAIN bookings
    BY <2>1 DEF WireInv, Proper
  <2> QED
    BY <2>1, <2>2, GoodSound, FailedSound
<1>2. /\ \/ Becomes(r, "done", a) \/ Becomes(r, "done", Failed)
      /\ \/ SetStatus(b, "CONFIRMED") /\ Vacant(bookings[b].trip, bookings[b].seat, b)
         \/ SetStatus(b, "CANCELLED")
         \/ UNCHANGED bookings
    BY DEF WriteConfirm, WriteCancel
<1> HIDE DEF a
<1>3. /\ IsFiniteSet(wire')
      /\ \A q \in wire' : q.op = "hold" => q \in wire
      /\ \A q \in wire : q.op = "hold" => q \in wire'
    BY <1>1, <1>2, Aside
<1>4. CASE SetStatus(b, "CONFIRMED") /\ Vacant(bookings[b].trip, bookings[b].seat, b)
    BY <1>1, <1>3, <1>4, SettlingServes DEF Status
<1>5. CASE SetStatus(b, "CANCELLED")
    BY <1>1, <1>3, <1>5, SettlingServes DEF Status, Active
<1>6. CASE UNCHANGED bookings
    BY <1>1, <1>3, <1>6, RequestsServe DEF Live
<1> QED
    BY <1>2, <1>4, <1>5, <1>6

\* The cancellations are as many as the bookings held, and none is a hold.
LEMMA ReleaseFinite ==
    ASSUME TypeOK, NEW others, IsFiniteSet(others), NEW c, ReleaseAll(others, c)
    PROVE  /\ IsFiniteSet(wire') /\ others \subseteq wire'
           /\ \A q \in wire' : q.op = "hold" => q \in others
<1> DEFINE mine == {RequestAbout("cancel", b) : b \in ToRelease}
           f == [i \in DOMAIN held |-> RequestAbout("cancel", held[i])]
<1>1. wire' = others \cup mine
    BY DEF ReleaseAll
<1>2. \A q \in mine : q.op = "cancel"
    BY DEF RequestAbout
<1>3. f \in Surjection(DOMAIN held, mine)
    BY DEF Surjection, ToRelease
<1>4. IsFiniteSet(DOMAIN held)
  <2>1. DOMAIN held = 1 .. Len(held) /\ Len(held) \in Int /\ 1 \in Int
    BY DEF TypeOK
  <2> QED
    BY <2>1, FS_Interval
<1> HIDE DEF mine, f
<1>5. IsFiniteSet(mine)
    BY <1>3, <1>4, FS_Surjection
<1>6. IsFiniteSet(others \cup mine)
    BY <1>5, FS_Union
<1> QED
    BY <1>1, <1>2, <1>6

LEMMA SendHoldServes == ASSUME CoreInv, ServerInv, SendHold PROVE ServerInv'
<1> USE DEF CoreInv, ServerInv
<1>1. /\ step = "hold" /\ Live = {} /\ UNCHANGED <<bookings, cache, lost>>
      /\ IsFiniteSet(wire)
    BY DEF SendHold, KeyInv, server
<1>2. CASE ReleaseAll(wire, FALSE)
  <2>1. IsFiniteSet(wire') /\ \A q \in wire' : q.op = "hold" => q \in wire
    BY <1>1, <1>2, ReleaseFinite
  <2> QED
    BY <1>1, <2>1, RequestsServe
<1> DEFINE s == seatIds[Len(held) + 1]
           m == HoldRequest(s)
<1>3. CASE wire' = wire \cup {m}
  <2>1. m.op = "hold" /\ m.seat = s /\ m.stage = "lookup" /\ m.live /\ m.answer # Failed
    BY FailedSound DEF HoldRequest
  <2> HIDE DEF m, s
  <2>2. \A z : ~Awaited(z) /\ (Awaited(z)' <=> z = s)
    BY <1>1, <1>3, <2>1 DEF Awaited, Live
  <2>3. \A z : Running(z)' = Running(z) /\ Unanswered(z)' \subseteq Unanswered(z) \cup {m}
    BY <1>3, <2>1 DEF Running, Unanswered
  <2>4. \A z : z # s => Unanswered(z)' = Unanswered(z)
    BY <1>3, <2>1 DEF Unanswered
  <2>5. ASSUME NEW z \in Seat
        PROVE  /\ Cardinality(Made(z)') + Cardinality(Running(z)') <= lost' + 1
               /\ cache'[z] = NoAnswer =>
                    Cardinality(Made(z)') + Cardinality(Unanswered(z)')
                        <= lost' + (IF Awaited(z)' THEN 1 ELSE 0)
    <3>1. Made(z)' = Made(z) /\ Running(z)' = Running(z) /\ lost' = lost
        BY <1>1, <2>3, MadeKept
    <3>2. CASE z = s
      <4>1. /\ IsFiniteSet(Unanswered(z))
            /\ Unanswered(z)' \subseteq (Unanswered(z) \ {m}) \cup {m}
        BY <1>1, <2>3, CountedHolds
      <4>2. /\ Cardinality(Unanswered(z)') <= Cardinality(Unanswered(z)) + 1
            /\ Cardinality(Unanswered(z)') \in Nat
        BY <4>1, Swapped
      <4>3. cache[z] = NoAnswer => Cardinality(Made(z)) + Cardinality(Unanswered(z)) <= lost
        BY <2>2, KeyCounts
      <4>4. Awaited(z)'
        BY <2>2, <3>2
      <4> QED
        BY <1>1, <3>1, <4>2, <4>3, <4>4, KeyCounts
    <3>3. CASE z # s
      <4>1. ~Awaited(z) /\ ~Awaited(z)' /\ Unanswered(z)' = Unanswered(z)
        BY <2>2, <2>4, <3>3
      <4> QED
        BY <1>1, <3>1, <4>1, KeyCounts
    <3> QED
        BY <3>2, <3>3
  <2>6. IsFiniteSet(wire')
    BY <1>1, <1>3, FS_AddElement
  <2>7. KeyInv'
    BY <1>1, <1>3, <2>1, <2>5, <2>6 DEF KeyInv
  <2>8. OwnApart'
    BY <1>1 DEF OwnApart, ActiveBooking
  <2> QED
    BY <2>7, <2>8
<1> QED
    BY <1>2, <1>3 DEF SendHold

LEMMA SendConfirmServes == ASSUME CoreInv, ServerInv, SendConfirm PROVE ServerInv'
<1> DEFINE q == RequestAbout("confirm", held[tickets + 1])
<1>1. /\ Live = {} /\ wire' = wire \cup {q} /\ UNCHANGED <<bookings, cache, lost>>
    BY DEF SendConfirm, server
<1>2. q.op = "confirm"
    BY DEF RequestAbout
<1> HIDE DEF q
<1>3. IsFiniteSet(wire')
    BY <1>1, FS_AddElement DEF ServerInv, KeyInv
<1> QED
    BY <1>1, <1>2, <1>3, RequestsServe

\* An answer is taken.
LEMMA GoneServes ==
    ASSUME CoreInv, ServerInv, NEW r \in wire, wire' = wire \ {r},
           ~r.live \/ r.op # "hold" \/ r.stage = "done", UNCHANGED <<bookings, cache, lost>>
    PROVE  ServerInv'
<1>1. IsFiniteSet(wire')
    BY FS_RemoveElement DEF ServerInv, KeyInv
<1> QED
    BY <1>1, RequestsServe DEF Live

\* The answer to the one request waited for is taken and everything is released.
LEMMA FailureServes ==
    ASSUME CoreInv, ServerInv, NEW r \in wire, NEW c, ReleaseAll(wire \ {r}, c),
           r.op # "hold" \/ r.stage = "done", UNCHANGED <<bookings, cache, lost>>
    PROVE  ServerInv'
<1>1. IsFiniteSet(wire \ {r})
    BY FS_RemoveElement DEF ServerInv, KeyInv
<1>2. /\ IsFiniteSet(wire') /\ wire \ {r} \subseteq wire'
      /\ \A q \in wire' : q.op = "hold" => q \in wire \ {r}
    BY <1>1, ReleaseFinite DEF CoreInv
<1> QED
    BY <1>2, RequestsServe DEF Live

LEMMA TakeServes ==
    ASSUME CoreInv, ServerInv, NEW r \in wire, TakeHold(r) \/ TakeConfirm(r) \/ TakeCancel(r)
    PROVE  ServerInv'
<1>1. UNCHANGED <<bookings, cache, lost>> /\ r.stage = "done"
    BY DEF TakeHold, TakeConfirm, TakeCancel, Settled, server
<1>2. wire' = wire \ {r} \/ \E c : ReleaseAll(wire \ {r}, c)
    BY DEF TakeHold, TakeConfirm, TakeCancel
<1> QED
    BY <1>1, <1>2, GoneServes, FailureServes

\* A hold is given up: what it was counted for is paid with its answer.
LEMMA LoseServes == ASSUME CoreInv, ServerInv, NEW r \in wire, Lose(r) PROVE ServerInv'
<1> USE DEF CoreInv, ServerInv
<1> DEFINE m == Abandoned(r)
           others == Others(r)
<1>1. /\ r \in Live /\ lost' = lost + 1 /\ lost \in Nat
      /\ \/ r.op # "cancel" /\ ReleaseAll(others, FALSE)
         \/ r.op = "cancel" /\ wire' = others
      /\ UNCHANGED <<bookings, cache>>
    BY CountedLosses DEF Lose, server, Others, Abandoned
<1>2. /\ m.op = r.op /\ m.seat = r.seat /\ m.stage = r.stage /\ m.answer = r.answer
      /\ others \subseteq (wire \ {r}) \cup {m}
    BY <1>1, GivenUp
<1> HIDE DEF m, others
<1>3. IsFiniteSet(wire) /\ IsFiniteSet(others)
    BY <1>2, Swapped DEF KeyInv
<1>4. /\ IsFiniteSet(wire') /\ others \subseteq wire'
      /\ \A q \in wire' : q.op = "hold" => q \in others
    BY <1>1, <1>3, ReleaseFinite
<1>5. OwnApart'
    BY <1>1 DEF OwnApart, ActiveBooking
<1>6. \A z : Made(z)' = Made(z)
    BY <1>1, MadeKept
<1>7. ASSUME NEW z
      PROVE  /\ Running(z)' \subseteq (Running(z) \ {r}) \cup {m}
             /\ m \in Running(z)' => r \in Running(z)
             /\ Unanswered(z)' \subseteq (Unanswered(z) \ {r}) \cup {m}
             /\ m \in Unanswered(z)' => r \in Unanswered(z)
    BY <1>2, <1>4 DEF Running, Unanswered
<1>8. ASSUME NEW z
      PROVE  /\ Cardinality(Running(z)') \in Nat /\ Cardinality(Unanswered(z)') \in Nat
             /\ Cardinality(Running(z)') <= Cardinality(Running(z))
             /\ Cardinality(Unanswered(z)') <= Cardinality(Unanswered(z))
  <2>1. IsFiniteSet(Running(z)) /\ IsFiniteSet(Unanswered(z))
    BY <1>3, CountedHolds
  <2> QED
    BY <1>7, <2>1, Swapped
<1>9. ASSUME NEW z \in Seat
      PROVE  /\ Cardinality(Made(z)') + Cardinality(Running(z)') <= lost' + 1
             /\ cache'[z] = NoAnswer =>
                  Cardinality(Made(z)') + Cardinality(Unanswered(z)')
                      <= lost' + (IF Awaited(z)' THEN 1 ELSE 0)
  <2>1. CASE Awaited(z)'
    BY <1>1, <1>6, <1>8, <2>1, KeyCounts
  <2>2. CASE ~Awaited(z)'
    BY <1>1, <1>6, <1>8, <2>2, KeyCounts
  <2> QED
    BY <2>1, <2>2
<1>10. KeyInv'
  <2>1. ASSUME NEW q \in wire', q.op = "hold"
        PROVE  /\ q.stage = "store" => q.answer # NoAnswer
               /\ q.stage = "done" => q.answer = Failed \/ cache'[q.seat] # NoAnswer
    <3>1. \E p \in wire : p.op = "hold" /\ p.stage = q.stage /\ p.answer = q.answer
                            /\ p.seat = q.seat
        BY <1>1, <1>2, <1>4, <2>1
    <3> QED
        BY <1>1, <3>1 DEF KeyInv
  <2> QED
    BY <1>4, <1>9, <2>1 DEF KeyInv
<1> QED
    BY <1>5, <1>10

LEMMA InitServes == Init => ServerInv
<1> SUFFICES ASSUME Init PROVE ServerInv
    OBVIOUS
<1>1. TypeOK /\ lost \in Nat /\ lost = 0 /\ IsFiniteSet(wire)
    BY InitHolds, CountedLosses, FS_EmptySet DEF CoreInv, Init
<1>2. ASSUME NEW s \in Seat
      PROVE  Made(s) = {} /\ Running(s) = {} /\ Unanswered(s) = {} /\ ~Awaited(s)
    BY DEF Init, Made, Running, Unanswered, Awaited, Live
<1>3. ASSUME NEW s \in Seat
      PROVE  /\ Cardinality(Made(s)) + Cardinality(Running(s)) <= lost + 1
             /\ cache[s] = NoAnswer =>
                  Cardinality(Made(s)) + Cardinality(Unanswered(s))
                      <= lost + (IF Awaited(s) THEN 1 ELSE 0)
    BY <1>1, <1>2, FS_EmptySet
<1> QED
    BY <1>1, <1>3 DEF ServerInv, KeyInv, OwnApart, Init

LEMMA NextServes == CoreInv /\ ServerInv /\ [Next]_vars => ServerInv'
<1> SUFFICES ASSUME CoreInv, ServerInv, [Next]_vars PROVE ServerInv'
    OBVIOUS
<1>1. ASSUME UNCHANGED <<bookings, cache, wire, lost>> PROVE ServerInv'
    BY <1>1, RequestsServe DEF ServerInv, KeyInv, Live
<1>2. CASE Continue
    BY <1>1, <1>2, SendHoldServes, SendConfirmServes, TakeServes DEF Continue, Released, server
<1>3. CASE Pay \/ Home
    BY <1>1, <1>3 DEF Pay, Home, server
<1>4. ASSUME NEW t \in Trip, NEW c \in Carts, Choose(t, c) PROVE ServerInv'
    BY <1>1, <1>4 DEF Choose, server
<1>5. ASSUME NEW r \in wire, Serve(r) PROVE ServerInv'
    BY <1>5, LookUpServes, HoldSeatServes, StoreServes, GuardServes, WriteServes DEF Serve
<1>6. ASSUME NEW r \in wire, Lose(r) PROVE ServerInv'
    BY <1>6, LoseServes
<1>7. ASSUME NEW b \in DOMAIN bookings, ExpireRow(b) PROVE ServerInv'
  <2>1. UNCHANGED <<cache, lost, wire>> /\ SetStatus(b, "EXPIRED") /\ IsFiniteSet(wire)
    BY <1>7 DEF ExpireRow, ServerInv, KeyInv
  <2> QED
    BY <2>1, SettlingServes DEF Status, Active
<1>8. CASE UNCHANGED vars
    BY <1>1, <1>8 DEF vars
<1> QED
    BY <1>2, <1>3, <1>4, <1>5, <1>6, <1>7, <1>8 DEF Next

\* What the server keeps of this passenger, for any number of trains: each key has paid
\* for what was made with it, and no two active bookings are for one seat of a train.
THEOREM ServerInductive == Spec => [](CoreInv /\ ServerInv)
<1>1. Init => CoreInv /\ ServerInv
    BY InitHolds, InitServes
<1>2. CoreInv /\ ServerInv /\ [Next]_vars => (CoreInv /\ ServerInv)'
    BY NextKeeps, NextServes
<1> QED
    BY <1>1, <1>2, PTL DEF Spec

\* idempotency.py: however often a checkout of a seat is repeated, whatever has become of
\* the bookings in between and although the cache is read and written in two steps, a seat
\* is booked once, and once more for each answer that was lost.
THEOREM KeyBooksOnce == Spec => []BookedOncePerKey
<1>1. ASSUME CoreInv, ServerInv PROVE BookedOncePerKey
  <2>1. ASSUME NEW s \in Seat PROVE Cardinality(Made(s)) <= 1 + lost
    <3> HIDE DEF Made
    <3> QED
        BY <1>1, KeyCounts DEF CoreInv, ServerInv
  <2> QED
    BY <2>1 DEF BookedOncePerKey, Made
<1> QED
    BY <1>1, ServerInductive, PTL

-----------------------------------------------------------------------------
(* The server as a ledger.                                                 *)

\* The ledger's operators, on rows that are all about one journey.
LEMMA LedgerFacts ==
    /\ Ledger!Absent = "ABSENT" /\ Ledger!Active = Active
    /\ \A b, c \in DOMAIN bookings : Ledger!Clash(Columns(b), Columns(c))
            => bookings[b].trip = bookings[c].trip /\ bookings[b].seat = bookings[c].seat
    /\ \A b : Columns(b).until = 0
BY DEF Ledger!Absent, Ledger!Active, Active, Ledger!Clash, Columns

\* What the ledger sees.
StatusOf == [b \in Booking |-> IF b \in DOMAIN bookings THEN bookings[b].status ELSE "ABSENT"]
RowOf == [b \in Booking |-> IF b \in DOMAIN bookings THEN Columns(b) ELSE NoColumns]

LEMMA BookingsBounded == ASSUME TypeOK PROVE DOMAIN bookings \subseteq Booking
<1>1. DOMAIN bookings = 1 .. Len(bookings) /\ Len(bookings) \in Nat /\ Len(bookings) <= MaxBooking
    BY DEF TypeOK
<1> QED
    BY <1>1, CheckoutAssumption DEF Booking

\* The status of booking b is written: it settles, or its row is retired.
LEMMA SettlingInLedger ==
    ASSUME TypeOK, NEW b \in DOMAIN bookings,
           NEW x \in {"CONFIRMED", "CANCELLED", "EXPIRED"}, SetStatus(b, x),
           x = "CONFIRMED" => Vacant(bookings[b].trip, bookings[b].seat, b)
    PROVE  Ledger!Next
<1>1. /\ b \in Booking /\ bookings[b].status \in Status /\ DOMAIN bookings \subseteq Booking
      /\ x \in Status
    BY RowType, BookingsBounded DEF Status
<1>3. /\ DOMAIN bookings' = DOMAIN bookings /\ bookings'[b].status = x
      /\ \A c \in DOMAIN bookings :
            /\ bookings'[c].trip = bookings[c].trip /\ bookings'[c].seat = bookings[c].seat
            /\ c # b => bookings'[c] = bookings[c]
    BY <1>1, Settling
<1>4. RowOf' = RowOf
  <2>1. \A c \in DOMAIN bookings : Columns(c)' = Columns(c)
    BY <1>3 DEF Columns
  <2> QED
    BY <1>3, <2>1 DEF RowOf, NoColumns
<1>5. StatusOf' = [StatusOf EXCEPT ![b] = x]
    BY <1>1, <1>3 DEF StatusOf
<1>6. Ledger!Retired({}) = StatusOf
    BY DEF Ledger!Retired, StatusOf
<1>7. x = "CONFIRMED" => Ledger!Free({}, b, RowOf[b])
  <2>1. SUFFICES ASSUME x = "CONFIRMED", NEW c \in Booking \ {b}, StatusOf[c] \in Active
                 PROVE  ~ Ledger!Clash(RowOf[b], RowOf[c])
    BY <1>6, LedgerFacts DEF Ledger!Free, RowOf
  <2>2. c \in DOMAIN bookings /\ bookings[c].status \in Active
    BY <2>1 DEF StatusOf, Active
  <2>3. RowOf[b] = Columns(b) /\ RowOf[c] = Columns(c)
    BY <1>1, <2>2 DEF RowOf
  <2> QED
    BY <2>1, <2>2, <2>3, LedgerFacts DEF Vacant, ActiveBooking
<1>8. StatusOf[b] = bookings[b].status /\ StatusOf[b] # "ABSENT"
    BY <1>1 DEF StatusOf, Status
<1>9. CASE x \in {"CONFIRMED", "CANCELLED"}
  <2>1. PICK E \in SUBSET Ledger!Lapsed, y \in {"CONFIRMED", "CANCELLED"} : E = {} /\ y = x
    BY <1>9
  <2>2. Ledger!Settle(E, b, y)
    BY <1>3, <1>4, <1>5, <1>6, <1>7, <1>8, <2>1, LedgerFacts
       DEF Ledger!Settle, StatusOf, RowOf
  <2> QED
    BY <1>1, <2>2 DEF Ledger!Next
<1>10. CASE x = "EXPIRED"
  <2>1. {b} \in SUBSET Ledger!Lapsed
    BY <1>1, LedgerFacts DEF Ledger!Lapsed
  <2>2. Ledger!Retired({b}) = StatusOf'
    BY <1>1, <1>5, <1>10 DEF Ledger!Retired, StatusOf
  <2>3. Ledger!Retire({b})
    BY <1>3, <1>4, <2>2 DEF Ledger!Retire, StatusOf, RowOf
  <2> QED
    BY <2>1, <2>3 DEF Ledger!Next
<1> QED
    BY <1>9, <1>10

\* A hold that is handled issues a booking, or nothing happens.
LEMMA HoldSeatInLedger ==
    ASSUME CoreInv, NEW r \in wire, HoldSeat(r), bookings' # bookings
    PROVE  Ledger!Next
<1> USE DEF CoreInv
<1> DEFINE row == [trip |-> r.trip, seat |-> r.seat, status |-> "HELD"]
<1>1. /\ r.trip \in Trip /\ r.seat \in Seat
      /\ Vacant(r.trip, r.seat, 0) /\ bookings' = Append(bookings, row) /\ Len(bookings) < MaxBooking
    BY DEF HoldSeat, WireInv, Proper
<1>2. /\ bookings \in Seq([trip : Trip, seat : Seat, status : Status])
      /\ row \in [trip : Trip, seat : Seat, status : Status]
      /\ row.trip = r.trip /\ row.seat = r.seat /\ row.status = "HELD"
    BY <1>1 DEF TypeOK, Status
<1> HIDE DEF row
<1>3. PICK b \in Booking :
        Len(bookings') = b /\ b = Len(bookings) + 1 /\ Len(bookings) \in Nat
    BY <1>1, <1>2, CheckoutAssumption DEF Booking
<1>4. /\ DOMAIN bookings' = DOMAIN bookings \cup {b} /\ b \notin DOMAIN bookings
      /\ bookings'[b] = row
      /\ \A c \in DOMAIN bookings : bookings'[c] = bookings[c] /\ c # 0
  <2>1. \A c \in DOMAIN bookings : c # 0
    BY DEF TypeOK
  <2> QED
    BY <1>1, <1>2, <1>3, <2>1, Appended
<1> DEFINE new == [trip |-> r.trip, seat |-> r.seat, leg |-> Journey, until |-> 0]
<1>5. Columns(b)' = new /\ RowOf'[b] = new
    BY <1>2, <1>3, <1>4 DEF Columns, RowOf, Journey
<1>6. RowOf' = [RowOf EXCEPT ![b] = RowOf'[b]]
  <2>1. \A c \in DOMAIN bookings : Columns(c)' = Columns(c)
    BY <1>4 DEF Columns
  <2>2. \A c \in Booking \ {b} : RowOf'[c] = RowOf[c]
    BY <1>4, <2>1 DEF RowOf, NoColumns
  <2> HIDE DEF new
  <2> QED
    BY <1>3, <2>2 DEF RowOf
<1>7. StatusOf' = [StatusOf EXCEPT ![b] = "HELD"]
    BY <1>2, <1>3, <1>4 DEF StatusOf
<1>8. Ledger!Retired({}) = StatusOf /\ StatusOf[b] = "ABSENT"
    BY <1>3, <1>4 DEF Ledger!Retired, StatusOf
<1>9. Ledger!Free({}, b, RowOf'[b])
  <2>1. SUFFICES ASSUME NEW c \in Booking \ {b}, StatusOf[c] \in Active
                 PROVE  ~ Ledger!Clash(new, RowOf[c])
    BY <1>5, <1>8, LedgerFacts DEF Ledger!Free, RowOf
  <2>2. c \in DOMAIN bookings /\ ActiveBooking(c)
    BY <2>1 DEF StatusOf, Active, ActiveBooking
  <2>3. RowOf[c] = Columns(c)
    BY <2>2 DEF RowOf
  <2>4. ~(Columns(c).trip = new.trip /\ Columns(c).seat = new.seat)
    BY <1>1, <1>4, <2>2 DEF Vacant, Columns
  <2> HIDE DEF new
  <2> QED
    BY <2>3, <2>4 DEF Ledger!Clash
<1>10. new \in [trip : Trip, seat : Seat, leg : {Journey}, until : {0}]
    BY <1>1
<1>11. Ledger!Issue({}, b, "HELD")
  <2> HIDE DEF new
  <2> QED
    BY <1>4, <1>5, <1>6, <1>7, <1>8, <1>9, <1>10, LedgerFacts
       DEF Ledger!Issue, StatusOf, RowOf
<1>12. {} \in SUBSET Ledger!Lapsed
    OBVIOUS
<1> QED
    BY <1>3, <1>11, <1>12 DEF Ledger!Next

\* What the server does for the browser are transactions of the abstract ledger: issues,
\* settlements and lapses, whoever sent the request, whether anybody still waits for it
\* and however late it writes.
THEOREM CheckoutImplementsLedger == Spec => ImplementsLedger
<1>1. Init => Ledger!Init
    BY LedgerFacts DEF Init, Ledger!Init
<1>2. ASSUME CoreInv, [Next]_vars PROVE [Ledger!Next]_(Ledger!vars)
  <2>1. CASE UNCHANGED bookings
    BY <2>1 DEF Ledger!vars, Columns
  <2>2. ASSUME NEW r \in wire, HoldSeat(r), bookings' # bookings PROVE Ledger!Next
    BY <1>2, <2>2, HoldSeatInLedger
  <2>3. ASSUME NEW r \in wire, WriteConfirm(r) \/ WriteCancel(r), bookings' # bookings
        PROVE  Ledger!Next
    <3>1. r.booking \in DOMAIN bookings
        BY <1>2, <2>3 DEF WriteConfirm, WriteCancel, CoreInv, WireInv, Proper
    <3>2. \/ /\ SetStatus(r.booking, "CONFIRMED")
             /\ Vacant(bookings[r.booking].trip, bookings[r.booking].seat, r.booking)
          \/ SetStatus(r.booking, "CANCELLED")
        BY <2>3 DEF WriteConfirm, WriteCancel
    <3> QED
        BY <1>2, <3>1, <3>2, SettlingInLedger DEF CoreInv
  <2>4. ASSUME NEW b \in DOMAIN bookings, ExpireRow(b) PROVE Ledger!Next
    BY <1>2, <2>4, SettlingInLedger DEF ExpireRow, CoreInv
  <2>5. \/ UNCHANGED bookings
        \/ \E r \in wire : HoldSeat(r) \/ WriteConfirm(r) \/ WriteCancel(r)
        \/ \E b \in DOMAIN bookings : ExpireRow(b)
    BY <1>2 DEF Next, Continue, SendHold, SendConfirm, Released, TakeHold, TakeConfirm,
       TakeCancel, Pay, Home, Choose, Serve, LookUp, Store, GuardConfirm, GuardCancel, Lose,
       vars, server
  <2> QED
    BY <2>1, <2>2, <2>3, <2>4, <2>5
<1> QED
    BY <1>1, <1>2, CheckoutInductive, PTL DEF Spec, ImplementsLedger, Ledger!Spec

-----------------------------------------------------------------------------
(* The tickets.                                                            *)

\* The bookings stay what they are about.
SameRows ==
    \A b \in DOMAIN bookings :
        /\ b \in DOMAIN bookings'
        /\ bookings'[b].trip = bookings[b].trip /\ bookings'[b].seat = bookings[b].seat

\* Those somebody else may act on stay so.
StillShared == orphans \subseteq orphans' /\ again \subseteq again'

\* A good answer comes from the cache or was there before.
LEMMA OwnSeatKept ==
    ASSUME WireInv, OwnSeatInv, SameRows, UNCHANGED cache,
           step' \notin {"hold", "confirm"} \/ UNCHANGED <<step, held, seatIds>>,
           \A i \in DOMAIN held : held[i] \in DOMAIN bookings,
           \A q \in wire' :
               (q.op = "hold" /\ Succeeded(q.answer)) \/ (q.live /\ step' = "hold")
               => \E p \in wire :
                    /\ q.op = p.op /\ q.seat = p.seat /\ (q.live => p.live)
                    /\ q.op = "hold" /\ Succeeded(q.answer)
                         => q.answer = p.answer \/ q.answer = cache[q.seat]
    PROVE  OwnSeatInv'
<1>1. \A s \in Seat : Succeeded(cache[s]) => bookings'[cache[s].booking].seat = s
    BY DEF WireInv, Sound, OwnSeatInv, SameRows
<1>2. \A q \in wire' :
        q.op = "hold" /\ Succeeded(q.answer) => bookings'[q.answer.booking].seat = q.seat
  <2> SUFFICES ASSUME NEW q \in wire', q.op = "hold", Succeeded(q.answer)
               PROVE  bookings'[q.answer.booking].seat = q.seat
    OBVIOUS
  <2>1. PICK p \in wire : /\ q.op = p.op /\ q.seat = p.seat
                          /\ q.answer = p.answer \/ q.answer = cache[q.seat]
    OBVIOUS
  <2>2. Proper(p) /\ q.seat \in Seat
    BY <2>1 DEF WireInv, Proper
  <2>3. CASE q.answer = p.answer
    BY <2>1, <2>2, <2>3 DEF Proper, Sound, OwnSeatInv, SameRows
  <2>4. CASE q.answer = cache[q.seat]
    BY <1>1, <2>2, <2>4
  <2> QED
    BY <2>1, <2>3, <2>4
<1>3. step' = "hold" => \A q \in Live' : q.seat = seatIds'[Len(held') + 1]
    BY DEF OwnSeatInv, Live
<1>4. step' \in {"hold", "confirm"} =>
        \A i \in DOMAIN held' : bookings'[held'[i]].seat = seatIds'[i]
    BY DEF OwnSeatInv, SameRows
<1> QED
    BY <1>1, <1>2, <1>3, <1>4 DEF OwnSeatInv

\* No answer and no ticket is new, and the checkout holds nothing new.
LEMMA SoleKept ==
    ASSUME SoleInv, StillShared, UNCHANGED issued,
           \A i \in DOMAIN held' : \E j \in DOMAIN held : held[j] = held'[i],
           \A q \in wire' :
               q.op = "hold" /\ Succeeded(q.answer) =>
                   \/ Shared(q.answer.booking)'
                   \/ \E p \in wire : p.op = "hold" /\ p.answer = q.answer /\ (p.live => q.live)
    PROVE  SoleInv'
<1>1. \A b : Shared(b) => Shared(b)'
    BY DEF Shared, StillShared
<1>2. Ticketed' = Ticketed
    BY DEF Ticketed
<1>3. ASSUME NEW q \in wire', q.op = "hold", Succeeded(q.answer),
             ~(Shared(q.answer.booking)')
      PROVE  /\ q.live
             /\ \A i \in DOMAIN held' : held'[i] # q.answer.booking
             /\ q.answer.booking \notin Ticketed
  <2>1. PICK p \in wire : p.op = "hold" /\ p.answer = q.answer /\ (p.live => q.live)
    BY <1>3
  <2>2. /\ p.live /\ p.answer.booking \notin Ticketed
        /\ \A i \in DOMAIN held : held[i] # p.answer.booking
    BY <1>1, <1>3, <2>1 DEF SoleInv
  <2> QED
    BY <2>1, <2>2
<1>4. ASSUME NEW k \in issued, ~(Shared(k.booking)')
      PROVE  \A i \in DOMAIN held' : held'[i] # k.booking
  <2>1. \A i \in DOMAIN held : held[i] # k.booking
    BY <1>1, <1>4 DEF SoleInv
  <2> QED
    BY <2>1
<1> QED
    BY <1>2, <1>3, <1>4 DEF SoleInv

\* What was paid for stays so, and no ticket is new.
LEMMA TicketKept ==
    ASSUME CoreInv, TicketInv, SameRows, UNCHANGED issued,
           step' # "confirm" \/ UNCHANGED <<step, held, tickets>>,
           \A b \in DOMAIN bookings :
               PaidOnce(b) /\ (step = "confirm" \/ b \in Ticketed) => PaidOnce(b)',
           \A q \in Live' : q.op = "confirm" /\ Succeeded(q.answer) =>
               \/ PaidOnce(q.booking)'
               \/ \E p \in Live : p.op = q.op /\ p.booking = q.booking /\ p.answer = q.answer
    PROVE  TicketInv'
<1>1. (step = "confirm" => \A i \in 1 .. tickets : PaidOnce(held[i]))'
  <2> SUFFICES ASSUME step' = "confirm", NEW i \in 1 .. tickets PROVE PaidOnce(held[i])'
    BY DEF PaidOnce, Shared
  <2>1. step = "confirm" /\ held[i] \in DOMAIN bookings
    BY DEF CoreInv, TypeOK, WizardInv
  <2>2. PaidOnce(held[i])
    BY <2>1 DEF TicketInv
  <2>3. \A b \in DOMAIN bookings : PaidOnce(b) => PaidOnce(b)'
    BY <2>1
  <2> QED
    BY <2>1, <2>2, <2>3 DEF PaidOnce, Shared
<1>2. ASSUME NEW q \in Live', q.op = "confirm", Succeeded(q.answer) PROVE PaidOnce(q.booking)'
  <2> SUFFICES ASSUME NEW p \in Live, p.op = q.op, p.booking = q.booking, p.answer = q.answer
               PROVE  PaidOnce(q.booking)'
    BY <1>2
  <2>1. PaidOnce(p.booking) /\ p.booking \in DOMAIN bookings
    BY <1>2 DEF TicketInv, Live, CoreInv, WireInv, Proper
  <2>2. step = "confirm"
    BY <1>2 DEF CoreInv, TypeOK, WizardInv
  <2> QED
    BY <2>1, <2>2
<1>3. ASSUME NEW k \in issued
      PROVE  /\ k.booking \in DOMAIN bookings' /\ PaidOnce(k.booking)'
             /\ bookings'[k.booking].seat = k.seat
  <2>1. /\ k.booking \in DOMAIN bookings /\ PaidOnce(k.booking)
        /\ bookings[k.booking].seat = k.seat /\ k.booking \in Ticketed
    BY DEF TicketInv, Ticketed
  <2> QED
    BY <2>1 DEF SameRows
<1> QED
    BY <1>1, <1>2, <1>3 DEF TicketInv

\* When no status of a booking changes.
LEMMA SameBookings ==
    ASSUME UNCHANGED bookings, StillShared
    PROVE  SameRows /\ \A b \in DOMAIN bookings : PaidOnce(b) => PaidOnce(b)'
BY DEF SameRows, PaidOnce, Shared, StillShared

\* The rest of the invariant.
Shown == OwnSeatInv /\ SoleInv /\ TicketInv

LEMMA HeldKnown ==
    ASSUME CoreInv PROVE \A i \in DOMAIN held : held[i] \in DOMAIN bookings
BY DEF CoreInv, WizardInv

\* The answer of the cache to a hold that is waited for is about a seat not held so far,
\* and if a ticket has been shown for it, its booking is shared from now on.
LEMMA LookUpShows ==
    ASSUME IInv, NEW r \in wire, LookUp(r) PROVE Shown'
<1> USE DEF IInv, CoreInv
<1> DEFINE a == IF cache[r.seat] # NoAnswer THEN cache[r.seat] ELSE NoAnswer
           g == IF cache[r.seat] # NoAnswer THEN "done" ELSE "run"
           b == cache[r.seat].booking
           m == Moved(r, g, a)
<1>1. /\ r.op = "hold" /\ r.seat \in Seat /\ Becomes(r, g, a) /\ r \in Request
      /\ UNCHANGED <<server, browser, issued, orphans, lost>>
      /\ again \subseteq again'
      /\ cache[r.seat] # NoAnswer /\ r.live /\ b \in Ticketed => b \in again'
      /\ a \in Answer \cup {NoAnswer}
    BY DEF LookUp, TypeOK, WireInv, Proper, Request
<1>2. /\ wire' \subseteq (wire \ {r}) \cup {m} /\ m.op = r.op /\ m.seat = r.seat
      /\ m.live = r.live /\ m.answer = a
    BY <1>1, MovedOn
<1>3. Succeeded(m.answer) => cache[r.seat] # NoAnswer /\ m.answer = cache[r.seat]
    BY <1>2, NoAnswerSound
<1>4. Succeeded(m.answer) /\ m \in wire' \ wire => r.live
    BY <1>1, <1>2, <1>3 DEF Becomes, Moved
<1> HIDE DEF m, a, g
<1>5. StillShared /\ SameRows /\ \A c \in DOMAIN bookings : PaidOnce(c) => PaidOnce(c)'
    BY <1>1, SameBookings DEF server, StillShared
<1>6. OwnSeatInv'
    BY <1>1, <1>2, <1>3, <1>5, OwnSeatKept, HeldKnown DEF server, browser
<1>7. SoleInv'
  <2>1. ASSUME NEW q \in wire', q.op = "hold", Succeeded(q.answer), ~(Shared(q.answer.booking)')
        PROVE  /\ q.live
               /\ \A i \in DOMAIN held : held[i] # q.answer.booking
               /\ q.answer.booking \notin Ticketed
    <3>1. CASE q \in wire
        BY <1>5, <2>1, <3>1 DEF SoleInv, Shared, StillShared
    <3>2. CASE q = m /\ m \notin wire
        <4>1. q.live /\ r \in Live /\ q.answer.booking = b /\ cache[r.seat] # NoAnswer
            BY <1>2, <1>3, <1>4, <2>1, <3>2 DEF Live
        <4>2. b \notin Ticketed
            BY <1>1, <2>1, <4>1 DEF Shared, Live
        <4>3. step = "hold" /\ Len(held) < Len(seatIds)
            BY <1>1, <4>1 DEF WizardInv, TypeOK
        <4>4. /\ bookings[b].seat = r.seat /\ r.seat = seatIds[Len(held) + 1]
              /\ \A i \in DOMAIN held : bookings[held[i]].seat = seatIds[i]
            BY <1>1, <1>3, <2>1, <3>2, <4>1, <4>3 DEF OwnSeatInv
        <4>5. ASSUME NEW i \in DOMAIN held PROVE seatIds[i] # seatIds[Len(held) + 1]
            <5>1. i \in DOMAIN seatIds /\ Len(held) + 1 \in DOMAIN seatIds /\ i # Len(held) + 1
                BY <4>3 DEF TypeOK
            <5> QED
                BY <5>1 DEF WizardInv
        <4> HIDE DEF b
        <4> QED
            BY <4>1, <4>2, <4>4, <4>5
    <3> QED
        BY <1>2, <3>1, <3>2
  <2>2. Ticketed' = Ticketed /\ UNCHANGED <<held, issued>>
    BY <1>1 DEF Ticketed, browser
  <2>3. \A k \in issued : ~(Shared(k.booking)') => \A i \in DOMAIN held : held[i] # k.booking
    BY <1>5 DEF SoleInv, Shared, StillShared
  <2> QED
    BY <2>1, <2>2, <2>3 DEF SoleInv
<1>8. TicketInv'
  <2>1. \A q \in Live' : q.op = "confirm" => q \in Live
    BY <1>1, <1>2 DEF Live
  <2> QED
    BY <1>1, <1>5, <2>1, TicketKept DEF browser
<1> QED
    BY <1>6, <1>7, <1>8 DEF Shown

LEMMA StoreShows ==
    ASSUME IInv, NEW r \in wire, Store(r) PROVE Shown'
<1> USE DEF IInv, CoreInv
<1> DEFINE m == Moved(r, "done", r.answer)
<1>1. /\ r.op = "hold" /\ r.seat \in Seat /\ Becomes(r, "done", r.answer)
      /\ cache' = [cache EXCEPT ![r.seat] = r.answer]
      /\ UNCHANGED <<bookings, browser, issued, again, orphans, lost>>
      /\ r.answer \in Answer \cup {NoAnswer}
    BY DEF Store, Kept, TypeOK, WireInv, Proper, Request
<1>2. /\ wire' \subseteq (wire \ {r}) \cup {m} /\ m.op = r.op /\ m.seat = r.seat
      /\ m.live = r.live /\ m.answer = r.answer
    BY <1>1, MovedOn
<1> HIDE DEF m
<1>3. StillShared /\ SameRows /\ \A b \in DOMAIN bookings : PaidOnce(b) => PaidOnce(b)'
    BY <1>1, SameBookings DEF StillShared
<1>4. OwnSeatInv'
  <2>1. \A s \in Seat : Succeeded(cache'[s]) => bookings[cache'[s].booking].seat = s
    BY <1>1 DEF OwnSeatInv, TypeOK
  <2>2. \A q \in wire' :
            q.op = "hold" /\ Succeeded(q.answer) => bookings[q.answer.booking].seat = q.seat
    BY <1>2 DEF OwnSeatInv
  <2>3. step = "hold" => \A q \in Live' : q.seat = seatIds[Len(held) + 1]
    BY <1>2 DEF OwnSeatInv, Live
  <2> QED
    BY <1>1, <2>1, <2>2, <2>3 DEF OwnSeatInv, browser
<1>5. SoleInv'
    BY <1>1, <1>2, <1>3, SoleKept DEF browser
<1>6. TicketInv'
  <2>1. \A q \in Live' : q.op = "confirm" => q \in Live
    BY <1>1, <1>2 DEF Live
  <2> QED
    BY <1>1, <1>3, <2>1, TicketKept DEF browser
<1> QED
    BY <1>4, <1>5, <1>6 DEF Shown

\* A request moves on that brings no booking.
LEMMA MovedShows ==
    ASSUME IInv, NEW r \in wire, NEW g \in {"write", "store", "done"},
           NEW a \in Answer \cup {NoAnswer}, Becomes(r, g, a), r.op = "hold" => ~Succeeded(a),
           SameRows, UNCHANGED <<cache, browser, issued, again, orphans>>,
           \A b \in DOMAIN bookings :
               PaidOnce(b) /\ (step = "confirm" \/ b \in Ticketed) => PaidOnce(b)',
           r.op = "confirm" /\ Succeeded(a) => PaidOnce(r.booking)'
    PROVE  Shown'
<1> USE DEF IInv, CoreInv
<1> DEFINE m == Moved(r, g, a)
<1>1. /\ wire' \subseteq (wire \ {r}) \cup {m} /\ m.op = r.op /\ m.seat = r.seat
      /\ m.booking = r.booking /\ m.live = r.live /\ m.answer = a
    BY MovedOn
<1> HIDE DEF m
<1>2. OwnSeatInv'
    BY <1>1, OwnSeatKept, HeldKnown DEF browser
<1>3. SoleInv'
    BY <1>1, SoleKept DEF browser, StillShared
<1>4. TicketInv'
  <2>1. ASSUME NEW q \in Live', q.op = "confirm", Succeeded(q.answer)
        PROVE  PaidOnce(q.booking)' \/ q \in Live
    BY <1>1, <2>1 DEF Live
  <2> QED
    BY <2>1, TicketKept DEF browser
<1> QED
    BY <1>2, <1>3, <1>4 DEF Shown

\* A booking that is made is new to everybody.
LEMMA HoldSeatShows ==
    ASSUME IInv, NEW r \in wire, HoldSeat(r) PROVE Shown'
<1> USE DEF IInv, CoreInv
<1> DEFINE s == r.seat
           b == Len(bookings) + 1
           row == [trip |-> r.trip, seat |-> r.seat, status |-> "HELD"]
           a == [code |-> 201, booking |-> b]
           m == Moved(r, "store", a)
<1>1. /\ r.op = "hold" /\ s \in Seat /\ r.trip \in Trip
      /\ UNCHANGED <<cache, browser, issued, again, lost>>
    BY DEF HoldSeat, WireInv, Proper
<1>2. ASSUME NEW c \in Answer, NEW g \in {"store", "done"}, ~Succeeded(c), Becomes(r, g, c),
             UNCHANGED <<bookings, orphans>>
      PROVE  Shown'
  <2>1. SameRows /\ \A d \in DOMAIN bookings : PaidOnce(d) => PaidOnce(d)'
    BY <1>1, <1>2, SameBookings DEF StillShared
  <2> QED
    BY <1>1, <1>2, <2>1, MovedShows
<1>3. ASSUME Len(bookings) < MaxBooking, bookings' = Append(bookings, row),
             Becomes(r, "store", a),
             orphans' = IF r.live THEN orphans ELSE orphans \cup {b}
      PROVE  Shown'
  <2>1. /\ row \in [trip : Trip, seat : Seat, status : Status]
        /\ row.seat = s /\ b \in 0 .. MaxBooking
    BY <1>1, <1>3, CheckoutAssumption DEF Status, TypeOK
  <2>2. a \in Answer /\ Succeeded(a) /\ a.booking = b
    BY <2>1 DEF Answer, Succeeded
  <2>3. /\ wire' \subseteq (wire \ {r}) \cup {m} /\ m.op = r.op /\ m.seat = s
        /\ m.live = r.live /\ m.answer = a
    BY <1>3, <2>2, MovedOn
  <2>4. /\ DOMAIN bookings' = DOMAIN bookings \cup {b} /\ b \notin DOMAIN bookings
        /\ bookings'[b] = row
        /\ \A c \in DOMAIN bookings : bookings'[c] = bookings[c]
    BY <1>3, <2>1, Appended
  <2> HIDE DEF a, b, m, row, s
  <2>5. /\ StillShared /\ SameRows
        /\ \A c \in DOMAIN bookings : PaidOnce(c) => PaidOnce(c)'
    BY <1>1, <1>3, <2>4 DEF StillShared, SameRows, PaidOnce, Shared
  <2>6. OwnSeatInv'
    <3>1. \A z \in Seat : Succeeded(cache'[z]) => bookings'[cache'[z].booking].seat = z
        BY <1>1, <2>4 DEF OwnSeatInv, WireInv, Sound
    <3>2. \A q \in wire' :
            q.op = "hold" /\ Succeeded(q.answer) => bookings'[q.answer.booking].seat = q.seat
        BY <2>1, <2>2, <2>3, <2>4 DEF OwnSeatInv, WireInv, Proper, Sound
    <3>3. step = "hold" => \A q \in Live' : q.seat = seatIds[Len(held) + 1]
        BY <2>3 DEF OwnSeatInv, Live, s
    <3>4. \A i \in DOMAIN held : bookings'[held[i]] = bookings[held[i]]
        BY <2>4, HeldKnown
    <3> QED
        BY <1>1, <3>1, <3>2, <3>3, <3>4 DEF OwnSeatInv, browser
  <2>7. SoleInv'
    <3>1. (\A i \in DOMAIN held : held[i] # b) /\ b \notin Ticketed
        BY <2>4, HeldKnown DEF TicketInv, Ticketed
    <3>2. ASSUME NEW q \in wire', q.op = "hold", Succeeded(q.answer),
                 ~(Shared(q.answer.booking)')
          PROVE  /\ q.live
                 /\ \A i \in DOMAIN held : held[i] # q.answer.booking
                 /\ q.answer.booking \notin Ticketed
      <4>1. CASE q = m
        <5>1. r.live
            BY <1>3, <2>2, <2>3, <3>2, <4>1 DEF Shared
        <5> QED
            BY <2>2, <2>3, <3>1, <4>1, <5>1
      <4>2. CASE q \in wire
        BY <2>5, <3>2, <4>2 DEF SoleInv, Shared, StillShared
      <4> QED
        BY <2>3, <4>1, <4>2
    <3>3. Ticketed' = Ticketed /\ UNCHANGED <<held, issued>>
        BY <1>1 DEF Ticketed, browser
    <3>4. \A k \in issued : ~(Shared(k.booking)') => \A i \in DOMAIN held : held[i] # k.booking
        BY <2>5 DEF SoleInv, Shared, StillShared
    <3> QED
        BY <3>2, <3>3, <3>4 DEF SoleInv
  <2>8. TicketInv'
    <3>1. \A q \in Live' : q.op = "confirm" => q \in Live
        BY <1>1, <2>3 DEF Live
    <3> QED
        BY <1>1, <2>5, <3>1, TicketKept DEF browser
  <2> QED
    BY <2>6, <2>7, <2>8 DEF Shown
<1>4. CASE \E e \in Refusal : Becomes(r, "store", Refused(e)) /\ UNCHANGED <<bookings, orphans>>
    BY <1>2, <1>4, RefusalsFail
<1>5. CASE Becomes(r, "done", Failed) /\ UNCHANGED <<bookings, orphans>>
    BY <1>2, <1>5, FailedSound
<1> QED
    BY <1>3, <1>4, <1>5 DEF HoldSeat, Refusal

LEMMA GuardShows ==
    ASSUME IInv, NEW r \in wire, GuardConfirm(r) \/ GuardCancel(r) PROVE Shown'
<1>1. /\ r.op # "hold" /\ UNCHANGED <<server, browser, issued, again, orphans>>
      /\ \/ Becomes(r, "write", NoAnswer)
         \/ Becomes(r, "done", Refused("PaymentDeclined"))
         \/ Becomes(r, "done", Refused("IllegalTransition"))
    BY DEF GuardConfirm, GuardCancel
<1>2. PICK g \in {"write", "store", "done"}, a \in Answer \cup {NoAnswer} :
        Becomes(r, g, a) /\ ~Succeeded(a)
  <2>1. \A e \in {"PaymentDeclined", "IllegalTransition"} :
            Refused(e) \in Answer /\ ~Succeeded(Refused(e))
    BY RefusalsFail DEF Refusal
  <2> QED
    BY <1>1, <2>1, NoAnswerSound
<1>3. SameRows /\ \A b \in DOMAIN bookings : PaidOnce(b) => PaidOnce(b)'
    BY <1>1, SameBookings DEF server, StillShared
<1> QED
    BY <1>1, <1>2, <1>3, MovedShows DEF server

\* What is confirmed, or retired late, was paid for.
LEMMA WriteConfirmShows ==
    ASSUME IInv, NEW r \in wire, WriteConfirm(r) PROVE Shown'
<1> USE DEF IInv, CoreInv
<1> DEFINE b == r.booking
           a == [code |-> 200, booking |-> b]
<1>1. /\ r.op = "confirm" /\ b \in DOMAIN bookings /\ a \in Answer
      /\ UNCHANGED <<cache, browser, issued, again, orphans>>
  <2>1. r.op = "confirm" /\ UNCHANGED <<cache, browser, issued, again, orphans>>
    BY DEF WriteConfirm
  <2>2. b \in DOMAIN bookings
    BY <2>1 DEF WireInv, Proper
  <2> QED
    BY <2>1, <2>2, GoodSound
<1>2. CASE SetStatus(b, "CONFIRMED") /\ Becomes(r, "done", a)
  <2>1. /\ SameRows /\ bookings'[b].status = "CONFIRMED"
        /\ \A c \in DOMAIN bookings \ {b} : bookings'[c] = bookings[c]
    BY <1>1, <1>2, Settling DEF Status, SameRows
  <2>2. PaidOnce(b)' /\ \A c \in DOMAIN bookings : PaidOnce(c) => PaidOnce(c)'
    BY <1>1, <2>1 DEF PaidOnce, Shared
  <2> HIDE DEF a
  <2> QED
    BY <1>1, <1>2, <2>1, <2>2, MovedShows
<1>3. CASE Becomes(r, "done", Failed) /\ UNCHANGED bookings
  <2>1. SameRows /\ \A c \in DOMAIN bookings : PaidOnce(c) => PaidOnce(c)'
    BY <1>1, <1>3, SameBookings DEF StillShared
  <2> QED
    BY <1>1, <1>3, <2>1, FailedSound, MovedShows
<1> QED
    BY <1>2, <1>3 DEF WriteConfirm

\* What a cancellation hits is shared, or neither paid for nor on a ticket.
LEMMA WriteCancelShows ==
    ASSUME IInv, NEW r \in wire, WriteCancel(r) PROVE Shown'
<1> USE DEF IInv, CoreInv
<1> DEFINE b == r.booking
           a == [code |-> 200, booking |-> b]
<1>1. /\ r.op = "cancel" /\ b \in DOMAIN bookings /\ a \in Answer /\ Becomes(r, "done", a)
      /\ UNCHANGED <<cache, browser, issued, again, orphans>>
  <2>1. /\ r.op = "cancel" /\ Becomes(r, "done", a)
        /\ UNCHANGED <<cache, browser, issued, again, orphans>>
    BY DEF WriteCancel
  <2>2. b \in DOMAIN bookings
    BY <2>1 DEF WireInv, Proper
  <2> QED
    BY <2>1, <2>2, GoodSound
<1>2. /\ SameRows /\ bookings'[b].status = "CANCELLED"
      /\ \A c \in DOMAIN bookings \ {b} : bookings'[c] = bookings[c]
    BY <1>1, Settling DEF Status, SameRows, WriteCancel
<1> HIDE DEF a
<1>3. step = "confirm" \/ b \in Ticketed => Shared(b)
  <2>1. CASE ~r.live
    BY <1>1, <2>1 DEF GivenUpInv, Shared
  <2>2. CASE r.live
    <3>1. r \in Live /\ step = "release"
        BY <1>1, <2>2 DEF Live, WizardInv, TypeOK
    <3>2. PICK i \in DOMAIN held : held[i] = b
        BY <3>1 DEF WizardInv
    <3> QED
        BY <3>1, <3>2 DEF SoleInv, Ticketed
  <2> QED
    BY <2>1, <2>2
<1>4. \A c \in DOMAIN bookings :
        PaidOnce(c) /\ (step = "confirm" \/ c \in Ticketed) => PaidOnce(c)'
    BY <1>1, <1>2, <1>3 DEF PaidOnce, Shared
<1> QED
    BY <1>1, <1>2, <1>4, MovedShows

LEMMA ExpireRowShows ==
    ASSUME IInv, NEW b \in DOMAIN bookings, ExpireRow(b) PROVE Shown'
<1> USE DEF IInv, CoreInv
<1>1. UNCHANGED <<cache, wire, browser, issued, again, orphans>>
    BY DEF ExpireRow
<1>2. /\ SameRows /\ bookings'[b].status = "EXPIRED"
      /\ \A c \in DOMAIN bookings \ {b} : bookings'[c] = bookings[c]
    BY Settling DEF Status, SameRows, ExpireRow
<1>3. \A c \in DOMAIN bookings : PaidOnce(c) => PaidOnce(c)'
    BY <1>1, <1>2 DEF PaidOnce, Shared
<1>4. OwnSeatInv'
    BY <1>1, <1>2, OwnSeatKept, HeldKnown DEF browser
<1>5. SoleInv'
    BY <1>1, SoleKept DEF browser, StillShared
<1>6. TicketInv'
    BY <1>1, <1>2, <1>3, TicketKept DEF browser, Live
<1> QED
    BY <1>4, <1>5, <1>6 DEF Shown

\* The cart and the train change, or nothing does.
LEMMA AsideShows ==
    ASSUME IInv, UNCHANGED <<bookings, cache, wire, step, seatIds, held, tickets, issued,
                             again, orphans>>
    PROVE  Shown'
<1> USE DEF IInv, CoreInv
<1>1. StillShared /\ SameRows /\ \A b \in DOMAIN bookings : PaidOnce(b) => PaidOnce(b)'
    BY SameBookings DEF StillShared
<1>2. OwnSeatInv'
    BY <1>1, OwnSeatKept, HeldKnown
<1>3. SoleInv'
    BY <1>1, SoleKept
<1>4. TicketInv'
    BY <1>1, TicketKept DEF Live
<1> QED
    BY <1>2, <1>3, <1>4 DEF Shown

LEMMA PayShows == ASSUME IInv, Pay PROVE Shown'
<1> USE DEF IInv, CoreInv
<1>1. /\ step = "choosing" /\ step' = "hold"
      /\ UNCHANGED <<bookings, cache, wire, held, tickets, issued, again, orphans>>
    BY DEF Pay, server
<1>2. Live = {} /\ Live' = {} /\ held = <<>>
    BY <1>1 DEF WizardInv, Live
<1>3. StillShared /\ SameRows /\ \A b \in DOMAIN bookings : PaidOnce(b) => PaidOnce(b)'
    BY <1>1, SameBookings DEF StillShared
<1>4. OwnSeatInv'
    BY <1>1, <1>2 DEF OwnSeatInv
<1>5. SoleInv'
    BY <1>1, <1>3, SoleKept
<1>6. TicketInv'
    BY <1>1, <1>2, <1>3, TicketKept
<1> QED
    BY <1>4, <1>5, <1>6 DEF Shown

\* The checkout is not what it was, or over: no answer is about a booking it holds, but
\* those that nobody waits for any more.
LEMMA ReleaseShows ==
    ASSUME IInv, step' \in {"release", "choosing"},
           UNCHANGED <<bookings, cache, issued, again>>, orphans \subseteq orphans',
           \A i \in DOMAIN held' : \E j \in DOMAIN held : held[j] = held'[i],
           \A q \in wire' : q.op = "hold" =>
               \E p \in wire :
                   /\ p.op = "hold" /\ p.answer = q.answer /\ p.seat = q.seat
                   /\ Succeeded(q.answer) => Shared(q.answer.booking)' \/ (p.live => q.live),
           \A q \in Live' : q.op # "confirm"
    PROVE  Shown'
<1> USE DEF IInv, CoreInv
<1>1. StillShared /\ SameRows /\ \A b \in DOMAIN bookings : PaidOnce(b) => PaidOnce(b)'
    BY SameBookings DEF StillShared
<1>2. OwnSeatInv'
  <2>1. ASSUME NEW q \in wire', q.op = "hold", Succeeded(q.answer)
        PROVE  bookings[q.answer.booking].seat = q.seat
    <3>1. PICK p \in wire : p.op = "hold" /\ p.answer = q.answer /\ p.seat = q.seat
        BY <2>1
    <3> QED
        BY <2>1, <3>1 DEF OwnSeatInv
  <2>2. step' \notin {"hold", "confirm"}
    OBVIOUS
  <2> QED
    BY <2>1, <2>2 DEF OwnSeatInv
<1>3. SoleInv'
    BY <1>1, SoleKept
<1>4. TicketInv'
    BY <1>1, TicketKept
<1> QED
    BY <1>2, <1>3, <1>4 DEF Shown

\* The cancellations that are sent are not about holds.
LEMMA ReleaseAllShows ==
    ASSUME IInv, step \in {"hold", "confirm"}, NEW others, NEW c, ReleaseAll(others, c),
           UNCHANGED <<bookings, cache, issued, again>>, orphans \subseteq orphans',
           \A q \in others :
               /\ ~q.live
               /\ q.op = "hold" =>
                   \E p \in wire :
                       /\ p.op = "hold" /\ p.answer = q.answer /\ p.seat = q.seat
                       /\ Succeeded(q.answer) => Shared(q.answer.booking)' \/ (p.live => q.live)
    PROVE  Shown'
<1>1. /\ step' = "release" /\ UNCHANGED held
      /\ \A q \in wire' : q \in others \/ q.op = "cancel"
    BY DEF ReleaseAll, RequestAbout
<1> QED
    BY <1>1, ReleaseShows DEF Live

LEMMA SendHoldShows == ASSUME IInv, SendHold PROVE Shown'
<1> USE DEF IInv, CoreInv
<1> DEFINE s == seatIds[Len(held) + 1]
           m == HoldRequest(s)
<1>1. /\ step = "hold" /\ Live = {} /\ UNCHANGED <<bookings, cache, issued, again, orphans>>
    BY DEF SendHold, server
<1>2. CASE ReleaseAll(wire, FALSE)
    BY <1>1, <1>2, ReleaseAllShows DEF Live
<1>3. CASE wire' = wire \cup {m} /\ UNCHANGED browser
  <2>1. /\ m.op = "hold" /\ m.seat = s /\ ~Succeeded(m.answer)
    BY NoAnswerSound DEF HoldRequest
  <2> HIDE DEF m
  <2>2. StillShared /\ SameRows /\ \A b \in DOMAIN bookings : PaidOnce(b) => PaidOnce(b)'
    BY <1>1, SameBookings DEF StillShared
  <2>3. OwnSeatInv'
    BY <1>1, <1>3, <2>1 DEF OwnSeatInv, browser, Live
  <2>4. SoleInv'
    <3>1. \A q \in wire' : q.op = "hold" /\ Succeeded(q.answer) => q \in wire
        BY <1>3, <2>1
    <3> QED
        BY <1>1, <1>3, <2>2, <3>1, SoleKept DEF browser
  <2>5. TicketInv'
    BY <1>1, <1>3, <2>1, <2>2, TicketKept DEF browser, Live
  <2> QED
    BY <2>3, <2>4, <2>5 DEF Shown
<1> QED
    BY <1>2, <1>3 DEF SendHold

LEMMA SendConfirmShows == ASSUME IInv, SendConfirm PROVE Shown'
<1> USE DEF IInv, CoreInv
<1> DEFINE m == RequestAbout("confirm", held[tickets + 1])
<1>1. /\ step = "confirm" /\ wire' = wire \cup {m}
      /\ UNCHANGED <<bookings, cache, browser, issued, again, orphans>>
    BY DEF SendConfirm, server
<1>2. m.op = "confirm" /\ ~Succeeded(m.answer)
    BY NoAnswerSound DEF RequestAbout
<1> HIDE DEF m
<1>3. StillShared /\ SameRows /\ \A b \in DOMAIN bookings : PaidOnce(b) => PaidOnce(b)'
    BY <1>1, SameBookings DEF StillShared
<1>4. OwnSeatInv'
    BY <1>1, <1>2, <1>3, OwnSeatKept, HeldKnown DEF browser
<1>5. SoleInv'
    BY <1>1, <1>2, <1>3, SoleKept DEF browser
<1>6. TicketInv'
  <2>1. ASSUME NEW q \in Live', q.op = "confirm", Succeeded(q.answer) PROVE q \in Live
    BY <1>1, <1>2, <2>1 DEF Live
  <2> QED
    BY <1>1, <1>3, <2>1, TicketKept DEF browser
<1> QED
    BY <1>4, <1>5, <1>6 DEF Shown

\* What the answer was alone with is now the checkout's.
LEMMA TakeHoldShows == ASSUME IInv, NEW r \in wire, TakeHold(r) PROVE Shown'
<1> USE DEF IInv, CoreInv
<1> DEFINE b == r.answer.booking
<1>1. /\ step = "hold" /\ r \in Live /\ r.op = "hold"
      /\ UNCHANGED <<bookings, cache, issued, again, orphans>>
    BY DEF TakeHold, server
<1>2. Live = {r} /\ tickets = 0 /\ Len(held) < Len(seatIds)
    BY <1>1 DEF WizardInv
<1>3. CASE ReleaseAll(wire \ {r}, Conflict(r.answer))
  <2>1. \A q \in wire \ {r} : ~q.live /\ q \in wire
    BY <1>2 DEF Live
  <2> QED
    BY <1>1, <1>3, <2>1, ReleaseAllShows
<1>4. ASSUME Succeeded(r.answer), wire' = wire \ {r}, held' = Append(held, b),
             step' \in {"hold", "confirm"}, UNCHANGED <<seatIds, tickets>>
      PROVE  Shown'
  <2>1. b \in DOMAIN bookings /\ b \in Booking
    BY <1>1, <1>4, CheckoutAssumption DEF WireInv, Proper, Sound, TypeOK, Booking
  <2>2. bookings[b].seat = seatIds[Len(held) + 1]
    BY <1>1, <1>4 DEF OwnSeatInv
  <2>3. ~Shared(b) => (\A i \in DOMAIN held : held[i] # b) /\ b \notin Ticketed
    BY <1>1, <1>4 DEF SoleInv
  <2> HIDE DEF b
  <2>4. \A i \in DOMAIN held' :
            \/ i \in DOMAIN held /\ held'[i] = held[i]
            \/ i = Len(held) + 1 /\ held'[i] = b
    <3>1. held \in Seq(Booking)
        BY DEF TypeOK
    <3> QED
        BY <1>4, <2>1, <3>1
  <2>5. Live' = {} /\ \A q \in wire' : q \in wire /\ ~q.live
    BY <1>2, <1>4 DEF Live
  <2>6. \A c : Shared(c)' <=> Shared(c)
    BY <1>1 DEF Shared
  <2>7. OwnSeatInv'
    BY <1>1, <1>4, <2>2, <2>4, <2>5 DEF OwnSeatInv
  <2>8. SoleInv'
    <3>1. \A q \in wire' : q.op = "hold" /\ Succeeded(q.answer) => Shared(q.answer.booking)'
        BY <2>5, <2>6 DEF SoleInv
    <3>2. ASSUME NEW k \in issued, ~Shared(k.booking), NEW i \in DOMAIN held'
          PROVE  held'[i] # k.booking
        BY <2>3, <2>4, <3>2 DEF SoleInv, Ticketed
    <3> QED
        BY <1>1, <2>6, <3>1, <3>2 DEF SoleInv
  <2>9. TicketInv'
    BY <1>1, <1>2, <1>4, <2>5, <2>6 DEF TicketInv, PaidOnce
  <2> QED
    BY <2>7, <2>8, <2>9 DEF Shown
<1> QED
    BY <1>3, <1>4 DEF TakeHold

\* The tickets shown are those that were answered with receipts.
LEMMA TakeConfirmShows == ASSUME IInv, NEW r \in wire, TakeConfirm(r) PROVE Shown'
<1> USE DEF IInv, CoreInv
<1>1. /\ step = "confirm" /\ r \in Live /\ r.op = "confirm"
      /\ UNCHANGED <<bookings, cache, again, orphans>>
    BY DEF TakeConfirm, server
<1>2. /\ Live = {r} /\ tickets < Len(held) /\ Len(held) = Len(seatIds)
      /\ r.booking = held[tickets + 1]
    BY <1>1 DEF WizardInv
<1>3. \A q \in wire \ {r} : ~q.live /\ q \in wire
    BY <1>2 DEF Live
<1>4. CASE UNCHANGED issued /\ ReleaseAll(wire \ {r}, FALSE)
    BY <1>1, <1>3, <1>4, ReleaseAllShows
<1>5. ASSUME Succeeded(r.answer), wire' = wire \ {r},
             \/ /\ tickets + 1 < Len(held)
                /\ tickets' = tickets + 1
                /\ UNCHANGED <<step, seatIds, held, issued>>
             \/ /\ tickets + 1 = Len(held)
                /\ issued' = issued \cup Tickets
                /\ step' = "choosing" /\ held' = <<>>
      PROVE  Shown'
  <2>1. Live' = {} /\ \A q \in wire' : q \in wire /\ ~q.live
    BY <1>3, <1>5 DEF Live
  <2>2. \A c : (Shared(c)' <=> Shared(c)) /\ (PaidOnce(c)' <=> PaidOnce(c))
    BY <1>1 DEF Shared, PaidOnce
  <2>3. \A i \in 1 .. tickets + 1 : PaidOnce(held[i])
    <3>1. PaidOnce(held[tickets + 1]) /\ \A i \in 1 .. tickets : PaidOnce(held[i])
        BY <1>1, <1>2, <1>5 DEF TicketInv
    <3>2. \A i \in 1 .. tickets + 1 : i \in 1 .. tickets \/ i = tickets + 1
        BY DEF TypeOK
    <3> QED
        BY <3>1, <3>2
  <2>4. \A q \in wire' : q.op = "hold" /\ Succeeded(q.answer) => Shared(q.answer.booking)'
    BY <2>1, <2>2 DEF SoleInv
  <2>5. CASE tickets + 1 < Len(held) /\ tickets' = tickets + 1
             /\ UNCHANGED <<step, seatIds, held, issued>>
    <3>1. OwnSeatInv'
        BY <1>1, <2>1, <2>5 DEF OwnSeatInv
    <3>2. SoleInv'
        BY <2>2, <2>4, <2>5 DEF SoleInv
    <3>3. TicketInv'
        BY <1>1, <2>1, <2>2, <2>3, <2>5 DEF TicketInv, PaidOnce, Shared
    <3> QED
        BY <3>1, <3>2, <3>3 DEF Shown
  <2>6. CASE tickets + 1 = Len(held) /\ issued' = issued \cup Tickets
             /\ step' = "choosing" /\ held' = <<>>
    <3>1. OwnSeatInv'
        BY <1>1, <2>1, <2>6 DEF OwnSeatInv
    <3>2. SoleInv'
        BY <2>4, <2>6 DEF SoleInv
    <3>3. ASSUME NEW k \in Tickets
          PROVE  /\ k.booking \in DOMAIN bookings /\ PaidOnce(k.booking)
                 /\ bookings[k.booking].seat = k.seat
      <4>1. PICK i \in DOMAIN held : k.booking = held[i] /\ k.seat = seatIds[i]
        BY DEF Tickets
      <4>2. i \in 1 .. tickets + 1
        BY <2>6 DEF TypeOK
      <4> QED
        BY <1>1, <2>3, <4>1, <4>2, HeldKnown DEF OwnSeatInv
    <3>4. ASSUME NEW k \in issued'
          PROVE  /\ k.booking \in DOMAIN bookings /\ PaidOnce(k.booking)
                 /\ bookings[k.booking].seat = k.seat
        BY <2>6, <3>3 DEF TicketInv
    <3>5. TicketInv'
        BY <1>1, <2>1, <2>2, <2>6, <3>4 DEF TicketInv
    <3> QED
        BY <3>1, <3>2, <3>5 DEF Shown
  <2> QED
    BY <1>5, <2>5, <2>6
<1> QED
    BY <1>4, <1>5 DEF TakeConfirm, PaidFor

LEMMA TakeCancelShows == ASSUME IInv, NEW r \in wire, TakeCancel(r) PROVE Shown'
<1>1. /\ step = "release" /\ wire' = wire \ {r}
      /\ UNCHANGED <<bookings, cache, browser, issued, again, orphans>>
    BY DEF TakeCancel, server
<1>2. UNCHANGED <<step, held>> /\ \A q \in Live' : q.op # "confirm"
    BY <1>1 DEF IInv, CoreInv, WizardInv, Live, browser
<1> QED
    BY <1>1, <1>2, ReleaseShows

LEMMA ReleasedShows == ASSUME IInv, Released PROVE Shown'
<1>1. /\ Live = {} /\ step' = "choosing" /\ held' = <<>>
      /\ UNCHANGED <<bookings, cache, wire, issued, again, orphans>>
    BY DEF Released, server
<1>2. Live' = {}
    BY <1>1 DEF Live
<1> QED
    BY <1>1, <1>2, ReleaseShows

\* An answer that is given up on makes its booking shared.
LEMMA LoseShows == ASSUME IInv, NEW r \in wire, Lose(r) PROVE Shown'
<1> USE DEF IInv, CoreInv
<1> DEFINE m == Abandoned(r)
           others == Others(r)
<1>1. /\ r \in Live /\ orphans' = orphans \cup LeftOpen(r)
      /\ \/ r.op # "cancel" /\ ReleaseAll(others, FALSE)
         \/ r.op = "cancel" /\ wire' = others /\ UNCHANGED browser
      /\ UNCHANGED <<bookings, cache, issued, again>>
    BY DEF Lose, server, Others, Abandoned
<1>2. /\ m.op = r.op /\ m.seat = r.seat /\ m.answer = r.answer /\ ~m.live
      /\ others \subseteq (wire \ {r}) \cup {m}
    BY <1>1, GivenUp
<1> HIDE DEF m, others
<1>3. r.op = "hold" /\ Succeeded(r.answer) => Shared(r.answer.booking)'
  <2> SUFFICES ASSUME r.op = "hold", Succeeded(r.answer) PROVE Shared(r.answer.booking)'
    OBVIOUS
  <2>1. r.answer.booking \in DOMAIN bookings
    BY DEF WireInv, Proper, Sound
  <2>2. r.answer.booking # 0
    BY <2>1 DEF TypeOK
  <2> QED
    BY <1>1, <2>2 DEF LeftOpen, Shared
<1>4. \A q \in others : q.op = "hold" =>
        \E p \in wire :
            /\ p.op = "hold" /\ p.answer = q.answer /\ p.seat = q.seat
            /\ Succeeded(q.answer) => Shared(q.answer.booking)' \/ (p.live => q.live)
    BY <1>2, <1>3
<1>5. CASE r.op # "cancel"
  <2>1. step \in {"hold", "confirm"} /\ Live = {r}
    BY <1>1, <1>5 DEF TypeOK, WizardInv
  <2>2. \A q \in others : ~q.live
    BY <1>2, <2>1 DEF Live
  <2> QED
    BY <1>1, <1>4, <1>5, <2>1, <2>2, ReleaseAllShows
<1>6. CASE r.op = "cancel"
  <2>1. step = "release" /\ wire' = others /\ UNCHANGED <<step, held>>
    BY <1>1, <1>6 DEF TypeOK, WizardInv, browser
  <2>2. \A q \in Live' : q.op # "confirm"
    BY <1>2, <1>6, <2>1 DEF Live, WizardInv
  <2> QED
    BY <1>1, <1>4, <2>1, <2>2, ReleaseShows
<1> QED
    BY <1>5, <1>6

LEMMA InitShows == Init => Shown
BY NoAnswerSound DEF Init, Shown, OwnSeatInv, SoleInv, TicketInv, Live

LEMMA NextShows == IInv /\ [Next]_vars => Shown'
<1> SUFFICES ASSUME IInv, [Next]_vars PROVE Shown'
    OBVIOUS
<1>1. CASE Continue
    BY <1>1, SendHoldShows, SendConfirmShows, ReleasedShows, TakeHoldShows,
       TakeConfirmShows, TakeCancelShows DEF Continue
<1>2. CASE Pay
    BY <1>2, PayShows
<1>3. CASE Home
    BY <1>3, AsideShows DEF Home, server
<1>4. ASSUME NEW t \in Trip, NEW c \in Carts, Choose(t, c) PROVE Shown'
    BY <1>4, AsideShows DEF Choose, server
<1>5. ASSUME NEW r \in wire, Serve(r) PROVE Shown'
    BY <1>5, LookUpShows, HoldSeatShows, StoreShows, GuardShows, WriteConfirmShows,
       WriteCancelShows DEF Serve
<1>6. ASSUME NEW r \in wire, Lose(r) PROVE Shown'
    BY <1>6, LoseShows
<1>7. ASSUME NEW b \in DOMAIN bookings, ExpireRow(b) PROVE Shown'
    BY <1>7, ExpireRowShows
<1>8. CASE UNCHANGED vars
    BY <1>8, AsideShows DEF vars
<1> QED
    BY <1>1, <1>2, <1>3, <1>4, <1>5, <1>6, <1>7, <1>8 DEF Next

\* The whole invariant, for any number of trains: a booking that is not shared is in one
\* answer, with the checkout or on a ticket, and what is confirmed or on a ticket was paid
\* for.
THEOREM TicketsInductive == Spec => []IInv
<1>1. Init => IInv
    BY InitHolds, InitServes, InitShows DEF IInv, Shown
<1>2. IInv /\ [Next]_vars => IInv'
    BY NextKeeps, NextServes, NextShows DEF IInv, Shown
<1> QED
    BY <1>1, <1>2, PTL DEF Spec

\* Every ticket the wizard shows is of a booking of its seat that was paid for; only a row
\* retired late, or the cancellation of a booking that more than one request is about,
\* undoes it.
THEOREM TicketsAreTheServers == Spec => []TicketsMatch
<1>1. IInv => TicketsMatch
    BY DEF IInv, TicketInv, PaidOnce, Shared, TicketsMatch
<1> QED
    BY <1>1, TicketsInductive, PTL
=============================================================================
