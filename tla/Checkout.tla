------------------------------ MODULE Checkout ------------------------------
(***************************************************************************)
(* One browser against the HTTP edge: the group checkout of                *)
(* BookingWizard.svelte, which holds the seats of a cart one by one, pays  *)
(* for them one by one and cancels what it has when anything fails, and    *)
(* the middleware of idempotency.py, which answers a repeated hold from    *)
(* its cache.  Behind them confirm_booking, cancel_booking and expire_due  *)
(* read a status first and later overwrite it by primary key, so that      *)
(* whatever they have decided may come late (module BookingTx has their    *)
(* statements one by one).                                                 *)
(*                                                                         *)
(* The browser books one leg, at both ends of which the trains call, for   *)
(* one passenger, so that the idempotency key `hold:{seat}:{leg}:{nic}` is *)
(* the seat; one checkout at a time goes on.  Requests may be lost, and so *)
(* may their answers: fetch rejects, while the server may still be at work *)
(* on the request.  The server stays up and connected to its database.     *)
(***************************************************************************)
EXTENDS BookingStatus, Errors, Integers, Sequences, FiniteSets

CONSTANTS
    Trip, Seat, NoTrip,
    MaxBooking,     \* bound on the bookings of this passenger
    MaxLost,        \* bound on the answers that get lost
    MaxCart         \* bound on the seats of a cart, and the answers lost before, together

ASSUME CheckoutAssumption ==
    NoTrip \notin Trip /\ MaxBooking \in Nat /\ MaxLost \in Nat /\ MaxCart \in Nat

Booking == 1 .. MaxBooking

VARIABLES
    \* the server
    bookings,   \* this passenger's bookings, in the order they were made
    cache,      \* idempotency.py: the answer kept for each key
    wire,       \* the requests under way
    \* the browser
    step,       \* what reserveAndPayGroup is doing
    train,      \* flow.train
    cart,       \* flow.seatIds, those whose passenger is typed in
    seatIds,    \* the seats being checked out
    held,       \* the bookings the hold requests were answered with
    tickets,    \* how many of them are confirmed
    conflict,   \* whether a seat was refused with 409
    \* history
    issued,     \* the tickets shown: a booking, beside the seat it was asked for
    again,      \* the bookings a hold was answered with although they were on a ticket
    orphans,    \* the bookings a lost answer was about
    lost        \* how many answers have been lost

server == <<bookings, cache>>
browser == <<step, train, cart, seatIds, held, tickets, conflict>>
vars == <<bookings, cache, wire, step, train, cart, seatIds, held, tickets,
          conflict, issued, again, orphans, lost>>

Status == {"HELD", "CONFIRMED", "CANCELLED", "EXPIRED"}

\* The ways in which the routes of a booking refuse.
Refusal ==
    {"OverlapError", "SeatCapExceeded", "VelocityExceeded", "AbuseSuspected",
     "PaymentDeclined", "IllegalTransition"}

\* The HTTP status of an answer and the booking in its body, 0 where there is none.
\* 500 is what an exception without a handler becomes.
Answer ==
    [code : {200, 201, 500} \cup {StatusFor[e] : e \in Refusal}, booking : 0 .. MaxBooking]
NoAnswer == [code |-> 0, booking |-> 0]

\* stage "lookup": to be looked up; "run": to be handled; "write": past its guard, and to
\* write; "store": the answer is to be kept; "done": answered.  live: the browser waits
\* for it.  after: how many answers had been lost when it was sent, which tells it from an
\* earlier one that is still about.
Request ==
    [op : {"hold", "confirm", "cancel"}, trip : Trip \cup {NoTrip}, seat : Seat \cup {0},
     booking : 0 .. MaxBooking, stage : {"lookup", "run", "write", "store", "done"},
     answer : Answer \cup {NoAnswer}, live : BOOLEAN, after : 0 .. MaxLost]

TypeOK ==
    /\ bookings \in Seq([trip : Trip, seat : Seat, status : Status])
    /\ Len(bookings) <= MaxBooking
    /\ cache \in [Seat -> Answer \cup {NoAnswer}]
    /\ wire \subseteq Request
    /\ step \in {"choosing", "hold", "confirm", "release"}
    /\ train \in Trip \cup {NoTrip}
    /\ cart \subseteq Seat /\ seatIds \in Seq(Seat) /\ held \in Seq(Booking)
    /\ tickets \in 0 .. Len(held)
    /\ conflict \in BOOLEAN
    /\ issued \subseteq [booking : Booking, seat : Seat]
    /\ again \subseteq Booking /\ orphans \subseteq Booking
    /\ lost \in 0 .. MaxLost

-----------------------------------------------------------------------------
(* The server.                                                             *)

ActiveBooking(b) == bookings[b].status \in Active

\* The bookings the passenger has been shown a ticket for.
Ticketed == {k.booking : k \in issued}

\* Fault: a passenger is not in their own way.
VacantForOneself(t, s, b) == TRUE

\* The passenger has no other booking than b that is in the way on seat s of train t;
\* somebody else may have one.
Vacant(t, s, b) ==
    \A c \in DOMAIN bookings \ {b} :
        ActiveBooking(c) => ~(bookings[c].trip = t /\ bookings[c].seat = s)

\* The server is done with request r, or moves on with it; an answer that nobody waits
\* for is gone.
Becomes(r, stage, answer) ==
    wire' = (wire \ {r}) \cup
                {q \in {[r EXCEPT !.stage = stage, !.answer = answer]} : q.live \/ stage # "done"}

\* IdempotencyMiddleware.dispatch: a key with an answer is answered with it.
LookUp(r) ==
    /\ r.stage = "lookup"
    /\ \/ /\ cache[r.seat] # NoAnswer
          /\ Becomes(r, "done", cache[r.seat])
          /\ again' = again \cup
                {b \in Ticketed : r.live /\ b = cache[r.seat].booking}
       \/ cache[r.seat] = NoAnswer /\ Becomes(r, "run", NoAnswer) /\ UNCHANGED again
    /\ UNCHANGED <<server, browser, issued, orphans, lost>>

\* Fault: the status is kept without the body.
KeptStatusOnly(answer) == [answer EXCEPT !.booking = 0]

\* Fault: only a refusal is kept.
KeptRefusal(answer) == IF answer.booking = 0 THEN answer ELSE NoAnswer

\* What is kept of an answer.
Kept(answer) == answer

\* Whatever the answer is, it is kept.
Store(r) ==
    /\ r.stage = "store"
    /\ cache' = [cache EXCEPT ![r.seat] = Kept(r.answer)]
    /\ Becomes(r, "done", r.answer)
    /\ UNCHANGED <<bookings, browser, issued, again, orphans, lost>>

\* The answer to a request that violates rule e.
Refused(e) == [code |-> StatusFor[e], booking |-> 0]

\* An exception nobody translates; it passes the cache by.
Failed == [code |-> 500, booking |-> 0]

\* hold_seat: a passenger over a limit is refused, and so is one who meets another booking
\* of the seat, their own or anybody's; a deadlock with other inserts fails.
HoldSeat(r) ==
    /\ r.op = "hold" /\ r.stage = "run"
    /\ \/ /\ Vacant(r.trip, r.seat, 0) /\ Len(bookings) < MaxBooking
          /\ LET b == Len(bookings) + 1
             IN  /\ bookings' = Append(bookings, [trip |-> r.trip, seat |-> r.seat,
                                                  status |-> "HELD"])
                 /\ Becomes(r, "store", [code |-> 201, booking |-> b])
                 /\ orphans' = IF r.live THEN orphans ELSE orphans \cup {b}
       \/ /\ \E e \in {"OverlapError", "SeatCapExceeded", "VelocityExceeded", "AbuseSuspected"} :
                Becomes(r, "store", Refused(e))
          /\ UNCHANGED <<bookings, orphans>>
       \/ Becomes(r, "done", Failed) /\ UNCHANGED <<bookings, orphans>>
    /\ UNCHANGED <<cache, browser, issued, again, lost>>

\* Request r is past its guard, or refused.
GuardConfirm(r) ==
    /\ r.op = "confirm" /\ r.stage = "run"
    /\ \/ /\ CanApply(bookings[r.booking].status, "CONFIRM")
          /\ Becomes(r, "write", NoAnswer) \/ Becomes(r, "done", Refused("PaymentDeclined"))
       \* it is no hold any more, or its own expire_due has just found it lapsed
       \/ Becomes(r, "done", Refused("IllegalTransition"))
    /\ UNCHANGED <<server, browser, issued, again, orphans, lost>>

GuardCancel(r) ==
    /\ r.op = "cancel" /\ r.stage = "run"
    /\ \/ CanApply(bookings[r.booking].status, "CANCEL") /\ Becomes(r, "write", NoAnswer)
       \/ /\ ~CanApply(bookings[r.booking].status, "CANCEL")
          /\ Becomes(r, "done", Refused("IllegalTransition"))
    /\ UNCHANGED <<server, browser, issued, again, orphans, lost>>

\* set_status, and what expire_due does to a row: whatever the status is by now.
SetStatus(b, s) == bookings' = [bookings EXCEPT ![b].status = s]

\* The rest of confirm_booking.  A booking that is active again may meet another on its
\* seat, and the error of the constraint has no handler; nor has a deadlock.
WriteConfirm(r) ==
    /\ r.op = "confirm" /\ r.stage = "write"
    /\ \/ /\ Vacant(bookings[r.booking].trip, bookings[r.booking].seat, r.booking)
          /\ SetStatus(r.booking, "CONFIRMED")
          /\ Becomes(r, "done", [code |-> 200, booking |-> r.booking])
       \/ Becomes(r, "done", Failed) /\ UNCHANGED bookings
    /\ UNCHANGED <<cache, browser, issued, again, orphans, lost>>

\* The rest of cancel_booking.
WriteCancel(r) ==
    /\ r.op = "cancel" /\ r.stage = "write"
    /\ SetStatus(r.booking, "CANCELLED")
    /\ Becomes(r, "done", [code |-> 200, booking |-> r.booking])
    /\ UNCHANGED <<cache, browser, issued, again, orphans, lost>>

\* The expire_due of some request retires booking b, which it selected when b was still a
\* hold out of time: now or much later, whatever has become of b since.
ExpireRow(b) ==
    /\ SetStatus(b, "EXPIRED")
    /\ UNCHANGED <<cache, wire, browser, issued, again, orphans, lost>>

-----------------------------------------------------------------------------
(* The browser.                                                            *)

Live == {r \in wire : r.live}

HoldRequest(s) ==
    [op |-> "hold", trip |-> train, seat |-> s, booking |-> 0, stage |-> "lookup",
     answer |-> NoAnswer, live |-> TRUE, after |-> lost]

\* Requests without a key pass the middleware by.
RequestAbout(op, b) ==
    [op |-> op, trip |-> NoTrip, seat |-> 0, booking |-> b, stage |-> "run",
     answer |-> NoAnswer, live |-> TRUE, after |-> lost]

\* handleSelectTrain and the seats and passenger steps: a train is chosen and seats that
\* look free on a page that may be out of date, also while a checkout goes on, which is
\* not told.
Choose(t, seats) ==
    /\ train' = t /\ cart' = seats
    /\ UNCHANGED <<server, wire, step, seatIds, held, tickets, conflict, issued, again,
                   orphans, lost>>

\* goHome, at any time too.
Home ==
    /\ train # NoTrip
    /\ train' = NoTrip /\ cart' = {}
    /\ UNCHANGED <<server, wire, step, seatIds, held, tickets, conflict, issued, again,
                   orphans, lost>>

\* The orders in which the seats of a cart can have been picked.
Orders(seats) ==
    {c \in [1 .. Cardinality(seats) -> seats] : \A i, j \in DOMAIN c : c[i] = c[j] => i = j}

\* reserveAndPayGroup
Pay ==
    /\ step = "choosing" /\ cart # {}
    /\ step' = "hold" /\ seatIds' \in Orders(cart)
    /\ UNCHANGED <<server, wire, train, cart, held, tickets, conflict, issued, again,
                   orphans, lost>>

\* Fault: what is paid for already is not cancelled.
ToReleaseUnpaid == {held[i] : i \in tickets + 1 .. Len(held)}

\* releaseAll: every booking held so far.
ToRelease == {held[i] : i \in DOMAIN held}

\* Something failed: the cancellations are sent, all at once, beside the other requests.
ReleaseAll(others, is409) ==
    /\ step' = "release"
    /\ wire' = others \cup {RequestAbout("cancel", b) : b \in ToRelease}
    /\ conflict' = is409
    /\ UNCHANGED <<train, cart, seatIds, held, tickets>>

\* flow.train and flow.passengers[seatId] are there, as they are no more once the
\* passenger has gone home or has chosen anew.
StillChosen(s) == train # NoTrip /\ s \in cart

\* The next hold of the loop, if its arguments can be computed.
SendHold ==
    LET s == seatIds[Len(held) + 1]
    IN  /\ step = "hold" /\ Live = {}
        /\ \/ ~StillChosen(s) /\ ReleaseAll(wire, FALSE)
           \/ /\ StillChosen(s)
              /\ wire' = wire \cup {HoldRequest(s)}
              /\ UNCHANGED browser
        /\ UNCHANGED <<server, issued, again, orphans, lost>>

\* errorForStatus: a ConflictError.
Conflict(answer) == answer.code = 409

\* res.ok
Succeeded(answer) == answer.code \in 200 .. 299

TakeHold(r) ==
    /\ step = "hold" /\ r \in Live /\ r.op = "hold" /\ r.stage = "done"
    /\ \/ /\ Succeeded(r.answer)
          /\ wire' = wire \ {r}
          /\ held' = Append(held, r.answer.booking)
          /\ step' = IF Len(held') = Len(seatIds) THEN "confirm" ELSE "hold"
          /\ UNCHANGED <<train, cart, seatIds, tickets, conflict>>
       \/ ~Succeeded(r.answer) /\ ReleaseAll(wire \ {r}, Conflict(r.answer))
    /\ UNCHANGED <<server, issued, again, orphans, lost>>

SendConfirm ==
    /\ step = "confirm" /\ Live = {}
    /\ wire' = wire \cup {RequestAbout("confirm", held[tickets + 1])}
    /\ UNCHANGED <<server, browser, issued, again, orphans, lost>>

\* The tickets of the checkout, once all are confirmed.
Tickets ==
    {[booking |-> held[i], seat |-> seatIds[i]] : i \in DOMAIN held}

\* Fault: only a declined charge counts as a failure.
PaidForUnlessDeclined(answer) == answer.code # 402

\* api.confirm returns a receipt.
PaidFor(answer) == Succeeded(answer)

\* A ticket needs the passenger of its seat.  The receipts are shown when all tickets are
\* there, wherever the passenger has gone meanwhile, and lead back home.
TakeConfirm(r) ==
    LET good == PaidFor(r.answer) /\ StillChosen(seatIds[tickets + 1])
    IN  /\ step = "confirm" /\ r \in Live /\ r.op = "confirm" /\ r.stage = "done"
        /\ \/ /\ good
              /\ wire' = wire \ {r}
              /\ \/ /\ tickets + 1 < Len(held)
                    /\ tickets' = tickets + 1
                    /\ UNCHANGED <<step, train, cart, seatIds, held, issued>>
                 \/ /\ tickets + 1 = Len(held)
                    /\ issued' = issued \cup Tickets
                    /\ step' = "choosing" /\ train' = NoTrip /\ cart' = {}
                    /\ seatIds' = <<>> /\ held' = <<>> /\ tickets' = 0
              /\ UNCHANGED conflict
           \/ ~good /\ ReleaseAll(wire \ {r}, FALSE) /\ UNCHANGED issued
        /\ UNCHANGED <<server, again, orphans, lost>>

\* Fault: a cancellation that is refused rejects releaseAll.
SettledIfAccepted(r) == r.stage = "done" /\ Succeeded(r.answer)

\* api.cancel(...).catch(() => {})
Settled(r) == r.stage = "done"

TakeCancel(r) ==
    /\ step = "release" /\ r \in Live /\ Settled(r)
    /\ wire' = wire \ {r}
    /\ UNCHANGED <<server, browser, issued, again, orphans, lost>>

\* busy = false.  After a 409 the seat leaves the cart.
Released ==
    /\ step = "release" /\ Live = {}
    /\ step' = "choosing"
    /\ cart' = IF conflict THEN cart \ {seatIds[Len(held) + 1]} ELSE cart
    /\ seatIds' = <<>> /\ held' = <<>> /\ tickets' = 0 /\ conflict' = FALSE
    /\ UNCHANGED <<server, wire, train, issued, again, orphans, lost>>

-----------------------------------------------------------------------------
(* The network.                                                            *)

\* The bookings whose fate the browser does not know when it gives up on request r.
LeftOpen(r) == (IF r.op = "hold" THEN {r.answer.booking} ELSE {r.booking}) \ {0}

\* fetch rejects; the request may be anywhere by then, and so may its answer.
Lose(r) ==
    LET others == (wire \ {r}) \cup {q \in {[r EXCEPT !.live = FALSE]} : q.stage # "done"}
    IN  /\ r \in Live /\ lost < MaxLost
        /\ lost' = lost + 1
        /\ orphans' = orphans \cup LeftOpen(r)
        /\ \/ r.op # "cancel" /\ ReleaseAll(others, FALSE)
           \/ r.op = "cancel" /\ wire' = others /\ UNCHANGED browser
        /\ UNCHANGED <<server, issued, again>>

-----------------------------------------------------------------------------
Init ==
    /\ bookings = <<>> /\ cache = [s \in Seat |-> NoAnswer] /\ wire = {}
    /\ step = "choosing" /\ train = NoTrip
    /\ cart = {} /\ seatIds = <<>> /\ held = <<>> /\ tickets = 0 /\ conflict = FALSE
    /\ issued = {} /\ again = {} /\ orphans = {} /\ lost = 0

\* Once answers have been lost, smaller carts are chosen.
Carts ==
    {c \in SUBSET Seat : c # {} /\ IsFiniteSet(c) /\ Cardinality(c) + lost <= MaxCart}

Serve(r) ==
    \/ LookUp(r) \/ HoldSeat(r) \/ Store(r)
    \/ GuardConfirm(r) \/ WriteConfirm(r) \/ GuardCancel(r) \/ WriteCancel(r)

Continue ==
    \/ SendHold \/ SendConfirm \/ Released
    \/ \E r \in wire : TakeHold(r) \/ TakeConfirm(r) \/ TakeCancel(r)

Next ==
    \/ Continue \/ Pay \/ Home
    \/ \E t \in Trip, c \in Carts : Choose(t, c)
    \/ \E r \in wire : Serve(r) \/ Lose(r)
    \/ \E b \in DOMAIN bookings : ExpireRow(b)

Spec == Init /\ [][Next]_vars

\* The server works on what it has, and the wizard's async function goes on when what it
\* awaits is there.  Nothing obliges the passenger or the network to do anything.
FairSpec == Spec /\ WF_vars(\E r \in Live : Serve(r)) /\ WF_vars(Continue)

-----------------------------------------------------------------------------
(* The inductive invariant.                                                *)

\* An answer names a booking exactly when it is a good one.
Sound(answer) ==
    IF Succeeded(answer) THEN answer.booking \in DOMAIN bookings ELSE answer.booking = 0

\* Only a hold goes through the cache, and nothing is answered before it is handled.
Proper(r) ==
    /\ Sound(r.answer)
    /\ r.stage \in {"lookup", "run", "write"} => r.answer = NoAnswer
    /\ r.op = "hold" => r.trip \in Trip /\ r.seat \in Seat /\ r.stage # "write"
    /\ r.op # "hold" => r.booking \in DOMAIN bookings /\ r.stage \in {"run", "write", "done"}

WireInv ==
    (\A s \in Seat : Sound(cache[s])) /\ \A r \in wire : Proper(r)

\* The browser awaits one hold or one confirmation at a time, or the cancellations, and
\* nothing when no checkout is going on.
WizardInv ==
    /\ \A i, j \in DOMAIN seatIds : seatIds[i] = seatIds[j] => i = j
    /\ IsFiniteSet(cart) /\ (cart # {} => train \in Trip)
    /\ \A i \in DOMAIN held : held[i] \in DOMAIN bookings
    /\ step = "choosing" => Live = {} /\ held = <<>> /\ tickets = 0
    /\ step = "hold" =>
        /\ tickets = 0 /\ Len(held) < Len(seatIds)
        /\ \A r \in Live : r.op = "hold"
    /\ step = "confirm" =>
        /\ tickets < Len(held) /\ Len(held) = Len(seatIds)
        /\ \A r \in Live : r.op = "confirm" /\ r.booking = held[tickets + 1]
    /\ step = "release" =>
        \A r \in Live : r.op = "cancel" /\ \E i \in DOMAIN held : held[i] = r.booking
    /\ step \in {"hold", "confirm"} => \A r, q \in Live : r = q

\* A request about a booking that nobody waits for any more may still write.
GivenUpInv == \A r \in wire : ~r.live /\ r.op # "hold" => r.booking \in orphans

\* Every seat of this passenger is on a ticket shown, or in the hands of the checkout: of
\* what it holds, of the answer it waits for, or of a cancellation on its way.
AccountedInv ==
    \A b \in DOMAIN bookings :
        ActiveBooking(b) =>
            \/ b \in orphans \cup Ticketed
            \/ step \in {"hold", "confirm"} /\ \E i \in DOMAIN held : held[i] = b
            \/ \E r \in Live : r.op = "hold" /\ r.answer.booking = b
            \/ \E r \in Live : r.op = "cancel" /\ r.stage \in {"run", "write"} /\ r.booking = b

CoreInv == TypeOK /\ WireInv /\ WizardInv /\ GivenUpInv /\ AccountedInv

\* A hold is about its seat wherever its answer comes from.
OwnSeatInv ==
    /\ \A s \in Seat : Succeeded(cache[s]) => bookings[cache[s].booking].seat = s
    /\ \A r \in wire : r.op = "hold" /\ Succeeded(r.answer)
                           => bookings[r.answer.booking].seat = r.seat
    /\ step = "hold" => \A r \in Live : r.seat = seatIds[Len(held) + 1]
    /\ step \in {"hold", "confirm"} =>
        \A i \in DOMAIN held : bookings[held[i]].seat = seatIds[i]

\* Somebody may still act on booking b who is not the checkout.
Shared(b) == b \in orphans \cup again

\* Otherwise it is at one place: in an answer, with the checkout or on a ticket.
SoleInv ==
    /\ \A r \in wire : r.op = "hold" /\ Succeeded(r.answer) /\ ~Shared(r.answer.booking) =>
        /\ r.live
        /\ \A i \in DOMAIN held : held[i] # r.answer.booking
        /\ r.answer.booking \notin Ticketed
    /\ \A k \in issued : ~Shared(k.booking) => \A i \in DOMAIN held : held[i] # k.booking

\* Booking b was paid for, and what has undone it is one of the two writes that come late.
PaidOnce(b) ==
    \/ bookings[b].status = "CONFIRMED"
    \/ bookings[b].status = "EXPIRED"
    \/ bookings[b].status = "CANCELLED" /\ Shared(b)

TicketInv ==
    /\ step = "confirm" => \A i \in 1 .. tickets : PaidOnce(held[i])
    /\ \A r \in Live : r.op = "confirm" /\ Succeeded(r.answer) => PaidOnce(r.booking)
    /\ \A k \in issued :
        /\ k.booking \in DOMAIN bookings /\ PaidOnce(k.booking)
        /\ bookings[k.booking].seat = k.seat

\* The bookings of a seat, the holds of it that are being handled, and those that may be.
Made(s) == {b \in DOMAIN bookings : bookings[b].seat = s}
Running(s) == {r \in wire : r.op = "hold" /\ r.seat = s /\ r.stage = "run"}
Unanswered(s) == {r \in wire : r.op = "hold" /\ r.seat = s /\ r.stage \in {"lookup", "run"}}
Awaited(s) == \E r \in Live : r.op = "hold" /\ r.seat = s /\ r.answer # Failed

\* Until an answer is kept for a key, every request with it that came about has lost its
\* answer or failed, but the one that is awaited; from then on none is handled any more
\* that was not being handled already.
KeyInv ==
    /\ IsFiniteSet(wire)
    /\ \A r \in wire : r.op = "hold" /\ r.stage = "store" => r.answer # NoAnswer
    /\ \A r \in wire : r.op = "hold" /\ r.stage = "done" =>
        r.answer = Failed \/ cache[r.seat] # NoAnswer
    /\ \A s \in Seat :
        /\ Cardinality(Made(s)) + Cardinality(Running(s)) <= lost + 1
        /\ cache[s] = NoAnswer =>
            Cardinality(Made(s)) + Cardinality(Unanswered(s))
                <= lost + (IF Awaited(s) THEN 1 ELSE 0)

\* The passenger's own bookings are out of each other's way.
OwnApart ==
    \A b, c \in DOMAIN bookings :
        b # c /\ ActiveBooking(b) /\ ActiveBooking(c) =>
            ~(bookings[b].trip = bookings[c].trip /\ bookings[b].seat = bookings[c].seat)

ServerInv == KeyInv /\ OwnApart

IInv == CoreInv /\ ServerInv /\ OwnSeatInv /\ SoleInv /\ TicketInv

-----------------------------------------------------------------------------
\* BookingWizard.svelte: "all-or-nothing for the group".  When no checkout is going on,
\* every seat this passenger occupies is on a ticket that was shown, whatever was refused,
\* declined, replayed or lapsed on the way and however late a write came, unless the
\* answer to a request about it was lost.
NothingStranded ==
    step = "choosing" =>
        \A b \in DOMAIN bookings :
            ActiveBooking(b) => b \in orphans \cup Ticketed

\* What the wizard shows as a ticket is a booking of the seat it was asked for, although
\* the hold may have been answered from the cache of its key, and it was paid for.  After
\* that only two things undo it: an EXPIRED from a request that had found the hold lapsed
\* before, and a cancellation of a booking that more than one request is about.
TicketsMatch ==
    \A k \in issued :
        /\ bookings[k.booking].seat = k.seat
        /\ \/ bookings[k.booking].status = "CONFIRMED"
           \/ bookings[k.booking].status = "EXPIRED"
           \/ bookings[k.booking].status = "CANCELLED" /\ k.booking \in orphans \cup again

\* idempotency.py: a repeated request "replays the first response instead of running the
\* intent twice", over as many checkouts as there are and whatever becomes of the bookings
\* in between: a seat is booked once more only for an answer that was lost.
BookedOncePerKey ==
    \A s \in Seat : Cardinality({b \in DOMAIN bookings : bookings[b].seat = s}) <= 1 + lost

\* The columns of booking b, as far as they matter here.
Journey == [origin |-> 0, dest |-> 1]
Columns(b) ==
    [trip |-> bookings[b].trip, seat |-> bookings[b].seat, leg |-> Journey, until |-> 0]
NoColumns == [trip |-> NoTrip, seat |-> 0, leg |-> Journey, until |-> 0]

Ledger == INSTANCE SeatLedger WITH
    now <- 0,
    status <- [b \in Booking |-> IF b \in DOMAIN bookings THEN bookings[b].status ELSE "ABSENT"],
    row <- [b \in Booking |-> IF b \in DOMAIN bookings THEN Columns(b) ELSE NoColumns],
    held <- DOMAIN bookings,
    Row <- [trip : Trip, seat : Seat, leg : {Journey}, until : {0}],
    NoRow <- NoColumns

\* What the server does for this browser, late writes included, are
\* transactions of the abstract ledger, as BookingTx shows of the use-cases.
ImplementsLedger == Ledger!Spec

\* However requests fail, `busy` does not stay set.
CheckoutEnds == step # "choosing" ~> step = "choosing"

\* BookingWizard.svelte: "every hold made so far in this batch is released": a booking
\* that was paid for and shown as a ticket is not cancelled by the release of a batch for
\* another train.
OnlyThisBatchReleased ==
    [][\A k \in issued :
           bookings[k.booking].status = "CONFIRMED" /\ bookings'[k.booking].status = "CANCELLED"
               => train \in {NoTrip, bookings[k.booking].trip}]_vars
=============================================================================
