# Verification of the SLR seat-booking backend

TLA+ models, TLC configurations and machine-checked proofs for the train
seat-booking system in `src/`: a FastAPI service over PostgreSQL that sells seats
leg by leg, a traveller web app and a counter app. Paths below are relative to
`src/backend/slr/` unless they start with `web/`, `tests/` or another directory of
the repository.

The one question the system stands or falls by is *may two passengers own one seat
over the same hop?* The design answers it with a database constraint (PLAN D2), so
the core model is the concurrent one: every use-case as a transaction, one action per
SQL statement, interleaved as a thread pool and READ COMMITTED allow. Three more models
look at the same system from other sides: what its answers promise about the same
bookings (`Service`), what a browser with an unreliable network and a replaying
middleware makes of it (`Checkout`), and what a watching page sees (`Watch`). The models
show which promises survive concurrency and failure and which hold only while
requests do not overlap.

## 1. The system

| Component | State | Operations | Modelled by |
|---|---|---|---|
| Booking table and its constraint (`adapters/orm.py`, migration `0001`) | rows: trip, seat, leg, passenger, reference, status, `held_until`; `booking_no_overlap` excludes overlapping active rows on one seat | insert, update of status by primary key; never deleted | `BookingRow`, `BookingTx` |
| Use-cases (`usecases/*.py`) over `SqlAlchemyUnitOfWork` | one session (snapshot per statement, own uncommitted writes, row locks) and locals per request | `hold_seat`, `sell_unreserved`, `confirm_booking`, `cancel_booking`, `leg_availability`, `verify_ticket`; lazy expiry inside all but cancel | `BookingTx` (interleaved), `Service` (with fares, trips and dates) |
| Status machine (`domain/booking_sm.py`, `values.py`) | none (a table) | `can_apply`, `apply` | `BookingStatus` |
| Legs (`domain/stations.py`) | none | half-open overlap, length, containment, kilometres | `Legs`, `Timetable` |
| Repository port (`ports/repository.py`) | the table as its clients may think of it | issue, settle, expire | `SeatLedger` (abstract) |
| In-memory repository (`adapters/memory_repo.py`) | dictionaries of trips and bookings, a snapshot | queries, add, set status, expire, upsert | `HoldStore`, `Service` |
| Seat packing (`domain/packing.py`) | none (pure) | `min_seats`, `pack`; `choose_seat`, `predict_standing_seats`; `impact_seat_km` | `Optimizer`; `Packing`; `Service` |
| Timetable (`domain/timetable.py`, `app/timetable_config.py`, `app/seed.py`) | the trips in the store | load the file, seed the booking window, serve a leg | `Timetable`, `Service` |
| Fares (`domain/fares.py`) | none | distance fare, demand multiplier | `Fares` |
| Search, quotes, reports (`usecases/search_trains.py`, `quote_fare.py`, `impact_report.py`, ...) | none | find trains, quote, seat map, verify, report | `Service` |
| Abuse score (`domain/abuse.py`) | none | weighted sum against a threshold | `Policy`; in `BookingTx` a constant set of flagged feature pairs |
| Errors (`domain/errors.py`, `app/errors.py`) | none | class of a refusal to HTTP status | `Errors` |
| Idempotency middleware (`app/middleware/idempotency.py`) | per-process map from path and key to response | look up, run, store, replay | `Checkout` |
| Booking wizard and API client (`web/src/ui/BookingWizard.svelte`, `view-core/flow.js`) | step, cart, passengers, availability, subscription | search, pick, group checkout with compensation, watch | `Checkout`, `Watch` |
| Availability broker and SSE stream (`adapters/sse_publisher.py`, `app/routes/stream.py`) | one queue per subscriber | subscribe, publish (fan-out), drain, unsubscribe | `Watch`; `BookingTx` records who has published |
| Payment, notifier, clock, id and reference ports | external | `charge` may approve or decline; ids are fresh | inside `BookingTx`, `Service`, `Checkout`; the notifier is left out |
| Schemas, wiring, scripted doubles, counter app | - | translation, start-up, test doubles, one form | not modelled (section 8) |

**Interactions.** A route runs in a worker thread with a session of its own
(`app/deps.py:25`). All coordination between requests goes through PostgreSQL: row
locks, the exclusion constraint and its waits, and the deadlock detector. Within a
request the order is: expire lapsed holds, read, decide, charge, write, publish,
commit, build the receipt. Publishing and charging happen *before* the commit;
receipts are built *after* it.

**What is hard.**

- *Interleaving.* `set_status` and the UPDATEs of `expire_due` name the primary key
  only: they overwrite whatever the status has become since the guard read it.
- *Atomicity.* Caps, standing capacity and references are counted or looked up and
  acted on later, without a lock or a unique index.
- *In-doubt rows.* An insert that meets an uncommitted conflicting row waits for its
  owner; two inserts can wait for each other, and `expire_due` holds row locks on
  every lapsed hold it has flushed while its request goes on to wait.
- *Failure.* A connection may die at any statement, also after the commit and before
  the answer; the charge is not undone by the rollback.
- *Time.* Holds lapse by the clock a request read at its start; nothing sweeps. "Today"
  is a local date, while trips are seeded for the days of a window once.
- *Four answers to one question.* Search, quote, seat map and hold each work out which
  seats are taken, some after retiring lapsed holds and some not.
- *Replays.* The middleware keeps whatever a key was first answered with; the wizard's
  key names seat, leg and passenger only. Requests and answers get lost, and a request
  nobody waits for any more still takes effect.
- *Watching.* A page reads first and subscribes later, events go out before the commit,
  and answers arrive in any order.

**What makes each component correct.** *Table and use-cases*: no seat is shared; no
ticket without a payment; a counter ticket never expires; no hold expires early;
what is committed is announced; every request is answered; and, without overlap,
the caps, references, single charges, legal transitions and "fail clean".
*Packing*: no shared seat, no needless standing, optimal seat count. *Search,
timetable, fares*: the trains of the file are offered on every seeded day, the seats
offered are those a hold gets, a quote covers the charge and rises only by a sale, the
gate agrees with the seat map. *Wizard and middleware*: a checkout ends, leaves nothing
behind that the passenger has no ticket for, and its tickets are what the server has.
*Broker and watcher*: each event reaches each subscriber once, closed streams are
forgotten, and a page that gets an event catches up with it.

## 2. Modules

```
Legs ── BookingStatus                MCBookingTx ── MCRace    instances for TLC
   \      /                               |
   BookingRow ── SeatLedger         BookingTxSerial ── BookingTxSerialProofs
      |     \       |  (refined by)       |                    |
      |      `─── BookingTx ── BookingTxInv ── BookingTxProofs ── BookingTxStepProofs
   HoldStore ── Service ── MCService, ServiceProofs    (implements SeatLedger too)
                 / | \  \
     Timetable Fares Policy  Optimizer

Legs ── Optimizer ── OptimizerProofs             (used by both lines below)
             \─── Packing ── PackingProofs
             \─── Service ── ServiceProofs
BookingStatus, Errors ── Checkout ── MCCheckout, CheckoutProofs
                            \ (implements SeatLedger too)
Watch ── MCWatch, WatchProofs
```

- **`Legs`**, **`BookingStatus`**, **`BookingRow`**: the interval algebra, the status
  table and the operands of the exclusion constraint (`Clash`).
- **`BookingTx`**: the core. Each element of `Req` is one HTTP request; the booking
  it may insert bears its number. `status` is what is committed, `pend[r]` what
  request `r` has written and not committed (its row locks), `row` the immutable
  columns, `pc[r]` the next statement, `t0[r]` the clock it read, and `due`, `unread`,
  `free`, `got` its Python locals.
- **`SeatLedger`**: the abstract specification. Each transaction retires some lapsed
  holds and issues or settles at most one booking, in one step, and a booking becomes
  active only where nothing active is in its way. It says nothing about which
  settlements are legal: the implementation does not guarantee that.
- **`BookingTxInv`**, **`BookingTxProofs`**: the inductive invariant and the proof of its
  larger part, `CoreInv`.
- **`BookingTxStepProofs`**: what a step may do to the table, the refinement, the
  publications (`NewsInv`), and what somebody who has paid is told (`MoneyKnown`).
- **`BookingTxSerial`**, **`BookingTxSerialProofs`**: the invariant of requests that do not
  overlap and what follows from it.
- **`Optimizer`**, **`OptimizerProofs`**: `min_seats` and `pack`, pure functions of a set of
  legs.
- **`Packing`**, **`PackingProofs`**: one coach, its sales, cancellations and standing queue,
  and the optimiser on them.
- **`Timetable`**, **`Fares`**, **`Policy`**, **`Errors`**: the pure parts. The timetable
  file is a constant (`Config`) and trips are computed from it; money is integer cents
  and the demand multiplier an exact fraction.
- **`HoldStore`**: the queries and writes of the in-memory repository on a store, a
  function from ids to records. With one request at a time the SQL repository answers
  the same.
- **`Service`**: the use-cases over `HoldStore`, one action each, a clock, and seeding.
- **`ServiceProofs`**: theorems about all of these (section 6).
- **`Checkout`**, **`CheckoutProofs`**: wizard, network, middleware and the routes behind it.
- **`Watch`**, **`WatchProofs`**: use-cases as writers, broker, stream generators and one
  page.

How `BookingTx` corresponds to the code:

| Action | Code |
|---|---|
| `Begin` | `get_deps` and `clock.now()`; requests begin in the order of their numbers, and a reference that was made up for a booking can be named only after the answer that told it |
| `Lookup` | replay of a known `reference` (`hold_seat.py:40`, `sell_unreserved.py:35`), at the counter with its receipt |
| `SelectDue`, `ExpireRow` | the SELECT of `expire_due` and each UPDATE of its flush, in primary-key order; an UPDATE waits for the row's lock |
| `Admit` | leg check, seat or pool check, and `enforce_anti_tout` around its one query |
| `ScanSeat`, `CountStanding` | `active_for_seat` per pool seat, then one of the seats found free; otherwise the standing count |
| `Charge` | `payment.charge`, approved or declined |
| `Insert`, `Check` | `add_hold`: the row is in place, then the exclusion check passes, fails, or waits for in-doubt rows; then `publish` |
| `Get`, `SetStatus` | the guarded read and the unguarded write of confirm and cancel. SQLAlchemy's identity map keeps rows weakly, so `set_status` reads again and flushes nothing if the status is already there |
| `View` | the reads of `leg_availability` and `verify_ticket` |
| `Commit` | commit, then the receipt; the answer may be lost |
| `Rollback`, `Fail`, `DeadlockVictim` | every exception path, a lost connection or process, PostgreSQL failing a member of a deadlock |

`Check` is separate from `Insert` and `SetStatus` because PostgreSQL checks the
exclusion constraint after the index entry is in place: this is why two inserts
can deadlock rather than queue. A request that updates a row to an active status
(confirm) goes through the same check.

Operators marked *Fault* are variants of the definition that follows them with one
plausible bug each (a guard dropped, a reset forgotten). No behaviour uses them; they
are there to be substituted for the original, and each property was seen to fail
under one of them.

`Packing` keeps one coach's entries in order: tickets sold by `choose_seat`
(`Assign`), cancelled (`Cancel`), then the queue of `predict_standing_seats`
(`Promote`). `MinSeats` and `Pack` are evaluated on the journeys of every state.
`Optimizer` sums what `min_seats` accumulates: the running depth after an event is the sum
of the changes up to it and beside it (`DepthAfter`). `Pack` is the loop as it is written,
a fold over the sorted legs with the heap as a set of pairs.
`BookingTx!ScanSeat` takes *any* seat found free, so what it shows does not depend on
which one `choose_seat` prefers. The counter in fact predicts for a queue of one and
does not remember earlier offers (D20: advice, not a reservation); the module checks
the sweep itself.

In `Service` each use-case is one action with its guard in full; a request that is
refused leaves the store as it was (`MemoryUnitOfWork.__exit__`) and is no step. Search,
`Browse` and `Verify` retire lapsed holds, a quote and the report do not: they are
operators, as are the answers of all reads (`TrainOptions`, `AvailableSeats`,
`QuoteFare`, `VerdictOf`, `ActiveLegs`). `Seed` is the seeding command run again.

In `Checkout` a request is a record on the `wire` with a `stage`: `LookUp`, then
`HoldSeat`, then `Store` for a hold, which bears a key; for the others a guard
(`GuardConfirm`, `GuardCancel`) and, any time later, a write by primary key (`WriteConfirm`,
`WriteCancel`), with whatever has happened to the booking in between. `ExpireRow` is the
third such write: the `expire_due` of some request, this browser's or another's, has
selected the booking when it was a hold out of time and overwrites its status now. The
clock is left out, so any booking may be retired at any time. A confirmation that makes a
booking active again may meet another on the seat, and then fails with 500, which the
middleware does not keep. `live` says whether the browser still waits: `Lose` makes `fetch`
reject and leaves the request where it is, and the booking it was about, be it held,
confirmed or cancelled, becomes one of the `orphans`: the browser does not know its fate
(`LeftOpen`). `after` stands for what tells two requests for the same thing apart on the
network: the second is only sent once the first has been given up.

The wizard's loop is `SendHold`/`TakeHold`, `SendConfirm`/`TakeConfirm`,
`ReleaseAll`/`TakeCancel` and `Released`. `Home` and `Choose` may come at any time: a
checkout goes on while the passenger goes home or picks another train and other seats, from
a page that may be out of date, and its next step finds the passenger of its seat gone or
not, and the train another one (`StillChosen`). `cart` is the set of seats whose passenger
is typed in; `Pay` takes them in some order. `again` remembers that a hold was answered
from the cache with a booking that is on a ticket already; `orphans` and `again` are the
bookings that more than one request may act on. What other passengers do shows as refusals
and conflicts that a hold or a late confirmation may meet at any time.

In `Watch` the bookings of a trip are a version number, counting the commits that changed
them. `Publish` copies the list of subscribers, `Put` serves one queue, `CommitOrFail`
commits or not. A stream goes through asked, subscribed, running and closed (`Subscribe`,
`Start`, `Poll`, `Unsubscribe`); the page through `SelectTrain`, `Read`, `Arrive`, `GoBack`,
`GoHome` and `Reconnect`.

## 3. Runs

| Run | Instance | Shows |
|---|---|---|
| `race` | two scenes (`MCRace`), 2 requests at a time, clock to 1. *race*: 4 requests, one reserved seat, two overlapping holds, confirm, cancel. *counter*: 3 requests, one unreserved and one reserved seat, sales with and without a reference, holds, cancel, a seat-map reader. In both, request 2 may die at any statement | `IInv` (with `TypeOK`), `NoDoubleSeat`, `PaidBeforeTicket`, `ChangeAnnounced`, `NoEarlyExpiry`; `CounterTicketKept`: `held_until = 0` never makes a paid ticket expire; `ImplementsLedger`: every commit is one step of `SeatLedger` |
| `progress` | 4 requests, 2 at a time, the last of which may die at any statement, clock to 2, fairness | `EveryRequestAnswered`: waits for rows, for in-doubt versions and deadlocks all end |
| `serial` | 4 requests, one at a time, every operation accepted or refused, cap 2, standing capacity 1 | `HardCap`, `StandingCeiling`, `OneBookingPerReference`, `ChargedOnce`, `FailClean`, `LegalTransitions`, `LapsedNeverBlocks`, and the invariant behind them (`SerialMoneyInv`), hold when requests do not overlap and, for `FailClean`, the train calls everywhere |
| `packing` | 2 seats, 5 stations, every sequence of 4 entries | `SeatedApart`, `EarliestSeat`, `SeatTestsAgree`, `PackIsOptimal`, `IInv` |
| `service` | 3 stations, a daily train and a Friday night train that arrives after midnight and sets nobody down half-way; 3 bookings, 2 reserved seats and 1 unreserved, a window of 2 days, clock from just before midnight over 2 ticks | `OffersHold`, `EveryServiceOffered`, `QuoteCoversCharge`, `GateAgrees`, `ImpactHonest`, `DearerOnlyBySale`, `SeatsApart`, `IInv` (with `TypeOK`), and that each use-case is one step of `SeatLedger` (`ImplementsLedger`) |
| `checkout` | 1 train, 2 seats, carts of 1 or 2, 2 bookings, 1 lost answer, late writes at any time, fairness | `NothingStranded`: what the passenger occupies after a checkout is on a ticket, or an answer about it was lost; `TicketsMatch`: only a late expiry or the cancellation of a booking several requests are about undoes a ticket; `CheckoutEnds`, `IInv`; `BookedOncePerKey`: however often a checkout is repeated, a seat is booked once, and once more per lost answer; `ImplementsLedger`: late, repeated and unwatched requests are still transactions of `SeatLedger` |
| `watch` | 2 trains, 1 writer, 2 connections, 2 requests under way, 1 silent lapse, fairness | `FannedOutOnce`, `DroppedStreamUnsubscribed`, `DeltaRefreshes`, `IInv` |
| `terminal`, `cap`, `receipt`, `lapse`, `batch` | small instances | five statements of the repository that the code does not keep (section 4) |

**Why these bounds are enough.** The exclusion constraint relates pairs of rows, and
every race found or excluded here is between two transactions about one or two
bookings; two concurrent requests over four arrivals give each pair a past (a
committed, lapsed, cancelled or confirmed booking) and an overlap in any phase. One
seat and legs `[0,2)` and `[1,3)` make every pair of bookings conflict; the progress
run uses disjoint legs as well, so that two holds can lapse together and be written in
opposite orders by two requests. `HoldTTL = 1` with `MaxNow` 1 or 2 lets a hold lapse
while another request works with an older clock. `Rank` reverses the ids, so expiry
order differs from age. Four entries in the packing run suffice for two seats to be
filled, one reopened and two passengers to queue. In `service` three bookings are a
seat taken twice over adjacent legs and one ticket beside them, or a booking, its
cancellation and its successor; the first tick passes midnight, the second lets a hold
lapse before or after a quote; Thursday, Friday and Saturday tell running days apart,
and two of the three dates searched are in the window. In `checkout` two bookings are
one cart of two, or a failed checkout and its repetition under the same key, each with an
answer lost anywhere and a write that comes late to either; after a lost answer carts are one
seat smaller (`MaxCart` bounds the cart and the losses before it together), which leaves the
loss in a cart of two, and a cart of one after it; in `watch` one event against two connections covers every order of
copying, subscribing, closing and committing, and two requests can overtake each other.

Bounds: `Req`, `Calls`, `MaxNow`, `MaxGiven`; in `service` `Id`, `MaxNow` and the calls; in
`checkout` `MaxBooking`, `MaxCart`, `MaxLost`; in `watch` `MaxWriter`, `MaxStream`,
`MaxFetch`, `MaxSilent`. The deadlock check is off where an instance stops when its
requests, bookings or connections are used up. The proofs of section 6 remove the bounds
for the properties they cover.

`Threads = 1` in `serial` is not a simplification of the code but the hypothesis of
the claim: these are the promises that need requests not to overlap. The shipped
defaults (cap 6, velocity limit 10 in 600 s, abuse threshold 0.8) let velocity and
abuse refuse nothing the cap has not refused before; the refusals are in the model,
in the order of the code, with bounds small enough for the cap to be met.

**Fairness.** Weak fairness of each request's `Step`: a worker thread that can run is
run, PostgreSQL answers a statement it can answer and breaks a deadlock after its
timeout. There is no fairness on clients (`Begin`), on the clock or on failures. A
step that waits for a lock is not enabled, so nothing forces the wait to end: that it
does is the property. In `Checkout`: the server handles the requests that somebody waits
for, and the wizard's async function resumes when what it awaits is there; a request that
was given up on may lie about for ever, its write may come at any time or never, and
nothing obliges the passenger or the network. In `Watch`: writers finish what they began,
requests are answered, and the generator of a connected client starts and goes round its
loop; a generator whose client left before it started may never run.

## 4. Where the code and its documents disagree

- **`terminal`** - `domain/values.py:46` "Terminal statuses, no transition leaves them".
  A confirmation and a cancellation that both read HELD leave the status of whichever
  writes last (`adapters/sqlalchemy_repo.py:204`): a cancelled booking becomes
  CONFIRMED, or a paid one CANCELLED or EXPIRED. The seat is still never shared: the
  constraint checks the revived row again. In `Checkout` the same writes leave a paid seat
  without a ticket (a confirmation whose answer was lost writes after the wizard's
  cancellation: one of the `orphans` that `NothingStranded` excepts), and an EXPIRED booking
  under a ticket that was shown (which `TicketsMatch` therefore admits).
- **`cap`** - `usecases/_policy.py:3` "hard config limits". Two holds of one passenger
  at once both pass a cap of one.
- **`receipt`** - `usecases/confirm_booking.py:1` "fail clean". `validate_leg` accepts a
  leg to a station the train passes through (patterns 1015 and 1045 of
  `config/timetable.json` do); the confirmation charges, commits, and then fails while
  building the receipt.
- **`lapse`** - `PLAN.md:49` "the freed leg is pushed to every watching client". Holds
  retired by `expire_due` are announced to nobody.
- **`batch`** - `web/src/ui/BookingWizard.svelte:9` "every hold made so far in this batch is
  released". A hold's key names neither the train nor the checkout. Who has paid for a
  seat on one train and books the same seat and leg on another is answered with the
  first booking; its confirmation is refused, and the compensation cancels the paid
  ticket: it is one of the bookings that `TicketsMatch` excepts, because a hold was answered
  with it again.

`README.md:148` and PLAN D12 mention a sweeper; there is none, which the model
reflects: only requests retire holds.

Met while modelling, and visible in the modules without a run of their own:

- `app/middleware/idempotency.py:3` says the cache "stops the second request ever reaching a
  handler". It is read before the handler runs and written after it has answered (lines 50
  and 62), and nothing marks the key in between: a retry that arrives while the first
  request is under way is handled too. `BookedOncePerKey` is what is left of the promise.
- `usecases/_support.py:52` "what the passenger is shown is what the passenger is charged"
  holds only when the quote counted no lapsed hold; otherwise the charge is lower
  (`QuoteCoversCharge` states exactly this).
- `domain/timetable.py:128` "The past is not bookable": only a search looks at the window,
  a hold by trip id does not. A date that enters the window after the last seeding is
  searchable and empty until the next (hence `seeded` in `EveryServiceOffered`).
- With the shipped threshold the abuse score refuses nobody (theorem `ScoreNeverTrips`).
- After a declined payment the wizard says "Please try again" (`BookingWizard.svelte:234`); the
  same seat is then answered from the cache with the cancelled booking, so trying again
  fails for as long as the server runs.
- A compensation that cancels a paid ticket refunds nothing: the payment port has no refund.
- `app/routes/stream.py:5` "a dropped connection never leaks a subscriber" holds once the
  generator runs (`DroppedStreamUnsubscribed`); the subscription is made before, outside
  its `try`.
- Going back while the first availability is read leaves a subscription that nothing
  closes, and its late answer replaces the picture of the train chosen since.

## 5. What a violation would take

The properties are not about single statements. `NoDoubleSeat` is lost when the
constraint leaves out confirmed rows (`TakenHeldOnly`) or a failed unit of work keeps
its writes (`RollbackKeepsWrites`). `ChangeAnnounced` compares commits with events
published earlier, so it fails if a cancellation of a ticket is not announced.
`OneBookingPerReference` fails if cancelled bookings are not found by reference,
`LapsedNeverBlocks` if holds do not retire first, `EveryRequestAnswered` if a session
that ends by an exception keeps its row locks. `OffersHold` and `DearerOnlyBySale` fail if
occupancy ignores the leg, `GateAgrees` if verification is taken for a mere read,
`EveryServiceOffered` if a call is enough to board, `NothingStranded` if only unpaid
bookings are released, `CheckoutEnds` if a refused cancellation rejects the release,
`FannedOutOnce` if the fan-out runs over the live list, `DeltaRefreshes` if a page drops an
event because it is already refreshing.

## 6. Proofs

Each `IInv` named below is an invariant of a run as well, so TLC has checked on a small
instance what the proofs take as inductive for all.

### The concurrent core

`BookingTxProofs` proves, for any finite set of requests, any calls, seats, stops,
limits, number of threads and failures:

- `Inductive`: `Spec => []CoreInv`;
- `TypeCorrect`, `SeatsNeverShared` (`NoDoubleSeat`), `TicketsArePaid`
  (`PaidBeforeTicket`), which follow from it.

`BookingTxStepProofs` proves from `CoreInv`, with the same generality:

- `HoldsLastTheirTime` (`NoEarlyExpiry`), `CounterTicketsLast` (`CounterTicketKept`);
- `TransactionsImplementLedger`: `Spec => Ledger!Spec`, every behaviour of the
  interleaved transactions is one of the atomic ledger;
- `PublishedInductive` (`IInv`, which is `CoreInv`, `NewsInv` and `MoneyKnown`) and
  `CommittedIsAnnounced` (`ChangeAnnounced`);
- `PaidIsAnswered` (`ChargeAnswered`, a part of `MoneyKnown`): what "fail clean" comes to with
  interleaving, failures and trains that pass stations. Who has paid is answered with the
  receipt, or that there is none just when the train does not call at an end of the journey,
  and the booking was committed as a ticket; or the sale met another on its seat, or the
  request failed. No cap, capacity, status or leg refuses anybody after the charge.

Assumptions: those named in `BookingTx`: ids are naturals with an injective rank,
calls are well-typed, seats are not the no-seat value, limits are naturals.

`NoDoubleSeat` alone is not inductive: it says nothing of versions that are written
and not committed. The argument of `CoreInv` has three parts.

1. *Who may have written what.* A row has at most one writer (`LockInv`, because an
   UPDATE waits for the lock); a pending write is the expiry of a hold out of time or
   the request's own act on its subject, in the last statements before its commit
   (`WriteInv`, `QuietInv`, `CheckInv`).
2. *A conflict has a check to come.* If a committed active row and a written active
   one clash, the writer still has its check ahead, or has itself retired the
   committed row in the same transaction (`CommittedVsWritten`). If two written ones
   clash, one of the writers still has its check ahead (`WrittenVsWritten`). A check
   that passes has seen neither a visible conflict (`Taken`) nor an in-doubt one
   (`InDoubt`), so it removes the exception for itself; a commit after it makes a
   written version committed without a clash.
3. *Money.* The guard's reading and the charge precede the write of a paid status
   (`TargetInv`, `ChargeInv`), and a hold only ever becomes CONFIRMED through a
   confirmation that was charged.

There is one lemma per statement (`SelectDueCore` ... `CommitCore`); `LocalCore` and
`RollbackCore` serve the statements that only read and the ones that end a request.

`ChangeAnnounced` speaks of publications at the time of a commit that may be another
request's, so `NewsInv` adds what the statements before it leave behind: a use-case about
to commit has published what it changes of a seat (`PublishInv`); every booking has been
published by the request that inserted it, but for standing tickets (`KnownInv`); these
have no seat, in the table and in whatever is written or read of them (`StandingInv`); and
nobody publishes earlier (`AnnouncedInv`).

`ChargeAnswered` needs to know that a request that has charged has no guard left before its
commit, and commits what is not a hold (`PastGuardsInv`): a second confirmation that finds
the booking CONFIRMED writes nothing and holds no lock, so that a cancellation or an expiry
can come before its commit. What was once more than a hold never becomes one again
(`SettledStays`).

The step theorems rest on two lemmas. `OnlyCommits`: no other statement changes a
committed status, or the columns or the request of a committed booking.
`CommitWrites`: a commit gives each booking the status written for it, which by
`WriteInv` is an expiry or the request's own act. For the refinement, the bookings of
the first kind are the ledger's `E` (`RetiresLapsed`: all are holds out of time), the
own act is its `Issue` or `Settle`, and the guard `Free` comes from `NoDoubleSeat` in
the state *after* the commit: after it, what is active next to the booking is what
`Retired(E)` leaves active. Every other statement is a tick or a stutter
(`OthersStutter`).

### Requests that do not overlap

`BookingTxSerialProofs` is about the promises of the run `serial`. Its hypothesis is
`Threads = 1`, the rest as general as before; the runs `cap` and `terminal` show what
becomes of `HardCap` and of terminal statuses with two threads. From `SerialInductive`
(`[](CoreInv /\ SerialInv)`) it proves

- `SerialHardCap`, `SerialStandingCeiling`, `SerialReferences`, `SerialTransitions`,
  `SerialLapsedNeverBlocks`, although a request may die at any statement;
- `SerialMoney` (`SerialMoneyInv`) and `SerialChargedOnce`, if none dies
  (`MayFail = {}`): after a charge a connection may be lost, the rollback does not undo it,
  and a second confirmation charges again.

`FailClean` has no theorem. What makes it true in `serial` (requests one after the other,
none dying, every train calling everywhere) leaves out every way in which this code can
break it, and the run `receipt` shows one of them. `PaidIsAnswered` says what holds of a
charge without these hypotheses.

None of these properties is inductive, because each compares a decision with a commit
several statements later. `SerialInv` carries what was read over that distance: what is
due has lapsed and nothing else has (`LapsesKnown`), the guard's status is current until
overwritten (`ReadIsCurrent`), nobody has the reference looked up (`RefIsUnknown`), there is
room below both limits without the own booking (`HasRoom`), and the seats found free are
free (`ScanIsCurrent`). With one open request nobody else can falsify them.

### The coach

`PackingProofs`, for any coach, route and bound:

- `NobodySharesASeat` (`[](TypeOK /\ SeatedApart)`): a seat that `choose_seat` or the sweep
  gives has nobody on it over the leg given, and taking a ticket out disturbs nobody;
- `PackingInductive` (`IInv`) and `NobodyStandsTooLong` (`EarliestSeat`).

`EarliestSeat` compares each passenger with those before, so it survives any addition at
the end, and would not survive a cancellation: `SoldAsAsked` says that while tickets can
be cancelled nobody has stood at all. That the sweep's choice is the earliest rests on
two lemmas: a taken seat comes free where the last of those in the way gets off
(`SeatComesFree`), and if any seat comes free in time one is offered (`OfferExists`).
Both need least and greatest elements of sets of numbers, which `LeastNumber` takes from
the library's well-foundedness of the naturals.

- `TestsAgree` (`SeatTestsAgree`): `choose_seat` and the sweep, which compare the ends of legs
  each in its own way, agree on which journeys can be seated from their start. That
  `choose_seat` chooses at all needs its spans to be numbers with a greatest among the free
  seats (`SpanIsNumber`, `FullestFirst`).
- `OptimizerIsRight` (`PackIsOptimal`), from the theorems of the next section; the route
  needs a station.

### The optimizer

`OptimizerProofs`, for every finite set of legs:

- `PeakIsDepth`: `min_seats`, a sum over events, is the greatest number of legs over any
  stretch. Up to an event, the starts and ends of the legs that are over cancel, so the
  running depth counts the legs that are under way (`DepthAfter` against `Depth`); the peak
  is met at an origin.
- `PackOptimal`: the loop of `pack` seats overlapping legs apart, and opens as many seats as
  `min_seats` says. After each leg the heap has one entry per opened seat, which is the end
  of the last leg on it; the loop opens a seat only when every entry is a leg still under
  way, so at that station the depth is the new count.

Both are about folds, and induction over data takes an operator as a parameter, which the
provers cannot instantiate. The proofs go by smallest counterexample instead: if a fact
about the first `n` rounds fails, there is a least `n` for which it does (`LeastNumber`), and
the round before it gives the contradiction. The sums are reduced to a recursive function
over the finite set in the same way (`Sums`, `SumDefined`, `SumsAre`).

### The arithmetic and the use-cases

`ServiceProofs` begins with three facts about the arithmetic, for all distances, classes, rates
and demand bands: `DearerWhenFuller` (more seats taken never make a leg cheaper, both
roundings included), `FareWithinBand` (the fare stays between those of an empty and a full
train) and `ScoreNeverTrips`. They rest on lemmas about half-up rounding
(`RoundMonotone`, `RoundCancel`) and about quotients, whose products the solver is
given one by one.

It then proves, for any timetable file that loads, any calls, caps, fares and number of
bookings:

- `StoreSound` (`StoreInv`), and from it `ServiceTyped` and `ServiceSeatsApart`;
- `ChargeWithinQuote`, `SearchKeepsItsWord`, `GateIsRight`, `QuotesRiseBySaleOnly`;
- `StoreSeeded` (`IInv`, which is `StoreInv` and `SeededInv`) and `SearchListsTheFile`
  (`EveryServiceOffered`);
- `UseCasesImplementLedger`: the use-cases over the in-memory store implement the same
  `SeatLedger` as the interleaved transactions over PostgreSQL;
- `ImpactReportHonest` (`ImpactHonest`), if the route has a station.

`SeatsApart` is not inductive without the types, and the gate and the ledger need the
rest of `Sound`: a reference is its own booking's id unless a client gave it and the
look-up found it unused, so it names one booking; only a hold has a time to run out of,
so expiry touches nothing that was sold; and what is active has a seat. `StoreSteps` reduces the use-cases to a few
changes of the store (none, retire, retire and add, settle with or without retiring) and each
theorem is proved over those. `SeededInv` says of the trips that they run on their date
and that the window of the last seeding is complete; the rest of `SearchListsTheFile` is
about the file: a trip's id leads back to its pattern (`FilePattern`), and codes, sequence
numbers and days are told apart by the same names on both sides (`SeqFacts`, `ServesFile`,
`RunsOnFile`). That a listed train arrives after it leaves is the hypothesis `RunsForward`
about the file: the shipped `config/timetable.json` keeps it, the loader does not check it.
The report's seats exist because the depth is met at a station, where the passengers under
way have a seat each, all different (`UsedSeatsExist`). Its kilometres are compared stretch by
stretch: what all passengers travel is at most the depth times the length of the stretch,
added up from station to station (`CarriedSoFar`), so the seats it counts could have
carried them all the way (`ReclaimedAtLeast`).
Assumptions: those named in `Timetable`, `Fares` and `Service`: the file passes its loader,
codes are unique, kilometres do not decrease along the route, the demand band is not
inverted, ids are fresh, and searches are between known stations.

### The checkout

`CheckoutProofs`, for any trains, seats and bounds, with guards and writes apart and every
EXPIRED as late as it likes:

- `CheckoutInductive` (`CoreInv`) and `CheckoutStrandsNothing` (`NothingStranded`);
- `ServerInductive` (`CoreInv` and `ServerInv`), and from it `KeyBooksOnce`
  (`BookedOncePerKey`) and `CheckoutImplementsLedger` (`ImplementsLedger`);
- `TicketsInductive` (`IInv`) and `TicketsAreTheServers` (`TicketsMatch`).

`AccountedInv` answers, for each booking that occupies a seat, who still accounts for it: a
ticket, the list of what the checkout holds, the answer it waits for, or a cancellation on
its way, also one that is past its guard; or an answer about it was lost, which is what
`orphans` records. A confirmation that the wizard has given up on may still write CONFIRMED
after the wizard's own cancellation: `GivenUpInv` says that such a request is always about an
orphan, so this is the only way in which a booking becomes active again that the checkout
has let go. `WizardInv` says that the wizard waits for one answer at a time and for the one
its step is about, so that an answer that arrives moves the booking from one of these hands
to the next.

`BookedOncePerKey` is not inductive, because two requests with one key can be past the look-up
together. `KeyInv` counts them: while a key has no answer, the bookings made with it and the
holds that may still make one are at most the answers lost and the one awaited; once it has
an answer none gets past the look-up any more, so only those count that are being handled
already. Losing an answer pays for the request it was about; a hold that is handled, well or
badly, is one of those counted. For the ledger `OwnApart` says that no two active bookings of
the passenger are for one seat of a train. It is kept by the constraint, which an insert and a
late confirmation of a booking cancelled meanwhile both meet, and it is the ledger's guard
`Free` for both.

What a key is answered with is a booking of that seat (`OwnSeatInv`), though maybe on another
train (run `batch`), so that the same booking can come into a second checkout. A booking
nobody else may act on, neither an orphan nor one that a hold was answered with `again`, is in
one place only: in an answer, with the checkout, or on a ticket (`SoleInv`). Hence nothing
cancels it once it is paid for, and what has been paid for is CONFIRMED unless a late EXPIRED
or, if it is shared, a late cancellation has overwritten it (`TicketInv`).

### The broker

`WatchProofs` proves `BrokerInductive` (`IInv`) and `EventReachesAll` (`FannedOutOnce`) for any
number of trips, writers and connections. The list of subscribers has no repetitions, and
only streams between subscribing and closing are on it (`EnlistedInv`); therefore a copy
of it has none, and how many of its first entries are served is how often each stream
has been (`HandedOutInv`), whatever happens to the list in the meantime.

### Model-checked only

Liveness is beyond the prover: `EveryRequestAnswered`, `CheckoutEnds`,
`DroppedStreamUnsubscribed`, `DeltaRefreshes`. So is `FailClean`, for the reason given above.
Every other property of a passing run is stated by a theorem.

## 7. Plan

Done: the concurrent core with its abstract ledger and proofs; packing; timetable,
fares, searches and reports over the use-cases (`Service`) with their proofs; middleware
and wizard (`Checkout`), which implements the ledger too; broker, stream and page (`Watch`);
theorems for every safety property of a passing run but `FailClean`. Left, most valuable first:

1. A second checkout while the first still runs, and two browser windows with one passenger:
   then a key is awaited more than once. `handleSearch` and `handleSelectTrain` clear `busy`
   when they are done, whoever set it, so that going home during a checkout and searching
   anew makes the first possible in one window.
2. A middleware that marks a key while its request is handled, as a specification of what
   section 4 notes to be missing.

## 8. Not modelled, and why

- Fares inside `BookingTx`: they never feed back into a booking's status there; `Service`
  has them.
- The distance-only fare strategy: the service is wired with the dynamic one, of which it
  is the first factor. `Decimal(str(mult))` keeps seventeen digits of the demand
  multiplier; the model takes the exact fraction.
- The signals of the abuse score that no use-case sets, and `domain/policy.py`, which no
  use-case calls.
- The fields of a receipt and `get_trip`: printing. Whether a receipt *can* be built is in
  `BookingTx`.
- In `Checkout`: passengers' names and child links, journeys that end where the train passes
  (the run `receipt` has them), a second checkout started while one is under way, a restart of
  the server, and the effect of a refreshed seat map. In `Watch`: the `limit` query of the
  contract test, failing availability requests, the refresh after a 409.
- The one unit of work that the development server shares between threads
  (`scripts/dev_server.py:49`).
- The choice of row when a reference names several bookings, and of the deadlock
  victim: any of them.
- Bookings on trips that do not exist (`TripNotFound`): calls name existing trips; the
  path ends before anything is written.
- The public hold route and the use-cases take a `reference`; the counter route passes
  none, but `sell_unreserved` accepts one and its tests use it, so the model does too.
- `MockPayment` always approves; the port allows a decline and the model takes it.
- The notifier, the layout of HTTP requests and answers, settings and wiring, the scripted
  test doubles, the counter app's one form, and what the traveller app draws.
