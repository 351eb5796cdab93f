---------------------------- MODULE BookingTxInv ----------------------------
(***************************************************************************)
(* The inductive invariant of BookingTx: what the transactions' private    *)
(* state (program counters, locals, uncommitted writes) has to do with the *)
(* committed table at every step.  Each conjunct is named for what it says.*)
(***************************************************************************)
EXTENDS BookingTx

\* Which operations reach which statement.
PhasesOf(op) ==
    {"new", "done"} \cup
    CASE op = "hold"    -> {"lookup", "select", "expire", "admit", "insert", "check",
                            "commit"}
      [] op = "sell"    -> {"lookup", "select", "expire", "admit", "scan", "count",
                            "charge", "insert", "check", "commit"}
      [] op = "confirm" -> {"select", "expire", "get", "charge", "write", "check",
                            "commit"}
      [] op = "cancel"  -> {"get", "write", "commit"}
      [] op = "browse"  -> {"validate", "select", "expire", "view", "commit"}
      [] op = "verify"  -> {"select", "expire", "view", "commit"}

\* A request that has begun asks for something and is where that takes it.
BegunInv ==
    \A r \in Req : pc[r] # "new" => req[r] \in Calls /\ pc[r] \in PhasesOf(req[r].op)

ClockInv == \A r \in Req : t0[r] <= now

\* A row has at most one writer.
LockInv ==
    \A t, u, b \in Req : pend[t][b] # Absent /\ pend[u][b] # Absent => t = u

\* A request writes only between its first expiry statement and its end.
QuietInv ==
    \A r \in Req :
        pc[r] \in {"new", "done", "lookup", "validate", "select"} => pend[r] = NoWrites

\* A committed booking comes from a hold or a sale that is over.
IssuedInv ==
    \A b \in Req : status[b] # Absent =>
        /\ pc[b] = "done" /\ row[b] \in Row
        /\ \/ req[b].op = "hold"
           \/ req[b].op = "sell" /\ status[b] \in Paid \cup {"CANCELLED"}

\* What expire_due is about to write is a booking issued as a hold, out of time.
DueInv ==
    \A r \in Req :
        /\ pc[r] = "expire" => due[r] # {}
        /\ due[r] # {} => pc[r] = "expire"
        /\ \A b \in due[r] :
               /\ status[b] # Absent
               /\ req[b].op = "hold" /\ row[b].until <= now

\* An uncommitted write of t to b is the expiry of a hold out of time, or what t's
\* use-case does to its subject, in the last two statements before the commit.
OwnWrite(t, b) ==
    /\ b = Subject(t)
    /\ pc[t] \in {"check", "commit"}
    /\ CASE req[t].op = "hold"    -> pend[t][b] = "HELD" /\ status[b] = Absent
         [] req[t].op = "sell"    -> pend[t][b] \in Paid /\ status[b] = Absent
         [] req[t].op = "confirm" -> /\ pend[t][b] = "CONFIRMED" /\ status[b] # Absent
                                     /\ req[b].op = "hold"
         [] req[t].op = "cancel"  -> pend[t][b] = "CANCELLED" /\ status[b] # Absent
         [] OTHER -> FALSE

ExpiryWrite(t, b) ==
    /\ pend[t][b] = "EXPIRED" /\ status[b] # Absent
    /\ req[b].op = "hold" /\ row[b].until <= now

WriteInv ==
    \A t, b \in Req : pend[t][b] # Absent =>
        row[b] \in Row /\ (ExpiryWrite(t, b) \/ OwnWrite(t, b))

\* The check is for a version that is in place; hold and sale commit one.
CheckInv ==
    \A r \in Req :
        /\ pc[r] = "check" => pend[r][Subject(r)] \in Active
        /\ pc[r] = "commit" /\ req[r].op \in {"hold", "sell"} => pend[r][r] # Absent

\* Between its guard and its write, confirm or cancel is about a booking that exists
\* and had a status the machine lets it leave.
TargetInv ==
    \A r \in Req :
        req[r] \in Calls /\ req[r].op \in {"confirm", "cancel"}
            /\ pc[r] \in {"charge", "write"} =>
               /\ status[req[r].target] # Absent
               /\ CanApply(got[r], EventOf(r))
               /\ req[r].op = "confirm" => req[req[r].target].op = "hold"

\* Money has moved before a paid status is written, and for a booking that is or may
\* become a ticket.
ChargeInv ==
    /\ \A r \in charged : pc[r] # "new"
    /\ \A r \in Req :
        /\ pc[r] = "write" /\ req[r].op = "confirm" => r \in charged
        /\ pc[r] \in {"insert", "check", "commit"} /\ req[r].op = "sell" => r \in charged
        /\ pc[r] \in {"check", "commit"} /\ req[r].op = "confirm" => r \in charged

\* Committed against committed: NoDoubleSeat.  Committed against uncommitted: the
\* check is still to come, or the same transaction has retired the committed one.
\* Uncommitted against uncommitted: at least one check is still to come.
CommittedVsWritten ==
    \A b, c, t \in Req :
        /\ b # c /\ status[b] \in Active /\ pend[t][c] \in Active
        /\ Clash(row[c], row[b])
        => pc[t] = "check" \/ pend[t][b] \notin Active \cup {Absent}

WrittenVsWritten ==
    \A b, c, t, u \in Req :
        /\ b # c /\ pend[t][b] \in Active /\ pend[u][c] \in Active
        /\ Clash(row[b], row[c])
        => pc[t] = "check" \/ pc[u] = "check"

CoreInv ==
    /\ TypeOK /\ BegunInv /\ ClockInv /\ LockInv /\ QuietInv /\ IssuedInv /\ DueInv
    /\ WriteInv /\ CheckInv /\ TargetInv /\ ChargeInv
    /\ NoDoubleSeat /\ CommittedVsWritten /\ WrittenVsWritten /\ PaidBeforeTicket

-----------------------------------------------------------------------------
(* What has been made public.                                              *)

\* Only a request that is about to commit, or has ended, has published its event.
AnnouncedInv == \A r \in announced : pc[r] \in {"commit", "done"}

\* Whoever stands has no seat, in the table, in a write and in what a cancellation read.
StandingInv ==
    /\ \A b \in Req : status[b] = "STANDING" => row[b].seat = NoSeat
    /\ \A t, b \in Req : pend[t][b] = "STANDING" => row[b].seat = NoSeat
    /\ \A r \in Req :
        pc[r] = "write" /\ got[r] = "STANDING" => row[req[r].target].seat = NoSeat

\* A use-case that is about to commit has published what it changes of a seat.
PublishInv ==
    \A r \in Req : pc[r] = "commit" =>
        /\ req[r].op \in {"hold", "sell"} /\ pend[r][r] \in Active => r \in announced
        /\ req[r].op = "confirm" => r \in announced
        /\ req[r].op = "cancel" =>
            /\ status[req[r].target] # Absent
            /\ r \in announced \/ row[req[r].target].seat = NoSeat

\* The insert of every booking but a standing ticket has been published.
KnownInv ==
    \A b \in Req : status[b] # Absent =>
        b \in announced \/ (req[b].op = "sell" /\ status[b] \in {"STANDING", "CANCELLED"})

NewsInv == AnnouncedInv /\ StandingInv /\ PublishInv /\ KnownInv /\ ChangeAnnounced

-----------------------------------------------------------------------------
(* What has been paid for.                                                 *)

\* What a booking is after its payment.
Settled == Paid \cup {"CANCELLED", "EXPIRED"}

\* Only a sale or a confirmation charges, when no rule is left to refuse it, and what it
\* then commits is not a hold.
PastGuardsInv ==
    \A r \in charged :
        /\ req[r].op \in {"sell", "confirm"}
        /\ pc[r] \in {"insert", "write", "check", "commit", "done"}
        /\ pc[r] = "commit" => Seen(r, Subject(r)) \in Settled

\* confirm_booking.py: "or fail clean", in so far as it is true whatever interleaves, fails
\* or is passed through: who has paid is told so, or that there is no receipt because the
\* train does not call there, and the booking stands or has been undone since; otherwise
\* the sale met another on its seat, or the request failed without an answer of its own.
\* No other rule refuses anybody who has paid.
ChargeAnswered ==
    \A r \in charged : pc[r] = "done" =>
        \/ status[Subject(r)] \in Settled /\ answer[r] = ReceiptFor(Subject(r), "ok")
        \/ answer[r] = "overlap" /\ req[r].op = "sell"
        \/ answer[r] = "error"

MoneyKnown == PastGuardsInv /\ ChargeAnswered

IInv == CoreInv /\ NewsInv /\ MoneyKnown
=============================================================================
