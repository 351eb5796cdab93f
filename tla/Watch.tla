-------------------------------- MODULE Watch --------------------------------
(***************************************************************************)
(* The live seat map: the broker of sse_publisher.py, the streams of       *)
(* routes/stream.py and the browser page of BookingWizard.svelte, which    *)
(* reads availability when a train is chosen, subscribes after that, and   *)
(* reads it again on every delta.                                          *)
(*                                                                         *)
(* Of the bookings of a trip only the version counts: how many commits     *)
(* have changed them.  What a page shows is the version it has read.       *)
(***************************************************************************)
EXTENDS Integers, Sequences, FiniteSets

CONSTANTS
    Trip, NoTrip,
    MaxWriter,      \* bound on the transactions that change a seat
    MaxStream,      \* bound on the connections to the stream endpoint
    MaxFetch,       \* bound on the availability requests under way
    MaxSilent       \* bound on the lapses retired without an event

ASSUME WatchAssumption ==
    /\ NoTrip \notin Trip
    /\ {MaxWriter, MaxStream, MaxFetch, MaxSilent} \subseteq Nat

Seqs == INSTANCE SequencesExt

Stream == 1 .. MaxStream

\* The transactions, numbered in the order in which they publish.
Writer == 1 .. MaxWriter

VARIABLES
    \* the server
    version,        \* commits so far that changed the bookings of each trip
    stage,          \* what each writer does next
    about,          \* the trip it writes to
    copy,           \* the subscribers when it published
    sent,           \* to how many of them the event was put
    got,            \* history: how often each stream got it
    subscribers,    \* SsePublisher._subscribers, in order
    queue,          \* the events waiting in each subscriber's queue
    silent,         \* lapses retired so far
    \* between them
    stream,         \* what each stream is doing
    trip,           \* the trip it was asked for
    linked,         \* whether its client is still there
    \* the page
    train,          \* the train whose seats it shows, none on the other steps
    shown,          \* the availability it shows: whose, and of which version
    fetches,        \* availability requests under way, oldest first
    unsubscribe     \* the stream that leaving the page closes, 0 when there is none

writers == <<stage, about, copy, sent, got>>
streams == <<stream, trip, linked>>
page == <<train, shown, fetches, unsubscribe>>
vars == <<version, stage, about, copy, sent, got, subscribers, queue, silent,
          stream, trip, linked, train, shown, fetches, unsubscribe>>

\* The event of a writer; base is the version of the trip when it was put to the queue.
Event == [trip : Trip, base : Nat]

NotRead == -1

\* first: the read of handleSelectTrain, which subscribes afterwards.
Fetch == [trip : Trip, version : Nat \cup {NotRead}, first : BOOLEAN]

TypeOK ==
    /\ version \in [Trip -> Nat]
    /\ stage \in [Writer -> {"idle", "put", "commit", "done"}]
    /\ about \in [Writer -> Trip \cup {NoTrip}]
    /\ copy \in [Writer -> Seq(Stream)]
    /\ sent \in [Writer -> 0 .. MaxStream]
    /\ got \in [Writer -> [Stream -> Nat]]
    /\ subscribers \in Seq(Stream)
    /\ queue \in [Stream -> Seq(Event)]
    /\ silent \in 0 .. MaxSilent
    /\ stream \in [Stream -> {"new", "asked", "subscribed", "running", "closed"}]
    /\ trip \in [Stream -> Trip \cup {NoTrip}]
    /\ linked \in [Stream -> BOOLEAN]
    /\ train \in Trip \cup {NoTrip}
    /\ shown \in [trip : Trip \cup {NoTrip}, version : Nat \cup {NotRead}]
    /\ fetches \in Seq(Fetch) /\ Len(fetches) <= MaxFetch
    /\ unsubscribe \in Stream \cup {0}

-----------------------------------------------------------------------------
(* Use-cases: publish, then commit.                                        *)

\* SsePublisher.publish: the list of subscribers is copied under the lock ...
Publish(w, t) ==
    /\ stage[w] = "idle" /\ \A u \in Writer : u < w => stage[u] # "idle"
    /\ stage' = [stage EXCEPT ![w] = "put"]
    /\ about' = [about EXCEPT ![w] = t]
    /\ copy' = [copy EXCEPT ![w] = subscribers]
    /\ UNCHANGED <<version, sent, got, subscribers, queue, silent, streams, page>>

\* Fault: the loop runs over the list itself.
ReceiversLive(w) == subscribers

Receivers(w) == copy[w]

\* Fault: the event does not say which trip it is about.
EventWithoutTrip(w) == [trip |-> NoTrip, base |-> version[about[w]]]

EventOf(w) == [trip |-> about[w], base |-> version[about[w]]]

\* ... and the event is put to them one by one without it.
Put(w) ==
    /\ stage[w] = "put"
    /\ \/ /\ sent[w] < Len(Receivers(w))
          /\ LET s == Receivers(w)[sent[w] + 1]
             IN  /\ queue' = [queue EXCEPT ![s] =
                                  IF stream[s] = "closed" THEN @ ELSE Append(@, EventOf(w))]
                 /\ got' = [got EXCEPT ![w][s] = @ + 1]
          /\ sent' = [sent EXCEPT ![w] = @ + 1]
          /\ UNCHANGED stage
       \/ /\ sent[w] >= Len(Receivers(w))
          /\ stage' = [stage EXCEPT ![w] = "commit"]
          /\ UNCHANGED <<queue, sent, got>>
    /\ UNCHANGED <<version, about, copy, subscribers, silent, streams, page>>

NoneGot == [s \in Stream |-> 0]

\* uow.commit, or a failure after the event went out.
CommitOrFail(w) ==
    /\ stage[w] = "commit"
    /\ stage' = [stage EXCEPT ![w] = "done"] /\ about' = [about EXCEPT ![w] = NoTrip]
    /\ copy' = [copy EXCEPT ![w] = <<>>] /\ sent' = [sent EXCEPT ![w] = 0]
    /\ got' = [got EXCEPT ![w] = NoneGot]
    /\ \/ version' = [version EXCEPT ![about[w]] = @ + 1]
       \/ UNCHANGED version
    /\ UNCHANGED <<subscribers, queue, silent, streams, page>>

\* expire_due in a request of somebody else: committed, and nothing is published.
LapseSilently(t) ==
    /\ silent < MaxSilent
    /\ silent' = silent + 1
    /\ version' = [version EXCEPT ![t] = @ + 1]
    /\ UNCHANGED <<writers, subscribers, queue, streams, page>>

-----------------------------------------------------------------------------
(* The stream endpoint.                                                    *)

\* trip_stream subscribes before the response, and with it the generator, starts.
Subscribe(s) ==
    /\ stream[s] = "asked"
    /\ stream' = [stream EXCEPT ![s] = "subscribed"]
    /\ subscribers' = Append(subscribers, s)
    /\ UNCHANGED <<version, writers, queue, silent, trip, linked, page>>

\* events(): ": connected".  It need not come to that when the client is gone already.
Start(s) ==
    /\ stream[s] = "subscribed"
    /\ stream' = [stream EXCEPT ![s] = "running"]
    /\ UNCHANGED <<version, writers, subscribers, queue, silent, trip, linked, page>>

\* Fault: a client is only missed when there is something to send.
GoneOnEvent(s) == ~linked[s] /\ queue[s] # <<>>

\* request.is_disconnected()
Gone(s) == ~linked[s]

\* The finally clause of events(); nobody reads the queue from now on.
Unsubscribe(s) ==
    /\ stream[s] = "running" /\ Gone(s)
    /\ stream' = [stream EXCEPT ![s] = "closed"]
    /\ subscribers' = Seqs!RemoveFirst(subscribers, s)
    /\ queue' = [queue EXCEPT ![s] = <<>>]
    /\ UNCHANGED <<version, writers, silent, trip, linked, page>>

\* Fault: one refresh at a time.
RefreshUnlessBusy(t) ==
    IF fetches # <<>> THEN fetches
    ELSE Append(fetches, [trip |-> t, version |-> NotRead, first |-> FALSE])

\* refreshAvailability
Refresh(t) == Append(fetches, [trip |-> t, version |-> NotRead, first |-> FALSE])

\* One turn of the loop: the next event is taken, and sent if it is about the trip; onDelta
\* makes the page read availability again.
Poll(s) ==
    /\ stream[s] = "running" /\ ~Gone(s) /\ queue[s] # <<>>
    /\ Len(fetches) < MaxFetch
    /\ queue' = [queue EXCEPT ![s] = Tail(@)]
    /\ fetches' = IF Head(queue[s]).trip = trip[s] THEN Refresh(trip[s]) ELSE fetches
    /\ UNCHANGED <<version, writers, subscribers, silent, streams, train, shown, unsubscribe>>

-----------------------------------------------------------------------------
(* The page.                                                               *)

\* Bound: a connection is left for every first read under way and one more.
Spare == Cardinality({i \in DOMAIN fetches : fetches[i].first})
             < Cardinality({s \in Stream : stream[s] = "new"})

\* handleSelectTrain, up to its first read.
SelectTrain(t) ==
    /\ train = NoTrip /\ Len(fetches) < MaxFetch /\ Spare
    /\ train' = t
    /\ fetches' = Append(fetches, [trip |-> t, version |-> NotRead, first |-> TRUE])
    /\ UNCHANGED <<version, writers, subscribers, queue, silent, streams, shown,
                   unsubscribe>>

\* leg_availability reads the table.
Read(i) ==
    /\ fetches[i].version = NotRead
    /\ fetches' = [fetches EXCEPT ![i].version = version[fetches[i].trip]]
    /\ UNCHANGED <<version, writers, subscribers, queue, silent, streams, train,
                   shown, unsubscribe>>

\* A connection to the stream of trip t.
Connect(t) ==
    \E s \in Stream :
        /\ stream[s] = "new" /\ \A u \in Stream : u < s => stream[u] # "new"
        /\ stream' = [stream EXCEPT ![s] = "asked"]
        /\ trip' = [trip EXCEPT ![s] = t]
        /\ linked' = [linked EXCEPT ![s] = TRUE]
        /\ unsubscribe' = s

\* The answer arrives, in any order; the first one is followed by stream.subscribe, even
\* if the page has been left or shows another train by now.
Arrive(i) ==
    LET f == fetches[i]
    IN  /\ f.version # NotRead
        /\ shown' = [trip |-> f.trip, version |-> f.version]
        /\ fetches' = Seqs!RemoveAt(fetches, i)
        /\ \/ f.first /\ Connect(f.trip)
           \/ ~f.first /\ UNCHANGED <<streams, unsubscribe>>
        /\ UNCHANGED <<version, writers, subscribers, queue, silent, train>>

NothingShown == [trip |-> NoTrip, version |-> NotRead]

\* What there is to unsubscribe is closed.
Leave ==
    /\ train' = NoTrip /\ unsubscribe' = 0
    /\ linked' = [s \in Stream |-> linked[s] /\ s # unsubscribe]
    /\ UNCHANGED <<version, writers, subscribers, queue, silent, stream, trip, fetches>>

\* goBack from the seats: what was read stays.
GoBack == train # NoTrip /\ Leave /\ UNCHANGED shown

\* goHome, from any step.
GoHome ==
    /\ train # NoTrip \/ unsubscribe # 0
    /\ Leave
    /\ shown' = NothingShown

\* The connection breaks and EventSource makes a new one; nothing is read again.
Reconnect(s) ==
    /\ linked[s] /\ s = unsubscribe /\ Spare
    /\ \E u \in Stream :
        /\ stream[u] = "new" /\ \A v \in Stream : v < u => stream[v] # "new"
        /\ stream' = [stream EXCEPT ![u] = "asked"]
        /\ trip' = [trip EXCEPT ![u] = trip[s]]
        /\ linked' = [linked EXCEPT ![s] = FALSE, ![u] = TRUE]
        /\ unsubscribe' = u
    /\ UNCHANGED <<version, writers, subscribers, queue, silent, train, shown, fetches>>

-----------------------------------------------------------------------------
Init ==
    /\ version = [t \in Trip |-> 0]
    /\ stage = [w \in Writer |-> "idle"] /\ about = [w \in Writer |-> NoTrip]
    /\ copy = [w \in Writer |-> <<>>] /\ sent = [w \in Writer |-> 0]
    /\ got = [w \in Writer |-> NoneGot]
    /\ subscribers = <<>>
    /\ queue = [s \in Stream |-> <<>>]
    /\ silent = 0
    /\ stream = [s \in Stream |-> "new"] /\ trip = [s \in Stream |-> NoTrip]
    /\ linked = [s \in Stream |-> FALSE]
    /\ train = NoTrip /\ shown = NothingShown
    /\ fetches = <<>> /\ unsubscribe = 0

Write(w) == Put(w) \/ CommitOrFail(w)

Answer == \E i \in DOMAIN fetches : Read(i) \/ Arrive(i)

Next ==
    \/ \E w \in Writer : Write(w) \/ \E t \in Trip : Publish(w, t)
    \/ \E t \in Trip : LapseSilently(t) \/ SelectTrain(t)
    \/ \E s \in Stream : Subscribe(s) \/ Start(s) \/ Unsubscribe(s) \/ Poll(s) \/ Reconnect(s)
    \/ Answer \/ GoBack \/ GoHome

Spec == Init /\ [][Next]_vars

\* Requests under way are worked on and answered, and a running generator goes round its
\* loop.  A generator whose client left before it started may never run.
FairSpec ==
    /\ Spec
    /\ \A w \in Writer : WF_vars(Write(w))
    /\ \A s \in Stream :
        /\ WF_vars(Subscribe(s)) /\ WF_vars(linked[s] /\ Start(s))
        /\ WF_vars(Poll(s)) /\ WF_vars(Unsubscribe(s))
    /\ WF_vars(Answer)

-----------------------------------------------------------------------------
(* The inductive invariant of the broker.                                  *)

\* Nobody is subscribed twice, and a stream only while its generator may still run.
EnlistedInv ==
    \A i \in DOMAIN subscribers :
        /\ stream[subscribers[i]] \in {"subscribed", "running"}
        /\ \A j \in DOMAIN subscribers : subscribers[i] = subscribers[j] => i = j

\* A writer puts its event about a trip to the members of its copy in order, none twice.
HandedOutInv ==
    \A w \in Writer :
        /\ \A i, j \in DOMAIN copy[w] : copy[w][i] = copy[w][j] => i = j
        /\ sent[w] <= Len(copy[w])
        /\ stage[w] = "idle" => sent[w] = 0
        /\ stage[w] = "commit" => sent[w] = Len(copy[w])
        /\ stage[w] \in {"put", "commit"} => about[w] \in Trip
        /\ \A s \in Stream :
            got[w][s] = IF \E i \in 1 .. sent[w] : copy[w][i] = s THEN 1 ELSE 0

IInv == TypeOK /\ EnlistedInv /\ HandedOutInv

-----------------------------------------------------------------------------
\* sse_publisher.py: "publish fans an event out to every current subscriber".  Each of
\* the streams subscribed when the event was published gets it exactly once and no other
\* stream does, whoever subscribes or unsubscribes while the event is handed out.
FannedOutOnce ==
    \A w \in Writer, s \in Stream :
        LET due == Cardinality({i \in DOMAIN copy[w] : copy[w][i] = s})
        IN  /\ due <= 1 /\ got[w][s] <= due
            /\ stage[w] = "commit" => got[w][s] = due

\* stream.py: "a dropped connection never leaks a subscriber", once the generator runs.
DroppedStreamUnsubscribed ==
    \A s \in Stream :
        (stream[s] = "running" /\ ~linked[s])
            ~> (\A i \in DOMAIN subscribers : subscribers[i] # s)

\* A page that is subscribed when a change of its train is published comes to show the
\* bookings as they were at that time or later, unless the page is left or its
\* connection breaks before.
DeltaRefreshes ==
    \A s \in Stream, v \in 1 .. MaxWriter + MaxSilent - 1 :
        (/\ unsubscribe = s /\ stream[s] = "running"
         /\ \E i \in DOMAIN queue[s] : queue[s][i].trip = trip[s] /\ queue[s][i].base = v)
            ~> (shown.trip = trip[s] /\ shown.version >= v) \/ unsubscribe # s
=============================================================================
