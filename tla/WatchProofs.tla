----------------------------- MODULE WatchProofs -----------------------------
(***************************************************************************)
(* Watch for any number of trips, writers, streams and requests: an event  *)
(* reaches every subscriber of its moment exactly once (FannedOutOnce).    *)
(***************************************************************************)
EXTENDS Watch, FiniteSetTheorems, TLAPS

\* A sequence without repetitions is no longer than the number of values there are.
LEMMA NoRepetition ==
    ASSUME NEW q \in Seq(Stream), \A i, j \in DOMAIN q : q[i] = q[j] => i = j
    PROVE  Len(q) \in 0 .. MaxStream
<1>1. /\ IsFiniteSet(Stream) /\ Cardinality(Stream) = MaxStream
      /\ IsFiniteSet(1 .. Len(q)) /\ Cardinality(1 .. Len(q)) = Len(q)
  <2>1. MaxStream \in Nat /\ Len(q) \in Nat
    BY WatchAssumption
  <2>2. \A n \in Nat : IsFiniteSet(1 .. n) /\ Cardinality(1 .. n) = n
    BY FS_Interval
  <2> QED
    BY <2>1, <2>2 DEF Stream
<1>2. q \in [1 .. Len(q) -> Stream] /\ \A i, j \in 1 .. Len(q) : q[i] = q[j] => i = j
    OBVIOUS
<1>3. ~ MaxStream < Len(q)
    BY <1>1, <1>2, FS_PigeonHole
<1> QED
    BY <1>3, WatchAssumption

\* list.remove on a list without repetitions.
LEMMA RemoveFirstOf ==
    ASSUME NEW q \in Seq(Stream), \A i, j \in DOMAIN q : q[i] = q[j] => i = j, NEW s
    PROVE  LET p == Seqs!RemoveFirst(q, s)
           IN  /\ p \in Seq(Stream)
               /\ \A i \in DOMAIN p : p[i] # s /\ \E j \in DOMAIN q : p[i] = q[j]
               /\ \A i, j \in DOMAIN p : p[i] = p[j] => i = j
<1> DEFINE p == Seqs!RemoveFirst(q, s)
<1>1. CASE \A i \in 1 .. Len(q) : q[i] # s
  <2>1. p = q
    BY <1>1 DEF Seqs!RemoveFirst
  <2> QED
    BY <1>1, <2>1
<1>2. ASSUME NEW k \in 1 .. Len(q), q[k] = s
      PROVE  /\ p \in Seq(Stream)
             /\ \A i \in DOMAIN p : p[i] # s /\ \E j \in DOMAIN q : p[i] = q[j]
             /\ \A i, j \in DOMAIN p : p[i] = p[j] => i = j
  <2>1. {i \in 1 .. Len(q) : q[i] = s} = {k}
    BY <1>2
  <2>2. Seqs!SelectInSeq(q, LAMBDA v : v = s) = k
    BY <2>1 DEF Seqs!SelectInSeq, Seqs!Min
  <2>3. p = SubSeq(q, 1, k - 1) \o SubSeq(q, k + 1, Len(q))
    BY <1>2, <2>2 DEF Seqs!RemoveFirst, Seqs!RemoveAt
  <2> DEFINE front == SubSeq(q, 1, k - 1)
             back == SubSeq(q, k + 1, Len(q))
             old(i) == IF i < k THEN i ELSE i + 1
  <2>4. /\ front \in Seq(Stream) /\ Len(front) = k - 1
        /\ \A i \in 1 .. k - 1 : front[i] = q[i]
    OBVIOUS
  <2>5. /\ back \in Seq(Stream) /\ Len(back) = Len(q) - k
        /\ \A i \in 1 .. Len(q) - k : back[i] = q[i + k]
    OBVIOUS
  <2>6. p = front \o back
    BY <2>3
  <2> HIDE DEF front, back, p
  <2>7. /\ p \in Seq(Stream) /\ Len(p) = Len(q) - 1
        /\ \A i \in DOMAIN p : old(i) \in DOMAIN q /\ old(i) # k /\ p[i] = q[old(i)]
    BY <2>4, <2>5, <2>6
  <2>8. \A i \in DOMAIN p : p[i] # s /\ \E j \in DOMAIN q : p[i] = q[j]
    BY <1>2, <2>7
  <2>9. \A i, j \in DOMAIN p : old(i) = old(j) => i = j
    BY <2>7
  <2> QED
    BY <2>7, <2>8, <2>9
<1> QED
    BY <1>1, <1>2

\* A step that leaves the broker and its writers alone.
LEMMA SameHandOut ==
    ASSUME HandedOutInv, UNCHANGED writers PROVE HandedOutInv'
BY DEF HandedOutInv, writers

LEMMA SameEnlisted ==
    ASSUME TypeOK, EnlistedInv, UNCHANGED subscribers,
           \A s \in Stream : stream[s] \in {"subscribed", "running"} =>
                                 stream'[s] \in {"subscribed", "running"}
    PROVE  EnlistedInv'
BY DEF EnlistedInv, TypeOK

\* The list is copied.
LEMMA PublishKeeps ==
    ASSUME IInv, NEW w \in Writer, NEW t \in Trip, Publish(w, t) PROVE IInv'
<1> USE DEF IInv, Publish
<1>1. TypeOK'
    BY DEF TypeOK, streams, page
<1>2. EnlistedInv'
    BY SameEnlisted DEF streams
<1>3. HandedOutInv'
  <2> SUFFICES ASSUME NEW u \in Writer
               PROVE  /\ \A i, j \in DOMAIN copy'[u] : copy'[u][i] = copy'[u][j] => i = j
                      /\ sent[u] <= Len(copy'[u])
                      /\ stage'[u] = "idle" => sent[u] = 0
                      /\ stage'[u] = "commit" => sent[u] = Len(copy'[u])
                      /\ stage'[u] \in {"put", "commit"} => about'[u] \in Trip
                      /\ \A s \in Stream :
                          got[u][s] = IF \E i \in 1 .. sent[u] : copy'[u][i] = s THEN 1 ELSE 0
    BY DEF HandedOutInv
  <2>1. CASE u = w
    <3>1. copy'[w] = subscribers /\ stage'[w] = "put" /\ about'[w] = t /\ sent[w] = 0
        BY DEF TypeOK, HandedOutInv
    <3>2. \A s \in Stream : got[w][s] = 0
        BY <3>1 DEF HandedOutInv
    <3> QED
        BY <2>1, <3>1, <3>2 DEF EnlistedInv, TypeOK
  <2>2. CASE u # w
    <3>1. copy'[u] = copy[u] /\ stage'[u] = stage[u] /\ about'[u] = about[u]
        BY <2>2 DEF TypeOK
    <3> QED
        BY <3>1 DEF HandedOutInv
  <2> QED
    BY <2>1, <2>2
<1> QED
    BY <1>1, <1>2, <1>3

\* The next subscriber of the copy gets the event.
LEMMA PutKeeps ==
    ASSUME IInv, NEW w \in Writer, Put(w) PROVE IInv'
<1> USE DEF IInv
<1>1. stage[w] = "put" /\ about[w] \in Trip /\ UNCHANGED <<version, about, copy,
        subscribers, silent, streams, page>>
    BY DEF Put, HandedOutInv
<1>2. EnlistedInv'
    BY <1>1, SameEnlisted DEF streams
<1>3. CASE sent[w] < Len(copy[w])
  <2> DEFINE s == copy[w][sent[w] + 1]
  <2>2. /\ copy[w] \in Seq(Stream) /\ sent[w] \in Nat
        /\ Len(copy[w]) \in 0 .. MaxStream /\ MaxStream \in Nat
    BY NoRepetition, WatchAssumption DEF TypeOK, HandedOutInv
  <2>10. ~ sent[w] >= Len(copy[w])
    BY <1>3, <2>2
  <2>1. /\ queue' = [queue EXCEPT ![s] =
                        IF stream[s] = "closed" THEN @ ELSE Append(@, EventOf(w))]
        /\ got' = [got EXCEPT ![w][s] = @ + 1]
        /\ sent' = [sent EXCEPT ![w] = @ + 1] /\ stage' = stage
    BY <2>10 DEF Put, Receivers
  <2>3. s \in Stream /\ EventOf(w) \in Event
    BY <1>1, <1>3, <2>2 DEF TypeOK, EventOf, Event
  <2> HIDE DEF s
  <2>4. queue' \in [Stream -> Seq(Event)]
    BY <2>1, <2>3 DEF TypeOK
  <2>11. sent[w] + 1 \in 0 .. MaxStream
    BY <1>3, <2>2
  <2>12. sent' \in [Writer -> 0 .. MaxStream]
    BY <2>1, <2>11 DEF TypeOK
  <2>13. got' \in [Writer -> [Stream -> Nat]]
    BY <2>1, <2>3 DEF TypeOK
  <2>5. got' \in [Writer -> [Stream -> Nat]] /\ sent' \in [Writer -> 0 .. MaxStream]
    BY <2>12, <2>13
  <2>6. TypeOK'
    BY <1>1, <2>1, <2>4, <2>5 DEF TypeOK, streams, page
  <2>7. \A u \in Writer : /\ sent'[u] = IF u = w THEN sent[w] + 1 ELSE sent[u]
                          /\ \A v \in Stream : got'[u][v] =
                                IF u = w /\ v = s THEN got[u][v] + 1 ELSE got[u][v]
    BY <2>1, <2>3 DEF TypeOK
  <2>8. \A v \in Stream :
            got'[w][v] = IF \E i \in 1 .. sent[w] + 1 : copy[w][i] = v THEN 1 ELSE 0
    <3> TAKE v \in Stream
    <3>1. 1 .. sent[w] + 1 = 1 .. sent[w] \cup {sent[w] + 1}
        BY <2>2
    <3>2. CASE v = s
      <4>1. ~ \E i \in 1 .. sent[w] : copy[w][i] = s
        BY <1>3, <2>2 DEF HandedOutInv, s
      <4>2. got[w][s] = 0
        BY <2>3, <4>1 DEF HandedOutInv
      <4>3. \E i \in 1 .. sent[w] + 1 : copy[w][i] = s
        BY <2>2 DEF s
      <4> QED
        BY <2>3, <2>7, <3>2, <4>2, <4>3
    <3>3. CASE v # s
      <4>1. (\E i \in 1 .. sent[w] + 1 : copy[w][i] = v)
                <=> \E i \in 1 .. sent[w] : copy[w][i] = v
        BY <3>1, <3>3 DEF s
      <4> QED
        BY <2>7, <3>3, <4>1 DEF HandedOutInv
    <3> QED
        BY <3>2, <3>3
  <2>9. HandedOutInv'
    <3> SUFFICES ASSUME NEW u \in Writer
                 PROVE  /\ \A i, j \in DOMAIN copy[u] : copy[u][i] = copy[u][j] => i = j
                        /\ sent'[u] <= Len(copy[u])
                        /\ stage[u] = "idle" => sent'[u] = 0
                        /\ stage[u] = "commit" => sent'[u] = Len(copy[u])
                        /\ stage[u] \in {"put", "commit"} => about[u] \in Trip
                        /\ \A v \in Stream : got'[u][v] =
                            IF \E i \in 1 .. sent'[u] : copy[u][i] = v THEN 1 ELSE 0
        BY <1>1, <2>1 DEF HandedOutInv
    <3>1. CASE u = w
        BY <1>1, <1>3, <2>2, <2>7, <2>8, <3>1 DEF HandedOutInv
    <3>2. CASE u # w
        BY <2>7, <3>2 DEF HandedOutInv
    <3> QED
        BY <3>1, <3>2
  <2> QED
    BY <1>2, <2>6, <2>9
<1>4. CASE sent[w] >= Len(copy[w])
  <2>1. /\ stage' = [stage EXCEPT ![w] = "commit"] /\ UNCHANGED <<queue, sent, got>>
    BY <1>4 DEF Put, Receivers, TypeOK
  <2>2. TypeOK'
    BY <1>1, <2>1 DEF TypeOK, streams, page
  <2>3. sent[w] = Len(copy[w])
    BY <1>4 DEF TypeOK, HandedOutInv
  <2>4. \A u \in Writer : stage'[u] = IF u = w THEN "commit" ELSE stage[u]
    BY <2>1 DEF TypeOK
  <2>5. HandedOutInv'
    BY <1>1, <2>1, <2>3, <2>4 DEF HandedOutInv
  <2> QED
    BY <1>2, <2>2, <2>5
<1> QED
    BY <1>3, <1>4 DEF Put, Receivers

\* The writer is over and forgets what it did.
LEMMA CommitOrFailKeeps ==
    ASSUME IInv, NEW w \in Writer, CommitOrFail(w) PROVE IInv'
<1> USE DEF IInv
<1>1. /\ stage' = [stage EXCEPT ![w] = "done"] /\ about' = [about EXCEPT ![w] = NoTrip]
      /\ copy' = [copy EXCEPT ![w] = <<>>] /\ sent' = [sent EXCEPT ![w] = 0]
      /\ got' = [got EXCEPT ![w] = NoneGot]
      /\ UNCHANGED <<subscribers, queue, silent, streams, page>>
    BY DEF CommitOrFail
<1>2. version' \in [Trip -> Nat]
  <2>1. version' = version \/ version' = [version EXCEPT ![about[w]] = @ + 1]
    BY DEF CommitOrFail
  <2>2. about[w] \in Trip /\ version \in [Trip -> Nat]
    BY DEF CommitOrFail, HandedOutInv, TypeOK
  <2> QED
    BY <2>1, <2>2
<1>3. <<>> \in Seq(Stream) /\ 0 \in 0 .. MaxStream /\ NoneGot \in [Stream -> Nat]
    BY WatchAssumption DEF NoneGot
<1>4. TypeOK'
    BY <1>1, <1>2, <1>3 DEF TypeOK, streams, page
<1>5. EnlistedInv'
    BY <1>1, SameEnlisted DEF streams
<1>6. \A u \in Writer :
        /\ u = w => /\ stage'[u] = "done" /\ copy'[u] = <<>> /\ sent'[u] = 0
                    /\ \A s \in Stream : got'[u][s] = 0
        /\ u # w => /\ stage'[u] = stage[u] /\ copy'[u] = copy[u] /\ sent'[u] = sent[u]
                    /\ got'[u] = got[u] /\ about'[u] = about[u]
    BY <1>1 DEF TypeOK, NoneGot
<1>7. HandedOutInv'
  <2> SUFFICES ASSUME NEW u \in Writer
               PROVE  /\ \A i, j \in DOMAIN copy'[u] : copy'[u][i] = copy'[u][j] => i = j
                      /\ sent'[u] <= Len(copy'[u])
                      /\ stage'[u] = "idle" => sent'[u] = 0
                      /\ stage'[u] = "commit" => sent'[u] = Len(copy'[u])
                      /\ stage'[u] \in {"put", "commit"} => about'[u] \in Trip
                      /\ \A s \in Stream : got'[u][s] =
                            IF \E i \in 1 .. sent'[u] : copy'[u][i] = s THEN 1 ELSE 0
    BY DEF HandedOutInv
  <2>1. CASE u = w
    BY <1>6, <2>1
  <2>2. CASE u # w
    BY <1>6, <2>2 DEF HandedOutInv
  <2> QED
    BY <2>1, <2>2
<1> QED
    BY <1>4, <1>5, <1>7

\* The stream joins the list at its end, once.
LEMMA SubscribeKeeps ==
    ASSUME IInv, NEW s \in Stream, Subscribe(s) PROVE IInv'
<1> USE DEF IInv, Subscribe
<1>1. TypeOK'
    BY DEF TypeOK, writers, page
<1>2. HandedOutInv'
    BY SameHandOut
<1>3. EnlistedInv'
  <2>1. \A i \in DOMAIN subscribers : subscribers[i] # s
    BY DEF EnlistedInv
  <2>2. /\ \A u \in Stream : stream'[u] = IF u = s THEN "subscribed" ELSE stream[u]
        /\ subscribers \in Seq(Stream) /\ subscribers' = Append(subscribers, s)
    BY DEF TypeOK
  <2> QED
    BY <2>1, <2>2 DEF EnlistedInv
<1> QED
    BY <1>1, <1>2, <1>3

\* It leaves it when its client is gone.
LEMMA UnsubscribeKeeps ==
    ASSUME IInv, NEW s \in Stream, Unsubscribe(s) PROVE IInv'
<1> USE DEF IInv, Unsubscribe
<1>1. /\ subscribers' \in Seq(Stream)
      /\ \A i \in DOMAIN subscribers' :
            subscribers'[i] # s /\ \E j \in DOMAIN subscribers : subscribers'[i] = subscribers[j]
      /\ \A i, j \in DOMAIN subscribers' : subscribers'[i] = subscribers'[j] => i = j
  <2>1. /\ subscribers \in Seq(Stream)
        /\ \A i, j \in DOMAIN subscribers : subscribers[i] = subscribers[j] => i = j
    BY DEF TypeOK, EnlistedInv
  <2>2. subscribers' = Seqs!RemoveFirst(subscribers, s)
    OBVIOUS
  <2> HIDE DEF Unsubscribe
  <2> QED
    BY <2>1, <2>2, RemoveFirstOf
<1>2. TypeOK'
    BY <1>1 DEF TypeOK, writers, page
<1>3. HandedOutInv'
    BY SameHandOut
<1>4. \A u \in Stream : u # s => stream'[u] = stream[u]
    BY DEF TypeOK
<1>5. EnlistedInv'
    BY <1>1, <1>4 DEF EnlistedInv, TypeOK
<1> QED
    BY <1>2, <1>3, <1>5

-----------------------------------------------------------------------------
\* A lapse that nobody hears of.
LEMMA LapseSilentlyKeeps ==
    ASSUME IInv, NEW t \in Trip, LapseSilently(t) PROVE IInv'
<1> USE DEF IInv, LapseSilently
<1>1. TypeOK'
  <2>1. silent' \in 0 .. MaxSilent /\ version' \in [Trip -> Nat]
    BY WatchAssumption DEF TypeOK
  <2> QED
    BY <2>1 DEF TypeOK, writers, streams, page
<1>2. EnlistedInv' /\ HandedOutInv'
    BY SameEnlisted, SameHandOut DEF streams
<1> QED
    BY <1>1, <1>2

LEMMA StartKeeps ==
    ASSUME IInv, NEW s \in Stream, Start(s) PROVE IInv'
<1> USE DEF IInv, Start
<1>1. TypeOK'
    BY DEF TypeOK, writers, page
<1>2. \A u \in Stream : stream'[u] = IF u = s THEN "running" ELSE stream[u]
    BY DEF TypeOK
<1>3. EnlistedInv' /\ HandedOutInv'
    BY <1>2, SameEnlisted, SameHandOut
<1> QED
    BY <1>1, <1>3

\* Another request for the availability of a trip.
LEMMA AnotherFetch ==
    ASSUME TypeOK, Len(fetches) < MaxFetch, NEW t \in Trip, NEW b \in BOOLEAN
    PROVE  LET f == Append(fetches, [trip |-> t, version |-> NotRead, first |-> b])
           IN  f \in Seq(Fetch) /\ Len(f) <= MaxFetch
<1>1. [trip |-> t, version |-> NotRead, first |-> b] \in Fetch
    BY DEF Fetch
<1> QED
    BY <1>1, WatchAssumption DEF TypeOK

\* The next event is taken.
LEMMA PollKeeps ==
    ASSUME IInv, NEW s \in Stream, Poll(s) PROVE IInv'
<1> USE DEF IInv
<1>1. /\ queue' = [queue EXCEPT ![s] = Tail(@)] /\ queue[s] # <<>> /\ Len(fetches) < MaxFetch
      /\ fetches' = IF Head(queue[s]).trip = trip[s] THEN Refresh(trip[s]) ELSE fetches
      /\ UNCHANGED <<version, writers, subscribers, silent, streams, train, shown, unsubscribe>>
    BY DEF Poll
<1>2. Head(queue[s]).trip \in Trip /\ Tail(queue[s]) \in Seq(Event)
  <2>1. queue[s] \in Seq(Event) /\ queue[s] # <<>>
    BY <1>1 DEF TypeOK
  <2>2. Head(queue[s]) \in Event /\ Tail(queue[s]) \in Seq(Event)
    BY <2>1
  <2> QED
    BY <2>2 DEF Event
<1>3. queue' \in [Stream -> Seq(Event)]
    BY <1>1, <1>2 DEF TypeOK
<1>4. fetches' \in Seq(Fetch) /\ Len(fetches') <= MaxFetch
  <2>1. CASE Head(queue[s]).trip = trip[s]
    BY <1>1, <1>2, <2>1, AnotherFetch DEF Refresh
  <2>2. CASE Head(queue[s]).trip # trip[s]
    BY <1>1, <2>2 DEF TypeOK
  <2> QED
    BY <2>1, <2>2
<1>5. TypeOK'
    BY <1>1, <1>3, <1>4 DEF TypeOK, writers, streams
<1>6. EnlistedInv' /\ HandedOutInv'
    BY <1>1, SameEnlisted, SameHandOut DEF streams
<1> QED
    BY <1>5, <1>6

-----------------------------------------------------------------------------
(* The page does not touch the broker.                                     *)

LEMMA SelectTrainKeeps ==
    ASSUME IInv, NEW t \in Trip, SelectTrain(t) PROVE IInv'
<1> USE DEF IInv, SelectTrain
<1>1. fetches' \in Seq(Fetch) /\ Len(fetches') <= MaxFetch
    BY AnotherFetch
<1>2. TypeOK'
    BY <1>1 DEF TypeOK, writers, streams
<1>3. EnlistedInv' /\ HandedOutInv'
    BY SameEnlisted, SameHandOut DEF streams
<1> QED
    BY <1>2, <1>3

LEMMA ReadKeeps ==
    ASSUME IInv, NEW i \in DOMAIN fetches, Read(i) PROVE IInv'
<1> USE DEF IInv, Read
<1>1. fetches[i] \in Fetch
    BY DEF TypeOK
<1>2. [fetches[i] EXCEPT !.version = version[fetches[i].trip]] \in Fetch
    BY <1>1 DEF TypeOK, Fetch
<1>3. fetches' \in Seq(Fetch) /\ Len(fetches') <= MaxFetch
    BY <1>2 DEF TypeOK
<1>4. TypeOK'
    BY <1>3 DEF TypeOK, writers, streams
<1>5. EnlistedInv' /\ HandedOutInv'
    BY SameEnlisted, SameHandOut DEF streams
<1> QED
    BY <1>4, <1>5

\* The answered request leaves the sequence.
LEMMA RemoveAtOf ==
    ASSUME NEW S, NEW q \in Seq(S), NEW i \in DOMAIN q
    PROVE  Seqs!RemoveAt(q, i) \in Seq(S) /\ Len(Seqs!RemoveAt(q, i)) = Len(q) - 1
<1> DEFINE front == SubSeq(q, 1, i - 1)
           back == SubSeq(q, i + 1, Len(q))
<1>1. front \in Seq(S) /\ Len(front) = i - 1
    OBVIOUS
<1>2. back \in Seq(S) /\ Len(back) = Len(q) - i
    OBVIOUS
<1>3. Seqs!RemoveAt(q, i) = front \o back
    BY DEF Seqs!RemoveAt
<1> HIDE DEF front, back
<1> QED
    BY <1>1, <1>2, <1>3

\* A new connection does not disturb the streams that are subscribed.
LEMMA ConnectKeeps ==
    ASSUME TypeOK, EnlistedInv, NEW t \in Trip, Connect(t), UNCHANGED subscribers
    PROVE  /\ stream' \in [Stream -> {"new", "asked", "subscribed", "running", "closed"}]
           /\ trip' \in [Stream -> Trip \cup {NoTrip}]
           /\ linked' \in [Stream -> BOOLEAN]
           /\ unsubscribe' \in Stream \cup {0}
           /\ EnlistedInv'
<1> PICK s \in Stream : /\ stream[s] = "new" /\ stream' = [stream EXCEPT ![s] = "asked"]
                        /\ trip' = [trip EXCEPT ![s] = t]
                        /\ linked' = [linked EXCEPT ![s] = TRUE] /\ unsubscribe' = s
    BY DEF Connect
<1>1. \A u \in Stream : stream'[u] = IF u = s THEN "asked" ELSE stream[u]
    BY DEF TypeOK
<1>2. EnlistedInv'
    BY <1>1, SameEnlisted
<1> QED
    BY <1>2 DEF TypeOK

LEMMA ArriveKeeps ==
    ASSUME IInv, NEW i \in DOMAIN fetches, Arrive(i) PROVE IInv'
<1> USE DEF IInv
<1>1. /\ shown' = [trip |-> fetches[i].trip, version |-> fetches[i].version]
      /\ fetches' = Seqs!RemoveAt(fetches, i)
      /\ Connect(fetches[i].trip) \/ UNCHANGED <<streams, unsubscribe>>
      /\ UNCHANGED <<version, writers, subscribers, queue, silent, train>>
    BY DEF Arrive
<1>2. fetches[i] \in Fetch /\ fetches \in Seq(Fetch)
    BY DEF TypeOK
<1>3. shown' \in [trip : Trip \cup {NoTrip}, version : Nat \cup {NotRead}]
    BY <1>1, <1>2 DEF Fetch
<1>4. fetches' \in Seq(Fetch) /\ Len(fetches') <= MaxFetch
    BY <1>1, <1>2, RemoveAtOf, WatchAssumption DEF TypeOK
<1>5. /\ stream' \in [Stream -> {"new", "asked", "subscribed", "running", "closed"}]
      /\ trip' \in [Stream -> Trip \cup {NoTrip}]
      /\ linked' \in [Stream -> BOOLEAN]
      /\ unsubscribe' \in Stream \cup {0}
      /\ EnlistedInv'
  <2>1. CASE Connect(fetches[i].trip)
    BY <1>1, <1>2, <2>1, ConnectKeeps DEF Fetch
  <2>2. CASE UNCHANGED <<streams, unsubscribe>>
    BY <1>1, <2>2, SameEnlisted DEF streams, TypeOK
  <2> QED
    BY <1>1, <2>1, <2>2
<1>6. TypeOK'
    BY <1>1, <1>3, <1>4, <1>5 DEF TypeOK, writers
<1>7. HandedOutInv'
    BY <1>1, SameHandOut
<1> QED
    BY <1>5, <1>6, <1>7

LEMMA LeaveKeeps ==
    ASSUME IInv, Leave, shown' = shown \/ shown' = NothingShown PROVE IInv'
<1> USE DEF IInv, Leave
<1>1. shown' \in [trip : Trip \cup {NoTrip}, version : Nat \cup {NotRead}]
    BY DEF TypeOK, NothingShown
<1>2. linked' \in [Stream -> BOOLEAN]
    OBVIOUS
<1>3. TypeOK'
    BY <1>1, <1>2 DEF TypeOK, writers
<1>4. EnlistedInv' /\ HandedOutInv'
    BY SameEnlisted, SameHandOut
<1> QED
    BY <1>3, <1>4

LEMMA ReconnectKeeps ==
    ASSUME IInv, NEW s \in Stream, Reconnect(s) PROVE IInv'
<1> USE DEF IInv
<1> PICK u \in Stream :
        /\ stream[u] = "new" /\ stream' = [stream EXCEPT ![u] = "asked"]
        /\ trip' = [trip EXCEPT ![u] = trip[s]]
        /\ linked' = [linked EXCEPT ![s] = FALSE, ![u] = TRUE]
        /\ unsubscribe' = u
    BY DEF Reconnect
<1>1. UNCHANGED <<version, writers, subscribers, queue, silent, train, shown, fetches>>
    BY DEF Reconnect
<1>2. \A v \in Stream : stream'[v] = IF v = u THEN "asked" ELSE stream[v]
    BY DEF TypeOK
<1>3. TypeOK'
    BY <1>1 DEF TypeOK, writers
<1>4. EnlistedInv' /\ HandedOutInv'
    BY <1>1, <1>2, SameEnlisted, SameHandOut
<1> QED
    BY <1>3, <1>4

-----------------------------------------------------------------------------
LEMMA InitHolds == Init => IInv
<1> SUFFICES ASSUME Init PROVE IInv
    OBVIOUS
<1>1. NoneGot \in [Stream -> Nat]
    BY DEF NoneGot
<1>2. /\ \A w \in Writer : got[w] = NoneGot /\ sent[w] = 0 /\ copy[w] = <<>> /\ stage[w] = "idle"
      /\ \A s \in Stream : NoneGot[s] = 0
    BY DEF Init, NoneGot
<1>3. TypeOK
    BY <1>1, WatchAssumption DEF Init, TypeOK, NothingShown
<1>4. EnlistedInv
    BY DEF Init, EnlistedInv
<1>5. HandedOutInv
    BY <1>2 DEF HandedOutInv
<1> QED
    BY <1>3, <1>4, <1>5 DEF IInv

LEMMA NextKeeps == IInv /\ [Next]_vars => IInv'
<1> SUFFICES ASSUME IInv, [Next]_vars PROVE IInv'
    OBVIOUS
<1>1. ASSUME NEW w \in Writer, Write(w) PROVE IInv'
    BY <1>1, PutKeeps, CommitOrFailKeeps DEF Write
<1>2. ASSUME NEW w \in Writer, NEW t \in Trip, Publish(w, t) PROVE IInv'
    BY <1>2, PublishKeeps
<1>3. ASSUME NEW t \in Trip, LapseSilently(t) \/ SelectTrain(t) PROVE IInv'
    BY <1>3, LapseSilentlyKeeps, SelectTrainKeeps
<1>4. ASSUME NEW s \in Stream,
             Subscribe(s) \/ Start(s) \/ Unsubscribe(s) \/ Poll(s) \/ Reconnect(s)
      PROVE  IInv'
    BY <1>4, SubscribeKeeps, StartKeeps, UnsubscribeKeeps, PollKeeps, ReconnectKeeps
<1>5. CASE Answer
    BY <1>5, ReadKeeps, ArriveKeeps DEF Answer
<1>6. CASE GoBack \/ GoHome
    BY <1>6, LeaveKeeps DEF GoBack, GoHome
<1>7. CASE UNCHANGED vars
  <2>1. TypeOK'
    BY <1>7 DEF IInv, TypeOK, vars
  <2>2. EnlistedInv' /\ HandedOutInv'
    BY <1>7, SameEnlisted, SameHandOut DEF IInv, vars, writers
  <2> QED
    BY <2>1, <2>2 DEF IInv
<1> QED
    BY <1>1, <1>2, <1>3, <1>4, <1>5, <1>6, <1>7 DEF Next

\* The invariant of the broker, for every number of trips, writers and streams: types, no
\* subscriber listed twice or after its stream is closed, and of every publish under way
\* exactly the first members of its copy served.
THEOREM BrokerInductive == Spec => []IInv
<1>1. Init => IInv
    BY InitHolds
<1>2. IInv /\ [Next]_vars => IInv'
    BY NextKeeps
<1> QED
    BY <1>1, <1>2, PTL DEF Spec

LEMMA ServedOnce == IInv => FannedOutOnce
<1> SUFFICES ASSUME IInv, NEW w \in Writer, NEW s \in Stream
             PROVE  LET due == Cardinality({i \in DOMAIN copy[w] : copy[w][i] = s})
                    IN  /\ due <= 1 /\ got[w][s] <= due
                        /\ stage[w] = "commit" => got[w][s] = due
    BY DEF FannedOutOnce
<1> DEFINE places == {i \in DOMAIN copy[w] : copy[w][i] = s}
<1>1. /\ copy[w] \in Seq(Stream) /\ sent[w] \in Nat /\ sent[w] <= Len(copy[w])
      /\ got[w][s] = IF \E i \in 1 .. sent[w] : copy[w][i] = s THEN 1 ELSE 0
      /\ stage[w] = "commit" => sent[w] = Len(copy[w])
    BY DEF IInv, TypeOK, HandedOutInv
<1>2. CASE places = {}
  <2>1. Cardinality(places) = 0
    BY <1>2, FS_EmptySet
  <2>2. got[w][s] = 0
    BY <1>1, <1>2
  <2> HIDE DEF places
  <2> QED
    BY <2>1, <2>2 DEF places
<1>3. ASSUME NEW i \in places PROVE Cardinality(places) = 1
  <2>1. places = {i}
    BY DEF IInv, HandedOutInv
  <2> HIDE DEF places
  <2> QED
    BY <2>1, FS_Singleton
<1>4. ASSUME NEW i \in places PROVE stage[w] = "commit" => got[w][s] = 1
    BY <1>1
<1>5. got[w][s] \in {0, 1}
    BY <1>1
<1> HIDE DEF places
<1>6. CASE places # {}
  <2>1. Cardinality(places) = 1 /\ (stage[w] = "commit" => got[w][s] = 1)
    BY <1>3, <1>4, <1>6
  <2> QED
    BY <1>5, <2>1 DEF places
<1> QED
    BY <1>2, <1>6

\* sse_publisher.py: "publish fans an event out to every current subscriber".  Exactly
\* once to each stream subscribed when the event was published and to no other, however
\* many streams come and go while the writers publish.
THEOREM EventReachesAll == Spec => []FannedOutOnce
<1>1. Spec => []IInv
    BY BrokerInductive
<1> QED
    BY <1>1, ServedOnce, PTL
=============================================================================
