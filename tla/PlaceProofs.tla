---------------------------- MODULE PlaceProofs ----------------------------
(***************************************************************************)
(* A routed event is in one place at a time - an outbox, a delivery of a   *)
(* task, or the stream of one connection - for any number of clients,      *)
(* connections and events.                                                 *)
(***************************************************************************)
EXTENDS RelayProofs, SequenceTheorems

\* The elements of a sequence, by place.
LEMMA PlacesOfRange ==
  ASSUME NEW S, NEW s \in Seq(S), NEW x
  PROVE  x \in Range(s) <=> \E i \in 1..Len(s) : s[i] = x
  BY DEF Range

\* What follows the head of a sequence of one.
LEMMA TailOfOne ==
  ASSUME NEW S, NEW s \in Seq(S), Len(s) = 1
  PROVE  Tail(s) = <<>>
<1>1. s # <<>>
  BY EmptySeq
<1>2. Tail(s) \in Seq(S) /\ Len(Tail(s)) = 1 - 1
  BY <1>1, HeadTailProperties, Zenon
<1>3. Len(Tail(s)) \notin Nat \ {0}
  BY <1>2
<1> QED
  BY <1>2, <1>3, EmptySeq, Zenon

-----------------------------------------------------------------------------
(* Every routed event is in one place.                                     *)

\* All that was ever put into the channel of c and not lost with it, in order.
Stream(c) == written[c] \o queue[c]

\* Where an event can be: in an outbox, in a delivery of a task, in a channel or past it.
InBox(e, id, i) ==
    id \in DOMAIN outboxes /\ i \in 1..Len(outboxes[id]) /\ outboxes[id][i] = e
InParcel(e, t, j, i) ==
    /\ t \in Connections /\ j \in 1..Len(deliveries[t])
    /\ i \in 1..Len(deliveries[t][j].events) /\ deliveries[t][j].events[i] = e
InStream(e, c, i) ==
    c \in Connections /\ i \in 1..Len(Stream(c)) /\ Stream(c)[i] = e

OneBox(e) ==
    \A id1, id2, i1, i2 :
        InBox(e, id1, i1) /\ InBox(e, id2, i2) => id1 = id2 /\ i1 = i2
OneParcel(e) ==
    \A t1, t2, j1, j2, i1, i2 :
        InParcel(e, t1, j1, i1) /\ InParcel(e, t2, j2, i2) => t1 = t2 /\ j1 = j2 /\ i1 = i2
OneStream(e) ==
    \A c1, c2, i1, i2 :
        InStream(e, c1, i1) /\ InStream(e, c2, i2) => c1 = c2 /\ i1 = i2

Boxed(e) == \E id, i : InBox(e, id, i)
Parcelled(e) == \E t, j, i : InParcel(e, t, j, i)
Streamed(e) == \E c, i : InStream(e, c, i)

\* The event has at most one place: no two tasks took it, and none left it behind.
Once(e) ==
    /\ OneBox(e) /\ OneParcel(e) /\ OneStream(e)
    /\ ~(Boxed(e) /\ Parcelled(e)) /\ ~(Boxed(e) /\ Streamed(e))
    /\ ~(Parcelled(e) /\ Streamed(e))

OnceInv == \A a \in accepted : Once(a.event)

\* Events are told apart by their tags: what a task is about to route is new.
TagInv ==
    /\ \A a \in accepted : /\ a.event.type # "Error"
                           /\ a.event.tag[2] <= received[a.event.tag[1]]
    /\ \A a, b \in accepted : a.event = b.event => a.for = b.for
    /\ \A c \in Connections : \A e \in event[c] : e.tag = <<c, received[c]>>
    /\ \A c \in Connections :
         pc[c] = "route" => \A a \in accepted : a.event.tag # <<c, received[c]>>

\* A task that flushes has nothing left over from the last flush, and one that gives up a
\* delivery has closed the connection that it was for.
HandInv ==
    /\ \A c \in Connections : pc[c] \notin {"deliver", "remove"} => deliveries[c] = <<>>
    /\ \A c \in Connections : pc[c] = "remove" => close[Head(deliveries[c]).handle]

PlaceInv == MailInv /\ TagInv /\ HandInv /\ OnceInv

\* At the start nothing is anywhere.
LEMMA PlaceInvInit == Init => PlaceInv
  BY MailInvInit, ZenonT(60) DEF Init, PlaceInv, TagInv, HandInv, OnceInv

\* An event that only leaves places, or stays, still has at most one.
LEMMA OnceKept ==
  ASSUME NEW e, Once(e),
         \A id, i : InBox(e, id, i)' => InBox(e, id, i),
         \A t, j, i : InParcel(e, t, j, i)' => InParcel(e, t, j, i),
         \A c, i : InStream(e, c, i)' => InStream(e, c, i)
  PROVE  Once(e)'
<1>1. OneBox(e)' /\ OneParcel(e)' /\ OneStream(e)'
  <2>1. OneBox(e)'
    BY Zenon DEF Once, OneBox
  <2>2. OneParcel(e)'
    <3> SUFFICES ASSUME NEW t1, NEW t2, NEW j1, NEW j2, NEW i1, NEW i2,
                        InParcel(e, t1, j1, i1)', InParcel(e, t2, j2, i2)'
                 PROVE  t1 = t2 /\ j1 = j2 /\ i1 = i2
      BY SMT DEF OneParcel
    <3>1. InParcel(e, t1, j1, i1) /\ InParcel(e, t2, j2, i2)
      BY Zenon
    <3> QED
      BY <3>1, Zenon DEF Once, OneParcel
  <2>3. OneStream(e)'
    BY Zenon DEF Once, OneStream
  <2> QED
    BY <2>1, <2>2, <2>3, Zenon
<1>2. (Boxed(e)' => Boxed(e)) /\ (Parcelled(e)' => Parcelled(e)) /\ (Streamed(e)' => Streamed(e))
  BY Zenon DEF Boxed, Parcelled, Streamed
<1> QED
  BY <1>1, <1>2, Zenon DEF Once

\* The event is on its way to c: in a task's hands, in its channel or in its outbox.
Carried(e, c) == \E t, j, i : InParcel(e, t, j, i) /\ deliveries[t][j].handle = c
Queued(e, c) == \E i \in 1..Len(queue[c]) : queue[c][i] = e
Waiting(e, c) == Registered(c) /\ \E i : InBox(e, HelloId[c], i)

OnWay(e, c) == Carried(e, c) \/ Queued(e, c) \/ Waiting(e, c)

TransitAt(c) == \A e : e \in InTransit(c) <=> OnWay(e, c)

\* What is in transit to a connection, by place.
LEMMA TransitPlaces == MailInv => \A c \in Connections : TransitAt(c)
<1> SUFFICES ASSUME MailInv, NEW c \in Connections, NEW e
             PROVE  e \in InTransit(c) <=>
                      \/ \E t, j, i : InParcel(e, t, j, i) /\ deliveries[t][j].handle = c
                      \/ \E i \in 1..Len(queue[c]) : queue[c][i] = e
                      \/ Registered(c) /\ \E i : InBox(e, HelloId[c], i)
  BY Zenon DEF TransitAt, OnWay, Carried, Queued, Waiting
<1>1. e \in Taking(c) <=> \E t, j, i : InParcel(e, t, j, i) /\ deliveries[t][j].handle = c
  <2>1. ASSUME NEW t \in Connections, NEW j \in 1..Len(deliveries[t])
        PROVE  /\ deliveries[t][j] \in Range(deliveries[t])
               /\ deliveries[t][j].events \in Seq(Events)
    <3>1. deliveries[t] \in Seq(Parcels)
      BY Zenon DEF MailInv, ParcelInv
    <3>2. deliveries[t][j] \in Range(deliveries[t]) /\ deliveries[t][j] \in Parcels
      BY <3>1, PlacesOfRange, ElementsOfSeq, Zenon
    <3> QED
      BY <3>2, Zenon DEF Parcels
  <2>2. ASSUME e \in Taking(c)
        PROVE  \E t, j, i : InParcel(e, t, j, i) /\ deliveries[t][j].handle = c
    <3>1. PICK t \in Connections :
            e \in UNION {Range(d.events) : d \in {x \in Range(deliveries[t]) : x.handle = c}}
      BY <2>2, Zenon DEF Taking
    <3>2. PICK d \in Range(deliveries[t]) : d.handle = c /\ e \in Range(d.events)
      BY <3>1, Zenon
    <3>3. deliveries[t] \in Seq(Parcels)
      BY Zenon DEF MailInv, ParcelInv
    <3>4. PICK j \in 1..Len(deliveries[t]) : deliveries[t][j] = d
      BY <3>2, <3>3, PlacesOfRange, Zenon
    <3>5. d.events \in Seq(Events)
      BY <2>1, <3>4, Zenon
    <3>6. PICK i \in 1..Len(d.events) : d.events[i] = e
      BY <3>2, <3>5, PlacesOfRange, Zenon
    <3> QED
      BY <3>2, <3>4, <3>6, Zenon DEF InParcel
  <2>3. ASSUME NEW t, NEW j, NEW i, InParcel(e, t, j, i), deliveries[t][j].handle = c
        PROVE  e \in Taking(c)
    <3>1. /\ t \in Connections /\ j \in 1..Len(deliveries[t])
          /\ i \in 1..Len(deliveries[t][j].events) /\ deliveries[t][j].events[i] = e
      BY <2>3, Zenon DEF InParcel
    <3>2. e \in Range(deliveries[t][j].events)
      BY <2>1, <3>1, PlacesOfRange, Zenon
    <3>3. deliveries[t][j] \in {x \in Range(deliveries[t]) : x.handle = c}
      BY <2>1, <2>3, <3>1, Zenon
    <3> DEFINE parcels(u) == {x \in Range(deliveries[u]) : x.handle = c}
               events(u) == UNION {Range(d.events) : d \in parcels(u)}
    <3>4. e \in events(t)
      BY <3>2, <3>3, Zenon
    <3>5. Taking(c) = UNION {events(u) : u \in Connections}
      BY Zenon DEF Taking
    <3> HIDE DEF events
    <3> QED
      BY <3>1, <3>4, <3>5, Zenon
  <2> QED
    BY <2>2, <2>3, Zenon
<1>2. e \in Range(queue[c]) <=> \E i \in 1..Len(queue[c]) : queue[c][i] = e
  BY PlacesOfRange, ZenonT(60) DEF MailInv, QueueInv
<1>3. ASSUME Registered(c)
      PROVE  e \in Range(outboxes[HelloId[c]]) <=> \E i : InBox(e, HelloId[c], i)
  <2>1. HelloId[c] \in DOMAIN outboxes
    BY <1>3, HelloIdIsClient, Zenon DEF MailInv, OwnerInv, Connected
  <2>2. outboxes[HelloId[c]] \in Seq(Events)
    BY <2>1, Zenon DEF MailInv, BoxInv
  <2> QED
    BY <2>1, <2>2, PlacesOfRange, Zenon DEF InBox
<1> QED
  BY <1>1, <1>2, <1>3, Zenon DEF InTransit

\* The same after a step.
LEMMA TransitPlacesNext == (MailInv => \A c \in Connections : TransitAt(c))'
  BY TransitPlaces, PTL

-----------------------------------------------------------------------------
(* Tags are not used twice.                                                *)

\* A step that routes and receives nothing.
LEMMA TagKept ==
  ASSUME TagInv, UNCHANGED <<accepted, received>>,
         \A c \in Connections : event'[c] \subseteq event[c],
         \A c \in Connections : pc'[c] = "route" => pc[c] = "route"
  PROVE  TagInv'
  BY ZenonT(60) DEF TagInv

\* The next event of a connection has the next tag (a history of the receive loop).
LEMMA ReceivingKeepsTags ==
  ASSUME PlaceInv, NEW c \in Connections, ReceiveEvent(c)
  PROVE  TagInv'
<1>0. PICK t \in Traffic[c] : event' = [event EXCEPT ![c] =
        {[type |-> t.type, from |-> t.from, to |-> t.to, tag |-> <<c, received[c] + 1>>]}]
  BY ZenonT(60) DEF ReceiveEvent
<1>1. /\ received' = [received EXCEPT ![c] = received[c] + 1] /\ UNCHANGED accepted
      /\ pc' = [pc EXCEPT ![c] = "route"]
  BY ZenonT(60) DEF ReceiveEvent, Goto, historyVars
<1>2. /\ received \in [Connections -> 0..MaxReceived] /\ pc \in [Connections -> Labels]
      /\ event \in [Connections -> SUBSET Requests]
      /\ accepted \subseteq [event : Events, for : Connections, reachable : BOOLEAN]
  BY Zenon DEF PlaceInv, MailInv, RestInv, OwnerInv
<1>3. TagInv
  BY Zenon DEF PlaceInv
<1>4. \A a \in accepted : a.event.tag \in Tags
  BY <1>2 DEF Events
<1>5. \A d \in Connections : received[d] \in Nat /\ received'[d] \in Nat /\ received[d] <= received'[d]
  BY <1>1, <1>2, BoundIsNat
<1>6. received'[c] = received[c] + 1 /\ \A d \in Connections : d # c => received'[d] = received[d]
  BY <1>1, <1>2, Zenon
<1>7. \A a \in accepted : a.event.tag[2] <= received'[a.event.tag[1]]
  <2> SUFFICES ASSUME NEW a \in accepted PROVE a.event.tag[2] <= received'[a.event.tag[1]]
    BY Zenon
  <2>1. a.event.tag[1] \in Connections /\ a.event.tag[2] \in Nat
    BY <1>4, BoundIsNat DEF Tags
  <2>2. a.event.tag[2] <= received[a.event.tag[1]]
    BY <1>3, Zenon DEF TagInv
  <2> QED
    BY <1>5, <2>1, <2>2
<1>8. \A a \in accepted : a.event.tag # <<c, received[c] + 1>>
  <2> SUFFICES ASSUME NEW a \in accepted, a.event.tag = <<c, received[c] + 1>> PROVE FALSE
    BY Zenon
  <2>0. a.event.tag[1] = c /\ a.event.tag[2] = received[c] + 1
    OBVIOUS
  <2>1. received[c] + 1 <= received[c]
    BY <1>3, <2>0, Zenon DEF TagInv
  <2> QED
    BY <1>5, <2>1
<1>9. ASSUME NEW d \in Connections, NEW e \in event'[d] PROVE e.tag = <<d, received'[d]>>
  <2>1. CASE d = c
    <3>1. e = [type |-> t.type, from |-> t.from, to |-> t.to, tag |-> <<c, received[c] + 1>>]
      BY <1>0, <1>2, <1>9, <2>1, Zenon
    <3> QED
      BY <1>6, <2>1, <3>1, Zenon
  <2>2. CASE d # c
    <3>1. e \in event[d]
      BY <1>0, <1>2, <1>9, <2>2, Zenon
    <3> QED
      BY <1>3, <1>6, <2>2, <3>1, Zenon DEF TagInv
  <2> QED
    BY <2>1, <2>2, Zenon
<1>10. \A d \in Connections :
         pc'[d] = "route" => \A a \in accepted : a.event.tag # <<d, received'[d]>>
  BY <1>1, <1>2, <1>3, <1>6, <1>8, ZenonT(60) DEF TagInv
<1> QED
  BY <1>1, <1>3, <1>7, <1>9, <1>10, ZenonT(60) DEF TagInv

\* What a step that routes e for c does.
LEMMA RoutingFacts ==
  ASSUME PlaceInv, NEW c \in Connections, RouteAccepted(c)
  PROVE  \E e \in event[c] :
           /\ RouteEvent(HelloId[c], e) /\ accepted' = accepted \cup Addressed(c, e)
           /\ e \in Requests /\ e.tag = <<c, received[c]>> /\ e.type \in {"PeerKey", "EncryptedMessage"}
           /\ Connected(HelloId[c]) /\ Connected(e.to)
           /\ Range(AckFor(e)) \subseteq {Ack(e)}
           /\ \A a \in accepted : a.event.tag # e.tag
           /\ \A a \in Addressed(c, e) :
                \/ a.event = e /\ a.for \in Owner(e.to)
                \/ a.event = Ack(e) /\ a.for = c
<1>1. PICK e \in event[c] :
        /\ RouteError(HelloId[c], e) = {}
        /\ RouteEvent(HelloId[c], e)
        /\ accepted' = accepted \cup Addressed(c, e)
  BY Zenon DEF RouteAccepted
<1>2. /\ e \in Requests /\ e.tag = <<c, received[c]>> /\ pc[c] = "route"
      /\ \A a \in accepted : a.event.tag # e.tag
  BY Zenon DEF PlaceInv, MailInv, RestInv, TagInv, RouteAccepted
<1>3. /\ Connected(HelloId[c]) /\ Connected(e.to)
      /\ e.type \in {"PeerKey", "EncryptedMessage"}
  BY <1>1, SMT DEF RouteError
<1>4. Range(AckFor(e)) \subseteq {Ack(e)}
  BY DEF AckFor, Range
<1>5. \A a \in Addressed(c, e) :
        \/ a.event = e /\ a.for \in Owner(e.to)
        \/ a.event = Ack(e) /\ a.for = c
  <2> SUFFICES ASSUME NEW a \in Addressed(c, e)
               PROVE  \/ a.event = e /\ a.for \in Owner(e.to)
                      \/ a.event = Ack(e) /\ a.for = c
    BY Zenon
  <2> DEFINE there == connections[e.to] # {}
             here == connections[HelloId[c]] # {}
  <2>1. \/ \E r \in Owner(e.to) : a = [event |-> e, for |-> r, reachable |-> there]
        \/ \E k \in Range(AckFor(e)) : a = [event |-> k, for |-> c, reachable |-> here]
    BY Zenon DEF Addressed
  <2> HIDE DEF there, here
  <2>2. ASSUME NEW r \in Owner(e.to), a = [event |-> e, for |-> r, reachable |-> there]
        PROVE  a.event = e /\ a.for \in Owner(e.to)
    BY <2>2, Zenon
  <2>3. ASSUME NEW k \in Range(AckFor(e)), a = [event |-> k, for |-> c, reachable |-> here]
        PROVE  a.event = Ack(e) /\ a.for = c
    BY <1>4, <2>3, Zenon
  <2> QED
    BY <2>1, <2>2, <2>3, Zenon
<1> QED
  BY <1>1, <1>2, <1>3, <1>4, <1>5, Zenon

\* What is routed is new, and goes to one connection.
LEMMA RoutingKeepsTags ==
  ASSUME PlaceInv, NEW c \in Connections, RouteAccepted(c)
  PROVE  TagInv'
<1>1. PICK e \in event[c] :
        /\ accepted' = accepted \cup Addressed(c, e)
        /\ e \in Requests /\ e.tag = <<c, received[c]>> /\ e.type \in {"PeerKey", "EncryptedMessage"}
        /\ \A a \in accepted : a.event.tag # e.tag
        /\ \A a \in Addressed(c, e) :
             \/ a.event = e /\ a.for \in Owner(e.to)
             \/ a.event = Ack(e) /\ a.for = c
  BY RoutingFacts, Zenon
<1>2. /\ UNCHANGED <<received, event>> /\ pc' = [pc EXCEPT ![c] = "flush"] /\ pc[c] = "route"
      /\ pc \in [Connections -> Labels] /\ TagInv /\ received \in [Connections -> 0..MaxReceived]
  BY Zenon DEF RouteAccepted, Goto, taskVars, PlaceInv, MailInv, OwnerInv, RestInv
<1>a. Ack(e).tag = e.tag /\ Ack(e).type = "Ack"
  BY DEF Ack
<1>b. received[c] \in Nat
  BY <1>2, BoundIsNat
<1>c. e.type # "Error" /\ e.type # "Ack"
  BY <1>1, Zenon
<1>3. \A a \in Addressed(c, e) : a.event.tag = e.tag /\ a.event.type # "Error"
  BY <1>1, <1>a, <1>c, Zenon
<1>4. Ack(e) # e
  BY <1>a, <1>c, Zenon
<1>5. \A x, y \in Owner(e.to) : x = y
  <2>1. e.to \in ClientIds
    BY <1>1 DEF Requests
  <2>2. OneOwner
    BY OwnerInvSuffices, Zenon DEF PlaceInv, MailInv
  <2> QED
    BY <2>1, <2>2, Zenon DEF OneOwner
<1>6. \A a \in accepted' : a.event.type # "Error" /\ a.event.tag[2] <= received[a.event.tag[1]]
  <2>1. \A a \in Addressed(c, e) : a.event.tag[2] <= received[a.event.tag[1]]
    <3>1. e.tag[1] = c /\ e.tag[2] = received[c]
      BY <1>1
    <3>2. e.tag[2] <= received[e.tag[1]]
      BY <1>b, <3>1
    <3> QED
      BY <1>3, <3>2, Zenon
  <2> QED
    BY <1>1, <1>2, <1>3, <2>1, Zenon DEF TagInv
<1>7. \A a, b \in accepted' : a.event = b.event => a.for = b.for
  <2> SUFFICES ASSUME NEW a \in accepted', NEW b \in accepted', a.event = b.event
               PROVE  a.for = b.for
    BY Zenon
  <2>1. CASE a \in accepted
    BY <1>1, <1>2, <1>3, <2>1, Zenon DEF TagInv
  <2>2. CASE a \in Addressed(c, e)
    <3>1. b \in Addressed(c, e)
      BY <1>1, <1>3, <2>2, Zenon
    <3> QED
      BY <1>1, <1>4, <1>5, <2>2, <3>1, Zenon
  <2> QED
    BY <1>1, <2>1, <2>2, Zenon
<1>8. \A d \in Connections :
        pc'[d] = "route" => \A a \in accepted' : a.event.tag # <<d, received[d]>>
  <2> SUFFICES ASSUME NEW d \in Connections, pc'[d] = "route", NEW a \in accepted'
               PROVE  a.event.tag # <<d, received[d]>>
    BY Zenon
  <2>1. d # c /\ pc[d] = "route"
    BY <1>2, Zenon
  <2>2. e.tag # <<d, received[d]>>
    BY <1>1, <2>1
  <2> QED
    BY <1>1, <1>2, <1>3, <2>1, <2>2, Zenon DEF TagInv
<1> QED
  BY <1>2, <1>6, <1>7, <1>8, Zenon DEF TagInv

-----------------------------------------------------------------------------
(* What the tasks hold.                                                    *)

\* A step that takes nothing out of an outbox and gives no delivery up.
LEMMA HandKept ==
  ASSUME HandInv, UNCHANGED deliveries,
         \A d \in Connections : pc'[d] \in {"deliver", "remove"} <=> pc[d] \in {"deliver", "remove"},
         \A d \in Connections : pc'[d] = "remove" => pc[d] = "remove",
         \A d : close[d] => close'[d]
  PROVE  HandInv'
<1>1. \A d \in Connections : pc'[d] \notin {"deliver", "remove"} => deliveries'[d] = <<>>
  BY Zenon DEF HandInv
<1>2. \A d \in Connections : pc'[d] = "remove" => close'[Head(deliveries'[d]).handle]
  BY Zenon DEF HandInv
<1> QED
  BY <1>1, <1>2, Zenon DEF HandInv

\* The first delivery of c, while it has one.
LEMMA FirstDelivery ==
  ASSUME MailInv, NEW c \in Connections, pc[c] \in {"deliver", "remove"}
  PROVE  /\ deliveries[c] \in Seq(Parcels) /\ deliveries[c] # <<>>
         /\ Head(deliveries[c]) \in Parcels /\ Head(deliveries[c]) = deliveries[c][1]
         /\ Len(deliveries[c]) \in Nat \ {0}
         /\ Head(deliveries[c]).handle \in Connections
         /\ Head(deliveries[c]).events \in Seq(Events) /\ Head(deliveries[c]).events # <<>>
         /\ Len(Head(deliveries[c]).events) \in Nat \ {0}
<1>1. deliveries[c] \in Seq(Parcels) /\ deliveries[c] # <<>>
  BY Zenon DEF MailInv, ParcelInv
<1>2. /\ Head(deliveries[c]) \in Parcels /\ Head(deliveries[c]) = deliveries[c][1]
      /\ Len(deliveries[c]) \in Nat \ {0}
  BY <1>1
<1>3. /\ Head(deliveries[c]).handle \in Connections
      /\ Head(deliveries[c]).events \in Seq(Events) /\ Head(deliveries[c]).events # <<>>
  BY <1>2, Zenon DEF Parcels
<1>4. Len(Head(deliveries[c]).events) \in Nat \ {0}
  BY <1>3
<1> QED
  BY <1>1, <1>2, <1>3, <1>4, Zenon

\* A task that is done with its last delivery holds nothing.
LEMMA NextDeliveryKeepsHands ==
  ASSUME PlaceInv, NEW c \in Connections, pc[c] \in {"deliver", "remove"}, NextDelivery(c),
         UNCHANGED close
  PROVE  HandInv'
<1>1. /\ deliveries' = [deliveries EXCEPT ![c] = Tail(deliveries[c])]
      /\ pc' = [pc EXCEPT ![c] = IF Len(deliveries[c]) = 1 THEN "loop" ELSE "deliver"]
  BY Zenon DEF NextDelivery, Goto
<1>2. /\ pc \in [Connections -> Labels] /\ deliveries \in [Connections -> Seq(Parcels)] /\ HandInv
      /\ MailInv
  BY Zenon DEF PlaceInv, MailInv, OwnerInv, ParcelInv
<1>3. Len(deliveries[c]) = 1 => Tail(deliveries[c]) = <<>>
  <2>1. deliveries[c] \in Seq(Parcels) /\ deliveries[c] # <<>>
    BY <1>2, FirstDelivery, Zenon
  <2> QED
    BY <2>1, TailOfOne, Zenon
<1>4. pc'[c] \in {"loop", "deliver"} /\ pc'[c] # "remove"
  BY <1>1, <1>2, Zenon
<1>5. pc'[c] \notin {"deliver", "remove"} => deliveries'[c] = <<>>
  BY <1>1, <1>2, <1>3, Zenon
<1>6. \A d \in Connections : d # c => deliveries'[d] = deliveries[d] /\ pc'[d] = pc[d]
  BY <1>1, <1>2, Zenon
<1>7. \A d \in Connections : pc'[d] \notin {"deliver", "remove"} => deliveries'[d] = <<>>
  BY <1>2, <1>5, <1>6, Zenon DEF HandInv
<1>8. \A d \in Connections : pc'[d] = "remove" => close'[Head(deliveries'[d]).handle]
  BY <1>2, <1>4, <1>6, Zenon DEF HandInv
<1> QED
  BY <1>7, <1>8, Zenon DEF HandInv

\* A delivery that fails closes the connection that it was for, before it is given up.
LEMMA FailingKeepsHands ==
  ASSUME PlaceInv, NEW c \in Connections, DeliveryFails(c)
  PROVE  HandInv'
<1>1. /\ pc[c] = "deliver" /\ pc' = [pc EXCEPT ![c] = "remove"] /\ UNCHANGED deliveries
      /\ close' = [close EXCEPT ![Head(deliveries[c]).handle] = TRUE]
  BY Zenon DEF DeliveryFails, Goto, taskVars
<1>2. /\ pc \in [Connections -> Labels] /\ HandInv /\ close \in [Connections -> BOOLEAN] /\ MailInv
  BY Zenon DEF PlaceInv, MailInv, OwnerInv, RestInv
<1>3. Head(deliveries[c]).handle \in Connections
  BY <1>1, <1>2, FirstDelivery, Zenon
<1>4. close'[Head(deliveries[c]).handle]
  BY <1>1, <1>2, <1>3, Zenon
<1>5. \A d \in Connections : d # c => pc'[d] = pc[d]
  BY <1>1, <1>2, Zenon
<1>6. pc'[c] = "remove"
  BY <1>1, <1>2, Zenon
<1>7. \A d \in Connections : pc'[d] \notin {"deliver", "remove"} => deliveries'[d] = <<>>
  BY <1>1, <1>2, <1>5, <1>6, Zenon DEF HandInv
<1>8. \A d \in Connections : pc[d] = "remove" => Head(deliveries[d]).handle \in Connections
  BY <1>2, FirstDelivery, Zenon
<1>9. \A d \in Connections : close[d] => close'[d]
  BY <1>1, <1>2, Zenon
<1>10. \A d \in Connections : pc'[d] = "remove" => close'[Head(deliveries'[d]).handle]
  BY <1>1, <1>2, <1>4, <1>5, <1>8, <1>9, Zenon DEF HandInv
<1> QED
  BY <1>7, <1>10, Zenon DEF HandInv

-----------------------------------------------------------------------------
(* Streams.                                                                *)

\* The writer moves the boundary between what is written and what is queued.
LEMMA WritingKeepsStream ==
  ASSUME NEW S, NEW w \in Seq(S), NEW q \in Seq(S), q # <<>>
  PROVE  Append(w, Head(q)) \o Tail(q) = w \o q
<1>1. /\ Head(q) \in S /\ Tail(q) \in Seq(S) /\ Len(Tail(q)) = Len(q) - 1 /\ Head(q) = q[1]
      /\ \A i \in 1..Len(Tail(q)) : Tail(q)[i] = q[i + 1]
  BY HeadTailProperties
<1>2. Len(q) \in Nat \ {0} /\ Len(w) \in Nat
  BY EmptySeq, LenProperties
<1> DEFINE a == Append(w, Head(q))
<1>3. /\ a \in Seq(S) /\ Len(a) = Len(w) + 1
      /\ \A i \in 1..(Len(w) + 1) : a[i] = IF i <= Len(w) THEN w[i] ELSE q[1]
  BY <1>1, <1>2, AppendProperties
<1> HIDE DEF a
<1>4. /\ a \o Tail(q) \in Seq(S) /\ Len(a \o Tail(q)) = Len(a) + Len(Tail(q))
      /\ \A i \in 1..(Len(a) + Len(Tail(q))) :
           (a \o Tail(q))[i] = IF i <= Len(a) THEN a[i] ELSE Tail(q)[i - Len(a)]
  BY <1>1, <1>3, ConcatProperties
<1>5. /\ w \o q \in Seq(S) /\ Len(w \o q) = Len(w) + Len(q)
      /\ \A i \in 1..(Len(w) + Len(q)) : (w \o q)[i] = IF i <= Len(w) THEN w[i] ELSE q[i - Len(w)]
  BY ConcatProperties
<1>6. Len(a \o Tail(q)) = Len(w \o q)
  BY <1>1, <1>2, <1>3, <1>4, <1>5
<1>7. ASSUME NEW i \in 1..Len(a \o Tail(q)) PROVE (a \o Tail(q))[i] = (w \o q)[i]
  <2>1. i \in 1..(Len(w) + Len(q)) /\ i \in 1..(Len(a) + Len(Tail(q))) /\ i \in Int
    BY <1>2, <1>4, <1>5, <1>6
  <2>2. CASE i <= Len(w)
    BY <1>2, <1>3, <1>4, <1>5, <2>1, <2>2
  <2>3. CASE i = Len(w) + 1
    <3>1. i - Len(w) = 1 /\ i <= Len(a) /\ ~(i <= Len(w)) /\ i \in 1..(Len(w) + 1)
      BY <1>2, <1>3, <2>3
    <3>2. a[i] = q[1]
      BY <1>3, <3>1, Zenon
    <3> QED
      BY <1>4, <1>5, <2>1, <3>1, <3>2, Zenon
  <2>4. CASE i > Len(w) + 1
    <3>1. i - Len(a) \in 1..Len(Tail(q)) /\ (i - Len(a)) + 1 = i - Len(w)
      BY <1>1, <1>2, <1>3, <2>1, <2>4
    <3>2. Tail(q)[i - Len(a)] = q[i - Len(w)]
      BY <1>1, <3>1
    <3>3. ~(i <= Len(a)) /\ ~(i <= Len(w))
      BY <1>2, <1>3, <2>1, <2>4
    <3> QED
      BY <1>4, <1>5, <2>1, <3>2, <3>3, Zenon
  <2>5. i <= Len(w) \/ i = Len(w) + 1 \/ i > Len(w) + 1
    BY <1>2, <2>1
  <2> QED
    BY <2>2, <2>3, <2>4, <2>5, Zenon
<1> QED
  BY <1>4, <1>5, <1>6, <1>7, SeqEqual DEF a

\* s has what t has, and maybe x at the end.
Extends(s, t, x) ==
    \A i \in 1..Len(s) : \/ i \in 1..Len(t) /\ s[i] = t[i]
                         \/ i = Len(t) + 1 /\ s[i] = x

\* What is queued comes last.
LEMMA QueueingExtendsStream ==
  ASSUME NEW S, NEW w \in Seq(S), NEW q \in Seq(S), NEW x \in S
  PROVE  Extends(w \o Append(q, x), w \o q, x)
<1> SUFFICES ASSUME NEW i \in 1..Len(w \o Append(q, x))
             PROVE  \/ i \in 1..Len(w \o q) /\ (w \o Append(q, x))[i] = (w \o q)[i]
                    \/ i = Len(w \o q) + 1 /\ (w \o Append(q, x))[i] = x
  BY Zenon DEF Extends
<1> DEFINE a == Append(q, x)
<1>1. /\ a \in Seq(S) /\ Len(a) = Len(q) + 1
      /\ \A k \in 1..(Len(q) + 1) : a[k] = IF k <= Len(q) THEN q[k] ELSE x
  BY AppendProperties, LenProperties
<1>2. Len(q) \in Nat /\ Len(w) \in Nat
  BY LenProperties
<1> HIDE DEF a
<1>3. /\ Len(w \o a) = Len(w) + Len(a)
      /\ \A k \in 1..(Len(w) + Len(a)) : (w \o a)[k] = IF k <= Len(w) THEN w[k] ELSE a[k - Len(w)]
  BY <1>1, ConcatProperties
<1>4. /\ Len(w \o q) = Len(w) + Len(q)
      /\ \A k \in 1..(Len(w) + Len(q)) : (w \o q)[k] = IF k <= Len(w) THEN w[k] ELSE q[k - Len(w)]
  BY ConcatProperties
<1>5. i \in 1..(Len(w) + Len(a)) /\ i \in Int
  BY <1>3 DEF a
<1>6. CASE i <= Len(w)
  BY <1>1, <1>2, <1>3, <1>4, <1>5, <1>6 DEF a
<1>7. CASE i > Len(w) /\ i <= Len(w) + Len(q)
  <2>1. i - Len(w) \in 1..Len(q) /\ i - Len(w) <= Len(q) /\ i - Len(w) \in 1..(Len(q) + 1)
    BY <1>2, <1>5, <1>7
  <2>2. a[i - Len(w)] = q[i - Len(w)]
    BY <1>1, <2>1, Zenon
  <2>3. ~(i <= Len(w)) /\ i \in 1..(Len(w) + Len(q))
    BY <1>2, <1>5, <1>7
  <2> QED
    BY <1>3, <1>4, <1>5, <2>2, <2>3, Zenon DEF a
<1>8. CASE i = Len(w) + Len(q) + 1
  <2>1. i - Len(w) = Len(q) + 1 /\ ~(i <= Len(w)) /\ ~(Len(q) + 1 <= Len(q)) /\ Len(q) + 1 \in 1..(Len(q) + 1)
    BY <1>2, <1>8
  <2>2. a[i - Len(w)] = x
    BY <1>1, <2>1, Zenon
  <2> QED
    BY <1>3, <1>4, <1>5, <1>8, <2>1, <2>2, Zenon DEF a
<1> QED
  BY <1>1, <1>2, <1>5, <1>6, <1>7, <1>8

\* Losing the queue keeps what was written.
LEMMA LosingShortensStream ==
  ASSUME NEW S, NEW w \in Seq(S), NEW q \in Seq(S), NEW i \in 1..Len(w \o <<>>)
  PROVE  i \in 1..Len(w \o q) /\ (w \o <<>>)[i] = (w \o q)[i]
<1>1. w \o <<>> = w /\ Len(w) \in Nat /\ Len(q) \in Nat
  BY ConcatEmptySeq, LenProperties
<1>2. i \in 1..(Len(w) + Len(q)) /\ i <= Len(w)
  BY <1>1
<1>3. /\ Len(w \o q) = Len(w) + Len(q)
      /\ \A k \in 1..(Len(w) + Len(q)) : (w \o q)[k] = IF k <= Len(w) THEN w[k] ELSE q[k - Len(w)]
  BY ConcatProperties
<1> QED
  BY <1>1, <1>2, <1>3, Zenon

-----------------------------------------------------------------------------
(* Every step leaves an event in one place.                                *)

\* A step that routes nothing, and after which every event is where it was or nowhere.
Staying ==
    /\ UNCHANGED accepted
    /\ \A a \in accepted :
         /\ \A id, i : InBox(a.event, id, i)' => InBox(a.event, id, i)
         /\ \A t, j, i : InParcel(a.event, t, j, i)' => InParcel(a.event, t, j, i)
         /\ \A c, i : InStream(a.event, c, i)' => InStream(a.event, c, i)

\* Such a step leaves an event in one place.
LEMMA StayingKeepsPlaces == OnceInv /\ Staying => OnceInv'
<1> SUFFICES ASSUME OnceInv, Staying, NEW a \in accepted PROVE Once(a.event)'
  BY Zenon DEF OnceInv, Staying
<1>1. Once(a.event)
  BY Zenon DEF OnceInv
<1> QED
  BY <1>1, OnceKept, Zenon DEF Staying

\* A step that leaves the outboxes, the deliveries and the streams alone.
LEMMA NothingMoves ==
  ASSUME UNCHANGED <<outboxes, deliveries, accepted>>,
         \A c \in Connections : Stream(c)' = Stream(c)
  PROVE  Staying
<1>1. \A e, id, i : InBox(e, id, i)' => InBox(e, id, i)
  BY Zenon DEF InBox
<1>2. \A e, t, j, i : InParcel(e, t, j, i)' => InParcel(e, t, j, i)
  BY Zenon DEF InParcel
<1>3. \A e, c, i : InStream(e, c, i)' => InStream(e, c, i)
  BY Zenon DEF InStream
<1> QED
  BY <1>1, <1>2, <1>3, Zenon DEF Staying

\* The steps on a channel other than a delivery: an Error is nobody's event.
LEMMA ChannelStepsMoveNothing ==
  ASSUME PlaceInv, NEW c \in Connections, ReportError(c) \/ Write(c) \/ WriterEnds(c)
  PROVE  Staying
<1>1. UNCHANGED <<outboxes, deliveries, accepted>>
  BY Zenon DEF ReportError, Write, WriterEnds, taskVars, historyVars
<1>2. /\ queue \in [Connections -> Seq(Events)] /\ written \in [Connections -> Seq(Events)]
      /\ TagInv
  BY Zenon DEF PlaceInv, MailInv, QueueInv
<1>3. CASE Write(c)
  <2>1. /\ queue[c] # <<>> /\ queue' = [queue EXCEPT ![c] = Tail(queue[c])]
        /\ written' = [written EXCEPT ![c] = Append(written[c], Head(queue[c]))]
    BY <1>3, Zenon DEF Write
  <2>2. Append(written[c], Head(queue[c])) \o Tail(queue[c]) = written[c] \o queue[c]
    <3>1. written[c] \in Seq(Events) /\ queue[c] \in Seq(Events)
      BY <1>2, Zenon
    <3> QED
      BY <2>1, <3>1, WritingKeepsStream, Zenon
  <2>3. \A x \in Connections : Stream(x)' = Stream(x)
    BY <1>2, <2>1, <2>2, Zenon DEF Stream
  <2> QED
    BY <1>1, <2>3, NothingMoves, Zenon
<1>4. ASSUME \A a \in accepted : \A x, i : InStream(a.event, x, i)' => InStream(a.event, x, i)
      PROVE  Staying
  <2>1. \A e, id, i : InBox(e, id, i)' => InBox(e, id, i)
    BY <1>1, Zenon DEF InBox
  <2>2. \A e, t, j, i : InParcel(e, t, j, i)' => InParcel(e, t, j, i)
    BY <1>1, Zenon DEF InParcel
  <2> QED
    BY <1>1, <1>4, <2>1, <2>2, Zenon DEF Staying
<1>5. CASE WriterEnds(c)
  <2>1. queue' = [queue EXCEPT ![c] = <<>>] /\ UNCHANGED written
    BY <1>5, Zenon DEF WriterEnds, historyVars
  <2>2. ASSUME NEW x \in Connections, NEW i \in 1..Len(Stream(x)')
        PROVE  i \in 1..Len(Stream(x)) /\ Stream(x)'[i] = Stream(x)[i]
    <3>1. CASE x = c
      <4>1. Stream(x)' = written[x] \o <<>>
        BY <1>2, <2>1, <3>1, Zenon DEF Stream
      <4>2. written[x] \in Seq(Events) /\ queue[x] \in Seq(Events)
        BY <1>2, Zenon
      <4>3. i \in 1..Len(written[x] \o <<>>)
        BY <2>2, <4>1, Zenon
      <4>4. /\ i \in 1..Len(written[x] \o queue[x])
            /\ (written[x] \o <<>>)[i] = (written[x] \o queue[x])[i]
        BY <4>2, <4>3, LosingShortensStream, Zenon
      <4> QED
        BY <4>1, <4>4, Zenon DEF Stream
    <3>2. CASE x # c
      BY <1>2, <2>1, <2>2, <3>2, Zenon DEF Stream
    <3> QED
      BY <3>1, <3>2, Zenon
  <2>3. \A a \in accepted : \A x, i : InStream(a.event, x, i)' => InStream(a.event, x, i)
    BY <2>2, Zenon DEF InStream
  <2> QED
    BY <1>4, <2>3, Zenon
<1>6. CASE ReportError(c)
  <2>1. PICK e \in event[c] :
          queue' = IF Accepting(c)
                   THEN [queue EXCEPT ![c] = Append(@, [type |-> "Error", tag |-> e.tag])]
                   ELSE queue
    BY <1>6, ZenonT(60) DEF ReportError
  <2> DEFINE error == [type |-> "Error", tag |-> e.tag]
  <2>2. error \in Events /\ error.type = "Error" /\ UNCHANGED written
    BY <1>6 DEF PlaceInv, MailInv, RestInv, Requests, Events, ReportError, historyVars
  <2>3. \A x \in Connections :
          queue'[x] = queue[x] \/ (x = c /\ queue'[x] = Append(queue[c], error))
    BY <1>2, <2>1, Zenon
  <2> HIDE DEF error
  <2>4. ASSUME NEW x \in Connections, NEW i \in 1..Len(Stream(x)')
        PROVE  \/ i \in 1..Len(Stream(x)) /\ Stream(x)'[i] = Stream(x)[i]
               \/ Stream(x)'[i] = error
    <3>1. CASE queue'[x] = queue[x]
      BY <2>2, <2>4, <3>1, Zenon DEF Stream
    <3>2. CASE x = c /\ queue'[x] = Append(queue[c], error)
      <4>1. Stream(x)' = written[x] \o Append(queue[x], error)
        BY <2>2, <3>2, Zenon DEF Stream
      <4>2. written[x] \in Seq(Events) /\ queue[x] \in Seq(Events)
        BY <1>2, Zenon
      <4>3. Extends(Stream(x)', Stream(x), error)
        BY <2>2, <4>1, <4>2, QueueingExtendsStream, Zenon DEF Stream
      <4> QED
        BY <2>4, <4>3, Zenon DEF Extends
    <3> QED
      BY <2>3, <3>1, <3>2, Zenon
  <2>5. \A a \in accepted : a.event # error
    BY <1>2, <2>2, Zenon DEF TagInv
  <2>6. \A a \in accepted : \A x, i : InStream(a.event, x, i)' => InStream(a.event, x, i)
    BY <2>4, <2>5, Zenon DEF InStream
  <2> QED
    BY <1>4, <2>6, Zenon
<1> QED
  BY <1>3, <1>5, <1>6, Zenon

\* The steps that give an id away or take it back.
LEMMA RegistrationMovesNothing ==
  ASSUME NEW c \in Connections, Register(c) \/ Disconnect(c)
  PROVE  Staying
<1>1. UNCHANGED <<deliveries, accepted, queue, written>>
  BY Zenon DEF Register, Disconnect, taskVars, channelVars, historyVars
<1>2. ASSUME NEW e, NEW id, NEW i, InBox(e, id, i)' PROVE InBox(e, id, i)
  <2>1. CASE Register(c)
    <3>1. outboxes' = [k \in DOMAIN outboxes \cup {HelloId[c]} |->
                        IF k = HelloId[c] THEN <<>> ELSE outboxes[k]]
      BY <2>1, Zenon DEF Register, ConnectId
    <3>2. id # HelloId[c]
      <4> SUFFICES ASSUME id = HelloId[c] PROVE FALSE
        BY Zenon
      <4>1. outboxes'[id] = <<>>
        BY <3>1, Zenon
      <4>2. i \in 1..Len(<<>>)
        BY <1>2, <4>1, Zenon DEF InBox
      <4> QED
        BY <4>2
    <3> QED
      BY <1>2, <3>1, <3>2, Zenon DEF InBox
  <2>2. CASE Disconnect(c)
    BY <1>2, <2>2, Zenon DEF Disconnect, DisconnectId, Restrict, InBox
  <2> QED
    BY <2>1, <2>2, Zenon
<1>3. \A e, t, j, i : InParcel(e, t, j, i)' => InParcel(e, t, j, i)
  BY <1>1, Zenon DEF InParcel
<1>4. \A e, x, i : InStream(e, x, i)' => InStream(e, x, i)
  BY <1>1, Zenon DEF InStream, Stream
<1> QED
  BY <1>1, <1>2, <1>3, <1>4, Zenon DEF Staying

-----------------------------------------------------------------------------
(* flush_outboxes, first half: outboxes become deliveries.                 *)

\* The delivery holds what was in the outbox of its id, for the handle in the map.
Whole(d) ==
    /\ d.client_id \in DOMAIN outboxes /\ d.events = outboxes[d.client_id]
    /\ d.handle \in connections[d.client_id]

\* c has taken the deliveries, each from an outbox of its own.
Drained(c, taken) ==
    /\ taken \in Seq(Parcels)
    /\ deliveries' = [deliveries EXCEPT ![c] = taken]
    /\ pc' = [pc EXCEPT ![c] = IF taken = <<>> THEN "loop" ELSE "deliver"]
    /\ outboxes' = [id \in DOMAIN outboxes |->
                      IF \E j \in 1..Len(taken) : taken[j].client_id = id
                      THEN <<>> ELSE outboxes[id]]
    /\ \A j \in 1..Len(taken) : Whole(taken[j])
    /\ \A j, k \in 1..Len(taken) : taken[j].client_id = taken[k].client_id => j = k
    /\ \E e \in event[c] : \A j \in 1..Len(taken) :
         \/ taken[j].client_id = e.to
         \/ e.type # "PeerKey" /\ taken[j].client_id = HelloId[c]

\* What is taken for one target is its whole outbox, or nothing.
LEMMA TakenFacts ==
  ASSUME NEW id
  PROVE  \/ AsSequence(Taken(id)) = <<>>
         \/ \E d : AsSequence(Taken(id)) = <<d>> /\ Whole(d) /\ d.client_id = id
<1>1. CASE Taken(id) = {}
  BY <1>1, Zenon DEF AsSequence
<1>2. CASE Taken(id) # {}
  <2>1. PICK d \in Taken(id) : AsSequence(Taken(id)) = <<d>>
    BY <1>2, Zenon DEF AsSequence
  <2>2. Connected(id)
    BY <1>2, Zenon DEF Taken
  <2>3. PICK h \in connections[id] : d = [handle |-> h, client_id |-> id, events |-> outboxes[id]]
    BY <1>2, <2>1, Zenon DEF Taken
  <2>4. d.client_id = id /\ d.events = outboxes[id] /\ d.handle = h
    BY <2>3, Zenon
  <2>5. Whole(d)
    BY <2>2, <2>3, <2>4, Zenon DEF Whole, Connected
  <2> QED
    BY <2>1, <2>4, <2>5, Zenon
<1> QED
  BY <1>1, <1>2, Zenon

\* What a flush takes.
LEMMA DrainFacts ==
  ASSUME MailInv, NEW c \in Connections, DrainTargets(c)
  PROVE  \E taken : Drained(c, taken)
<1>1. PICK e \in event[c] :
        LET targets == DeliveryTargets(c, e)
            first == AsSequence(Taken(targets[1]))
            second == IF Len(targets) = 2 /\ targets[2] # targets[1]
                      THEN AsSequence(Taken(targets[2])) ELSE <<>>
            taken == first \o second
        IN  /\ deliveries' = [deliveries EXCEPT ![c] = taken]
            /\ DrainOutboxes({taken[i].client_id : i \in 1..Len(taken)})
            /\ Goto(c, IF taken = <<>> THEN "loop" ELSE "deliver")
  BY ZenonT(60) DEF DrainTargets
<1> DEFINE targets == DeliveryTargets(c, e)
           first == AsSequence(Taken(targets[1]))
           second == IF Len(targets) = 2 /\ targets[2] # targets[1]
                     THEN AsSequence(Taken(targets[2])) ELSE <<>>
           taken == first \o second
           ids == {taken[i].client_id : i \in 1..Len(taken)}
<1>2. /\ deliveries' = [deliveries EXCEPT ![c] = taken]
      /\ DrainOutboxes(ids)
      /\ pc' = [pc EXCEPT ![c] = IF taken = <<>> THEN "loop" ELSE "deliver"]
  BY <1>1, ZenonT(60) DEF Goto
<1>3. outboxes' = [id \in DOMAIN outboxes |->
                     IF \E j \in 1..Len(taken) : taken[j].client_id = id
                     THEN <<>> ELSE outboxes[id]]
  <2>1. \A id : id \in ids <=> \E j \in 1..Len(taken) : taken[j].client_id = id
    BY Zenon
  <2>2. outboxes' = [id \in DOMAIN outboxes |-> IF id \in ids THEN <<>> ELSE outboxes[id]]
    BY <1>2, Zenon DEF DrainOutboxes
  <2> HIDE DEF ids, taken
  <2> QED
    BY <2>1, <2>2, Zenon
<1>4. targets[1] \in ClientIds /\ (Len(targets) = 2 => targets[2] \in ClientIds)
  <2>1. e.to \in ClientIds /\ HelloId[c] \in ClientIds
    BY HelloIdIsClient DEF MailInv, RestInv, Requests
  <2> QED
    BY <2>1 DEF DeliveryTargets
<1>t. /\ targets[1] = e.to
      /\ Len(targets) = 2 => e.type # "PeerKey" /\ targets[2] = HelloId[c]
  BY DEF DeliveryTargets
<1> HIDE DEF targets
<1>5. first \in Seq(Parcels) /\ second \in Seq(Parcels)
  <2>1. first \in Seq(Parcels)
    BY <1>4, TakenIsMail
  <2>2. second \in Seq(Parcels)
    BY <1>4, TakenIsMail, SMTT(60)
  <2> QED
    BY <2>1, <2>2, Zenon
<1> DEFINE Wanted(d) == \/ d.client_id = e.to
                        \/ e.type # "PeerKey" /\ d.client_id = HelloId[c]
           Good(d) == Whole(d) /\ Wanted(d)
<1>6. first = <<>> \/ \E d : first = <<d>> /\ Good(d) /\ d.client_id = targets[1]
  BY <1>t, TakenFacts, Zenon
<1>7. second = <<>> \/ \E d : second = <<d>> /\ Good(d) /\ d.client_id # targets[1]
  <2>1. CASE Len(targets) = 2 /\ targets[2] # targets[1]
    <3>1. PICK y : y = targets[2]
      BY Zenon
    <3>2. second = AsSequence(Taken(y))
      BY <2>1, <3>1, Zenon
    <3>3. \/ AsSequence(Taken(y)) = <<>>
          \/ \E d : AsSequence(Taken(y)) = <<d>> /\ Whole(d) /\ d.client_id = y
      BY TakenFacts, Zenon
    <3>4. \A d : d.client_id = y => Wanted(d) /\ d.client_id # targets[1]
      BY <1>t, <2>1, <3>1, Zenon
    <3> QED
      BY <3>2, <3>3, <3>4, Zenon
  <2>2. CASE ~(Len(targets) = 2 /\ targets[2] # targets[1])
    BY <2>2, Zenon
  <2> QED
    BY <2>1, <2>2, Zenon
<1>8. taken \in Seq(Parcels)
  <2> HIDE DEF first, second
  <2> QED
    BY <1>5
<1>9. /\ \A j \in 1..Len(taken) : Good(taken[j])
      /\ \A j, k \in 1..Len(taken) : taken[j].client_id = taken[k].client_id => j = k
  <2> HIDE DEF first, second, Good
  <2>1. CASE first = <<>> /\ second = <<>>
    BY <2>1
  <2>2. ASSUME NEW d, taken = <<d>>, Good(d)
        PROVE  /\ \A j \in 1..Len(taken) : Good(taken[j])
               /\ \A j, k \in 1..Len(taken) : taken[j].client_id = taken[k].client_id => j = k
    <3> HIDE DEF taken
    <3>1. Len(taken) = 1 /\ taken[1] = d /\ \A j \in 1..1 : j = 1
      BY <2>2
    <3> QED
      BY <2>2, <3>1, Zenon
  <2>3. ASSUME NEW d1, NEW d2, Len(taken) = 2, taken[1] = d1, taken[2] = d2,
               Good(d1), Good(d2), d1.client_id # d2.client_id
        PROVE  /\ \A j \in 1..Len(taken) : Good(taken[j])
               /\ \A j, k \in 1..Len(taken) : taken[j].client_id = taken[k].client_id => j = k
    <3> HIDE DEF taken
    <3>1. Len(taken) = 2 /\ taken[1] = d1 /\ taken[2] = d2 /\ \A j \in 1..2 : j = 1 \/ j = 2
      BY <2>3
    <3>2. \A j \in 1..Len(taken) : Good(taken[j])
      BY <2>3, <3>1, Zenon
    <3>3. \A j, k \in 1..Len(taken) : taken[j].client_id = taken[k].client_id => j = k
      BY <2>3, <3>1, SMT
    <3> QED
      BY <3>2, <3>3, Zenon
  <2>4. CASE first = <<>> /\ second # <<>>
    <3>1. PICK d : second = <<d>> /\ Good(d)
      BY <1>7, <2>4, Zenon
    <3>2. taken = <<d>>
      BY <2>4, <3>1
    <3> QED
      BY <2>2, <3>1, <3>2, Zenon
  <2>5. CASE first # <<>> /\ second = <<>>
    <3>1. PICK d : first = <<d>> /\ Good(d)
      BY <1>6, <2>5, Zenon
    <3>2. taken = <<d>>
      BY <2>5, <3>1
    <3> QED
      BY <2>2, <3>1, <3>2, Zenon
  <2>6. CASE first # <<>> /\ second # <<>>
    <3>1. PICK d1 : first = <<d1>> /\ Good(d1) /\ d1.client_id = targets[1]
      BY <1>6, <2>6, Zenon
    <3>2. PICK d2 : second = <<d2>> /\ Good(d2) /\ d2.client_id # targets[1]
      BY <1>7, <2>6, Zenon
    <3>3. /\ Len(first) = 1 /\ first[1] = d1 /\ Len(second) = 1 /\ second[1] = d2
      BY <3>1, <3>2
    <3>4. /\ Len(taken) = Len(first) + Len(second)
          /\ \A i \in 1..(Len(first) + Len(second)) :
               taken[i] = IF i <= Len(first) THEN first[i] ELSE second[i - Len(first)]
      BY <1>5, ConcatProperties
    <3>5. Len(taken) = 2 /\ taken[1] = d1 /\ taken[2] = d2
      <4> HIDE DEF taken
      <4> QED
        BY <3>3, <3>4
    <3> QED
      BY <2>3, <3>1, <3>2, <3>5, Zenon
  <2> QED
    BY <2>1, <2>4, <2>5, <2>6, Zenon
<1> HIDE DEF taken
<1> QED
  BY <1>2, <1>3, <1>8, <1>9, Zenon DEF Drained

\* What was in an outbox is in one delivery, and the others are where they were.
LEMMA DrainingMoves ==
  ASSUME PlaceInv, NEW c \in Connections, NEW taken, pc[c] = "flush", Drained(c, taken), NEW e
  PROVE  /\ \A id, i : InBox(e, id, i)' =>
              InBox(e, id, i) /\ \A j \in 1..Len(taken) : taken[j].client_id # id
         /\ \A t, j, i : InParcel(e, t, j, i)' =>
              \/ t # c /\ InParcel(e, t, j, i)
              \/ t = c /\ j \in 1..Len(taken) /\ InBox(e, taken[j].client_id, i)
<1>1. deliveries \in [Connections -> Seq(Parcels)]
  BY Zenon DEF PlaceInv, MailInv, ParcelInv
<1>2. ASSUME NEW id, NEW i, InBox(e, id, i)'
      PROVE  InBox(e, id, i) /\ \A j \in 1..Len(taken) : taken[j].client_id # id
  <2>1. id \in DOMAIN outboxes /\ i \in 1..Len(outboxes'[id]) /\ outboxes'[id][i] = e
    BY <1>2, Zenon DEF InBox, Drained
  <2>2. outboxes'[id] # <<>>
    <3>1. ASSUME outboxes'[id] = <<>> PROVE FALSE
      <4>1. i \in 1..Len(<<>>)
        BY <2>1, <3>1, Zenon
      <4> QED
        BY <4>1
    <3> QED
      BY <3>1, Zenon
  <2>3. ~(\E j \in 1..Len(taken) : taken[j].client_id = id) /\ outboxes'[id] = outboxes[id]
    BY <2>1, <2>2, Zenon DEF Drained
  <2> QED
    BY <2>1, <2>3, Zenon DEF InBox
<1>3. ASSUME NEW t, NEW j, NEW i, InParcel(e, t, j, i)'
      PROVE  \/ t # c /\ InParcel(e, t, j, i)
             \/ t = c /\ j \in 1..Len(taken) /\ InBox(e, taken[j].client_id, i)
  <2>1. CASE t = c
    <3>1. deliveries'[t] = taken
      BY <1>1, <2>1, Zenon DEF Drained
    <3>2. j \in 1..Len(taken) /\ i \in 1..Len(taken[j].events) /\ taken[j].events[i] = e
      BY <1>3, <3>1, Zenon DEF InParcel
    <3>3. Whole(taken[j])
      BY <3>2, Zenon DEF Drained
    <3> QED
      BY <2>1, <3>2, <3>3, Zenon DEF InBox, Whole
  <2>2. CASE t # c
    <3>1. t \in Connections /\ deliveries'[t] = deliveries[t]
      BY <1>1, <1>3, <2>2, Zenon DEF Drained, InParcel
    <3> QED
      BY <1>3, <2>2, <3>1, Zenon DEF InParcel
  <2> QED
    BY <2>1, <2>2, Zenon
<1> QED
  BY <1>2, <1>3, Zenon

\* An event is taken by one task only (drain_outbox empties what it returns).
LEMMA DrainingKeepsPlaces ==
  ASSUME PlaceInv, NEW c \in Connections, DrainTargets(c)
  PROVE  OnceInv' /\ HandInv'
<1>1. PICK taken : Drained(c, taken)
  BY DrainFacts, Zenon DEF PlaceInv
<1>2. pc[c] = "flush" /\ UNCHANGED <<queue, written, accepted, close>>
  BY Zenon DEF DrainTargets, channelVars, historyVars
<1>3. /\ pc \in [Connections -> Labels] /\ deliveries \in [Connections -> Seq(Parcels)] /\ HandInv
  BY Zenon DEF PlaceInv, MailInv, OwnerInv, ParcelInv
<1>4. HandInv'
  <2>1. /\ deliveries'[c] = taken /\ pc'[c] = IF taken = <<>> THEN "loop" ELSE "deliver"
        /\ \A d \in Connections : d # c => deliveries'[d] = deliveries[d] /\ pc'[d] = pc[d]
    BY <1>1, <1>3, Zenon DEF Drained
  <2>2. \A d \in Connections : pc'[d] \notin {"deliver", "remove"} => deliveries'[d] = <<>>
    BY <1>3, <2>1, Zenon DEF HandInv
  <2>3. \A d \in Connections : pc'[d] = "remove" => close'[Head(deliveries'[d]).handle]
    BY <1>2, <1>3, <2>1, Zenon DEF HandInv
  <2> QED
    BY <2>2, <2>3, Zenon DEF HandInv
<1>5. ASSUME NEW a \in accepted PROVE Once(a.event)'
  <2> DEFINE e == a.event
  <2>1. Once(e)
    BY Zenon DEF PlaceInv, OnceInv
  <2> HIDE DEF e
  <2>2. \A id, i : InBox(e, id, i)' =>
          InBox(e, id, i) /\ \A j \in 1..Len(taken) : taken[j].client_id # id
    BY <1>1, <1>2, DrainingMoves, Zenon
  <2>3. \A t, j, i : InParcel(e, t, j, i)' =>
          \/ t # c /\ InParcel(e, t, j, i)
          \/ t = c /\ j \in 1..Len(taken) /\ InBox(e, taken[j].client_id, i)
    BY <1>1, <1>2, DrainingMoves, Zenon
  <2>4. \A x, i : InStream(e, x, i)' => InStream(e, x, i)
    BY <1>2, Zenon DEF InStream, Stream
  <2>5. OneBox(e)'
    BY <2>1, <2>2, Zenon DEF Once, OneBox
  <2>6. OneParcel(e)'
    <3> SUFFICES ASSUME NEW t1, NEW t2, NEW j1, NEW j2, NEW i1, NEW i2,
                        InParcel(e, t1, j1, i1)', InParcel(e, t2, j2, i2)'
                 PROVE  t1 = t2 /\ j1 = j2 /\ i1 = i2
      BY SMT DEF OneParcel
    <3>1. CASE Boxed(e)
      <4>1. /\ t1 = c /\ j1 \in 1..Len(taken) /\ InBox(e, taken[j1].client_id, i1)
        BY <2>1, <2>3, <3>1, Zenon DEF Once, Parcelled
      <4>2. /\ t2 = c /\ j2 \in 1..Len(taken) /\ InBox(e, taken[j2].client_id, i2)
        BY <2>1, <2>3, <3>1, Zenon DEF Once, Parcelled
      <4>3. taken[j1].client_id = taken[j2].client_id /\ i1 = i2
        BY <2>1, <4>1, <4>2, Zenon DEF Once, OneBox
      <4> QED
        BY <1>1, <4>1, <4>2, <4>3, Zenon DEF Drained
    <3>2. CASE ~Boxed(e)
      <4>1. InParcel(e, t1, j1, i1) /\ InParcel(e, t2, j2, i2)
        BY <2>3, <3>2, Zenon DEF Boxed
      <4> QED
        BY <2>1, <4>1, Zenon DEF Once, OneParcel
    <3> QED
      BY <3>1, <3>2, Zenon
  <2>7. OneStream(e)'
    BY <2>1, <2>4, Zenon DEF Once, OneStream
  <2>8. /\ Boxed(e)' => Boxed(e)
        /\ Parcelled(e)' => Parcelled(e) \/ Boxed(e)
        /\ Streamed(e)' => Streamed(e)
    BY <2>2, <2>3, <2>4, Zenon DEF Boxed, Parcelled, Streamed
  <2>9. ~(Boxed(e)' /\ Parcelled(e)')
    <3> SUFFICES ASSUME NEW id, NEW i, InBox(e, id, i)', NEW t, NEW j, NEW k, InParcel(e, t, j, k)'
                 PROVE  FALSE
      BY Zenon DEF Boxed, Parcelled
    <3>1. InBox(e, id, i) /\ \A l \in 1..Len(taken) : taken[l].client_id # id
      BY <2>2, Zenon
    <3>2. CASE InParcel(e, t, j, k)
      BY <2>1, <3>1, <3>2, Zenon DEF Once, Boxed, Parcelled
    <3>3. CASE j \in 1..Len(taken) /\ InBox(e, taken[j].client_id, k)
      <4>1. taken[j].client_id = id
        BY <2>1, <3>1, <3>3, Zenon DEF Once, OneBox
      <4> QED
        BY <3>1, <3>3, <4>1, Zenon
    <3> QED
      BY <2>3, <3>2, <3>3, Zenon
  <2> QED
    BY <2>1, <2>5, <2>6, <2>7, <2>8, <2>9, Zenon DEF Once, e
<1>6. OnceInv'
  BY <1>2, <1>5, Zenon DEF OnceInv
<1> QED
  BY <1>4, <1>6, Zenon

-----------------------------------------------------------------------------
(* flush_outboxes, second half: deliveries go into channels.               *)

\* The deliveries of c, or the events of its first one, move up by one place.
DeliveriesMoveUp(c) ==
    \A e, t, j, i : InParcel(e, t, j, i)' =>
        j \in Nat \ {0} /\ InParcel(e, t, IF t = c THEN j + 1 ELSE j, i)
EventsMoveUp(c) ==
    \A e, t, j, i : InParcel(e, t, j, i)' =>
        i \in Nat \ {0} /\ InParcel(e, t, j, IF t = c /\ j = 1 THEN i + 1 ELSE i)
MovedUp(c) == DeliveriesMoveUp(c) \/ EventsMoveUp(c)

\* Places are told apart after the move if they were before.
LEMMA PlacesMoveUp ==
  ASSUME NEW e, NEW c, OneParcel(e), MovedUp(c)
  PROVE  OneParcel(e)' /\ (Parcelled(e)' => Parcelled(e) /\ ~InParcel(e, c, 1, 1))
<1>0. \A m, n \in Nat : (m + 1 = n + 1 => m = n) /\ (m # 0 => m + 1 # 1)
  OBVIOUS
<1>1. CASE \A t, j, i : InParcel(e, t, j, i)' =>
             j \in Nat \ {0} /\ InParcel(e, t, IF t = c THEN j + 1 ELSE j, i)
  <2>1. OneParcel(e)'
    <3> SUFFICES ASSUME NEW t1, NEW t2, NEW j1, NEW j2, NEW i1, NEW i2,
                        InParcel(e, t1, j1, i1)', InParcel(e, t2, j2, i2)'
                 PROVE  t1 = t2 /\ j1 = j2 /\ i1 = i2
      BY SMT DEF OneParcel
    <3> DEFINE k1 == IF t1 = c THEN j1 + 1 ELSE j1
               k2 == IF t2 = c THEN j2 + 1 ELSE j2
    <3>1. /\ j1 \in Nat \ {0} /\ InParcel(e, t1, k1, i1)
          /\ j2 \in Nat \ {0} /\ InParcel(e, t2, k2, i2)
      BY <1>1, Zenon
    <3> HIDE DEF k1, k2
    <3>2. t1 = t2 /\ i1 = i2 /\ k1 = k2
      BY <3>1, Zenon DEF OneParcel
    <3> QED
      BY <1>0, <3>1, <3>2, Zenon DEF k1, k2
  <2>2. ASSUME NEW t, NEW j, NEW i, InParcel(e, t, j, i)'
        PROVE  Parcelled(e) /\ ~InParcel(e, c, 1, 1)
    <3> DEFINE k == IF t = c THEN j + 1 ELSE j
    <3>1. j \in Nat \ {0} /\ InParcel(e, t, k, i)
      BY <1>1, <2>2, Zenon
    <3> HIDE DEF k
    <3>2. ASSUME InParcel(e, c, 1, 1) PROVE FALSE
      <4>1. t = c /\ k = 1
        BY <3>1, <3>2, SMT DEF OneParcel
      <4> QED
        BY <1>0, <3>1, <4>1, Zenon DEF k
    <3> QED
      BY <3>1, <3>2, Zenon DEF Parcelled
  <2> QED
    BY <2>1, <2>2, Zenon DEF Parcelled
<1>2. CASE \A t, j, i : InParcel(e, t, j, i)' =>
             i \in Nat \ {0} /\ InParcel(e, t, j, IF t = c /\ j = 1 THEN i + 1 ELSE i)
  <2>1. OneParcel(e)'
    <3> SUFFICES ASSUME NEW t1, NEW t2, NEW j1, NEW j2, NEW i1, NEW i2,
                        InParcel(e, t1, j1, i1)', InParcel(e, t2, j2, i2)'
                 PROVE  t1 = t2 /\ j1 = j2 /\ i1 = i2
      BY SMT DEF OneParcel
    <3> DEFINE k1 == IF t1 = c /\ j1 = 1 THEN i1 + 1 ELSE i1
               k2 == IF t2 = c /\ j2 = 1 THEN i2 + 1 ELSE i2
    <3>1. /\ i1 \in Nat \ {0} /\ InParcel(e, t1, j1, k1)
          /\ i2 \in Nat \ {0} /\ InParcel(e, t2, j2, k2)
      BY <1>2, Zenon
    <3> HIDE DEF k1, k2
    <3>2. t1 = t2 /\ j1 = j2 /\ k1 = k2
      BY <3>1, Zenon DEF OneParcel
    <3> QED
      BY <1>0, <3>1, <3>2, Zenon DEF k1, k2
  <2>2. ASSUME NEW t, NEW j, NEW i, InParcel(e, t, j, i)'
        PROVE  Parcelled(e) /\ ~InParcel(e, c, 1, 1)
    <3> DEFINE k == IF t = c /\ j = 1 THEN i + 1 ELSE i
    <3>1. i \in Nat \ {0} /\ InParcel(e, t, j, k)
      BY <1>2, <2>2, Zenon
    <3> HIDE DEF k
    <3>2. ASSUME InParcel(e, c, 1, 1) PROVE FALSE
      <4>1. t = c /\ j = 1 /\ k = 1
        BY <3>1, <3>2, Zenon DEF OneParcel
      <4> QED
        BY <1>0, <3>1, <4>1, Zenon DEF k
    <3> QED
      BY <3>1, <3>2, Zenon DEF Parcelled
  <2> QED
    BY <2>1, <2>2, Zenon DEF Parcelled
<1> QED
  BY <1>1, <1>2, Zenon DEF MovedUp, DeliveriesMoveUp, EventsMoveUp

\* Dropping the first delivery moves the others up.
LEMMA NextDeliveryMoves ==
  ASSUME PlaceInv, NEW c \in Connections, pc[c] \in {"deliver", "remove"}, NextDelivery(c)
  PROVE  DeliveriesMoveUp(c)
<1>1. /\ deliveries \in [Connections -> Seq(Parcels)]
      /\ deliveries' = [deliveries EXCEPT ![c] = Tail(deliveries[c])]
  BY Zenon DEF PlaceInv, MailInv, ParcelInv, NextDelivery
<1>2. deliveries[c] \in Seq(Parcels) /\ deliveries[c] # <<>> /\ Len(deliveries[c]) \in Nat \ {0}
  BY FirstDelivery, Zenon DEF PlaceInv
<1>3. /\ Len(Tail(deliveries[c])) = Len(deliveries[c]) - 1
      /\ \A j \in 1..Len(Tail(deliveries[c])) : Tail(deliveries[c])[j] = deliveries[c][j + 1]
  BY <1>2, HeadTailProperties
<1>4. ASSUME NEW e, NEW t, NEW j, NEW i, InParcel(e, t, j, i)'
      PROVE  j \in Nat \ {0} /\ InParcel(e, t, IF t = c THEN j + 1 ELSE j, i)
  <2>1. /\ t \in Connections /\ j \in 1..Len(deliveries'[t])
        /\ i \in 1..Len(deliveries'[t][j].events) /\ deliveries'[t][j].events[i] = e
    BY <1>4, Zenon DEF InParcel
  <2>2. CASE t = c
    <3>1. deliveries'[t] = Tail(deliveries[c])
      BY <1>1, <2>2, Zenon
    <3>2. j \in Nat \ {0} /\ j + 1 \in 1..Len(deliveries[c]) /\ deliveries'[t][j] = deliveries[c][j + 1]
      BY <1>2, <1>3, <2>1, <3>1
    <3> QED
      BY <2>1, <2>2, <3>2, Zenon DEF InParcel
  <2>3. CASE t # c
    <3>1. deliveries'[t] = deliveries[t]
      BY <1>1, <2>1, <2>3, Zenon
    <3>2. j \in Nat \ {0}
      BY <2>1
    <3> QED
      BY <2>1, <2>3, <3>1, <3>2, Zenon DEF InParcel
  <2> QED
    BY <2>2, <2>3, Zenon
<1> QED
  BY <1>4, Zenon DEF DeliveriesMoveUp

\* What try_send does: the first event of the first delivery goes to the end of the stream
\* of the connection it is for, and what follows it moves up.
LEMMA DeliveringMoves ==
  ASSUME PlaceInv, NEW c \in Connections, DeliverEvent(c)
  PROVE  \E h \in Connections, x \in Events :
           /\ h = deliveries[c][1].handle /\ InParcel(x, c, 1, 1)
           /\ queue' = [queue EXCEPT ![h] = Append(queue[h], x)]
           /\ \A y \in Connections : IF y = h THEN Extends(Stream(y)', Stream(y), x)
                                              ELSE Stream(y)' = Stream(y)
           /\ MovedUp(c)
<1> DEFINE d == Head(deliveries[c])
           x == Head(d.events)
           h == d.handle
<1>1. /\ pc[c] = "deliver" /\ UNCHANGED written
      /\ queue' = [queue EXCEPT ![h] = Append(queue[h], x)]
  BY Zenon DEF DeliverEvent, historyVars
<1>2. \/ Len(d.events) = 1 /\ NextDelivery(c)
      \/ Len(d.events) # 1 /\ deliveries' = [deliveries EXCEPT ![c][1].events = Tail(@)]
  BY Zenon DEF DeliverEvent
<1>3. /\ deliveries[c] \in Seq(Parcels) /\ Len(deliveries[c]) \in Nat \ {0}
      /\ d = deliveries[c][1] /\ h \in Connections /\ d.events \in Seq(Events) /\ d.events # <<>>
      /\ Len(d.events) \in Nat \ {0} /\ d \in Parcels
  BY <1>1, FirstDelivery, Zenon DEF PlaceInv
<1>4. /\ deliveries \in [Connections -> Seq(Parcels)] /\ queue \in [Connections -> Seq(Events)]
      /\ written \in [Connections -> Seq(Events)]
  BY Zenon DEF PlaceInv, MailInv, ParcelInv, QueueInv
<1> HIDE DEF d
<1>5. /\ x \in Events /\ x = d.events[1] /\ Tail(d.events) \in Seq(Events)
      /\ Len(Tail(d.events)) = Len(d.events) - 1
      /\ \A i \in 1..Len(Tail(d.events)) : Tail(d.events)[i] = d.events[i + 1]
  BY <1>3, HeadTailProperties
<1>6. InParcel(x, c, 1, 1)
  <2>1. 1 \in 1..Len(deliveries[c]) /\ 1 \in 1..Len(d.events)
    BY <1>3
  <2> QED
    BY <1>3, <1>5, <2>1, Zenon DEF InParcel
<1> HIDE DEF x, h
<1>7. ASSUME NEW y \in Connections
      PROVE  IF y = h THEN Extends(Stream(y)', Stream(y), x) ELSE Stream(y)' = Stream(y)
  <2>1. written[y] \in Seq(Events) /\ queue[y] \in Seq(Events)
    BY <1>4, Zenon
  <2>2. CASE y = h
    <3>1. Stream(y)' = written[y] \o Append(queue[y], x)
      BY <1>1, <1>4, <2>2, Zenon DEF Stream
    <3> QED
      BY <1>5, <2>1, <2>2, <3>1, QueueingExtendsStream, Zenon DEF Stream
  <2>3. CASE y # h
    BY <1>1, <1>4, <2>3, Zenon DEF Stream
  <2> QED
    BY <2>2, <2>3, Zenon
<1>8. MovedUp(c)
  <2>1. CASE NextDelivery(c)
    BY <1>1, <2>1, NextDeliveryMoves, Zenon DEF MovedUp
  <2>2. CASE deliveries' = [deliveries EXCEPT ![c][1].events = Tail(@)]
    <3> DEFINE rest == [d EXCEPT !.events = Tail(d.events)]
    <3>1. 1 \in 1..Len(deliveries[c]) /\ DOMAIN deliveries[c] = 1..Len(deliveries[c])
      BY <1>3
    <3>2. deliveries' = [deliveries EXCEPT ![c] = [deliveries[c] EXCEPT ![1] = rest]]
      BY <1>3, <1>4, <2>2, <3>1, Zenon
    <3>3. rest.events = Tail(d.events)
      <4>1. d \in [handle : Connections, client_id : ClientIds, events : Seq(Events)]
        BY <1>3, Zenon DEF Parcels
      <4> QED
        BY <4>1, Zenon
    <3> HIDE DEF rest
    <3>4. deliveries'[c] = [deliveries[c] EXCEPT ![1] = rest]
      BY <1>4, <3>2, Zenon
    <3>5. /\ Len(deliveries'[c]) = Len(deliveries[c]) /\ deliveries'[c][1] = rest
          /\ \A j \in 1..Len(deliveries[c]) : j # 1 => deliveries'[c][j] = deliveries[c][j]
      BY <1>3, <3>1, <3>4
    <3>6. ASSUME NEW e, NEW t, NEW j, NEW i, InParcel(e, t, j, i)'
          PROVE  i \in Nat \ {0} /\ InParcel(e, t, j, IF t = c /\ j = 1 THEN i + 1 ELSE i)
      <4>1. /\ t \in Connections /\ j \in 1..Len(deliveries'[t])
            /\ i \in 1..Len(deliveries'[t][j].events) /\ deliveries'[t][j].events[i] = e
        BY <3>6, Zenon DEF InParcel
      <4>2. i \in Nat \ {0}
        BY <4>1
      <4>3. CASE t = c /\ j = 1
        <5>1. i \in 1..Len(Tail(d.events)) /\ Tail(d.events)[i] = e
          BY <3>3, <3>5, <4>1, <4>3, Zenon
        <5>2. i + 1 \in 1..Len(d.events) /\ d.events[i + 1] = e
          BY <1>3, <1>5, <5>1, SMTT(30)
        <5>3. InParcel(e, t, j, i + 1)
          BY <1>3, <3>1, <4>3, <5>2, Zenon DEF InParcel
        <5> QED
          BY <4>2, <4>3, <5>3, Zenon
      <4>4. CASE t = c /\ j # 1
        <5>1. InParcel(e, t, j, i)
          BY <3>5, <4>1, <4>4, Zenon DEF InParcel
        <5> QED
          BY <4>2, <4>4, <5>1, Zenon
      <4>5. CASE t # c
        <5>1. deliveries'[t] = deliveries[t]
          BY <1>4, <3>2, <4>1, <4>5, Zenon
        <5>2. InParcel(e, t, j, i)
          BY <4>1, <5>1, Zenon DEF InParcel
        <5> QED
          BY <4>2, <4>5, <5>2, Zenon
      <4> QED
        BY <4>3, <4>4, <4>5, Zenon
    <3> QED
      BY <3>6, Zenon DEF MovedUp, EventsMoveUp
  <2> QED
    BY <1>2, <2>1, <2>2, Zenon
<1>9. h = deliveries[c][1].handle
  BY <1>3, Zenon DEF h
<1> QED
  BY <1>1, <1>3, <1>5, <1>6, <1>7, <1>8, <1>9, Zenon

\* A delivery that is given up takes its events with it.
LEMMA RemovingKeepsPlaces ==
  ASSUME PlaceInv, NEW c \in Connections, RemoveHandle(c)
  PROVE  OnceInv'
<1>1. /\ pc[c] = "remove" /\ NextDelivery(c) /\ UNCHANGED <<outboxes, queue, written, accepted>>
  BY Zenon DEF RemoveHandle, channelVars, historyVars
<1> SUFFICES ASSUME NEW a \in accepted PROVE Once(a.event)'
  BY <1>1, Zenon DEF OnceInv
<1> DEFINE e == a.event
<1>2. Once(e)
  BY Zenon DEF PlaceInv, OnceInv
<1> HIDE DEF e
<1>3. MovedUp(c)
  BY <1>1, NextDeliveryMoves, Zenon DEF MovedUp
<1>4. OneParcel(e)' /\ (Parcelled(e)' => Parcelled(e))
  BY <1>2, <1>3, PlacesMoveUp, Zenon DEF Once
<1>5. OneBox(e)' /\ (Boxed(e)' => Boxed(e))
  BY <1>1, <1>2, Zenon DEF Once, OneBox, Boxed, InBox
<1>6. OneStream(e)' /\ (Streamed(e)' => Streamed(e))
  <2>1. \A y, i : InStream(e, y, i)' <=> InStream(e, y, i)
    BY <1>1, Zenon DEF InStream, Stream
  <2> QED
    BY <1>2, <2>1, Zenon DEF Once, OneStream, Streamed
<1> QED
  BY <1>2, <1>4, <1>5, <1>6, Zenon DEF Once, e

\* An event goes into one channel, and is no longer in the delivery.
LEMMA DeliveringKeepsPlaces ==
  ASSUME PlaceInv, NEW c \in Connections, DeliverEvent(c)
  PROVE  OnceInv'
<1>1. PICK h \in Connections, x \in Events :
        /\ InParcel(x, c, 1, 1)
        /\ \A y \in Connections : IF y = h THEN Extends(Stream(y)', Stream(y), x)
                                           ELSE Stream(y)' = Stream(y)
        /\ MovedUp(c)
  BY DeliveringMoves, ZenonT(60)
<1>2. UNCHANGED <<outboxes, accepted>>
  BY Zenon DEF DeliverEvent, historyVars
<1> SUFFICES ASSUME NEW a \in accepted PROVE Once(a.event)'
  BY <1>2, Zenon DEF OnceInv
<1> DEFINE e == a.event
<1>3. Once(e)
  BY Zenon DEF PlaceInv, OnceInv
<1> HIDE DEF e
<1>4. OneParcel(e)' /\ (Parcelled(e)' => Parcelled(e) /\ ~InParcel(e, c, 1, 1))
  BY <1>1, <1>3, PlacesMoveUp, Zenon DEF Once
<1>5. OneBox(e)' /\ (Boxed(e)' => Boxed(e))
  BY <1>2, <1>3, Zenon DEF Once, OneBox, Boxed, InBox
<1>6. ASSUME NEW y, NEW i, InStream(e, y, i)'
      PROVE  InStream(e, y, i) \/ (e = x /\ y = h /\ i = Len(Stream(h)) + 1)
  <2>1. y \in Connections /\ i \in 1..Len(Stream(y)') /\ Stream(y)'[i] = e
    BY <1>6, Zenon DEF InStream
  <2>2. CASE y = h
    BY <1>1, <2>1, <2>2, Zenon DEF Extends, InStream
  <2>3. CASE y # h
    BY <1>1, <2>1, <2>3, Zenon DEF InStream
  <2> QED
    BY <2>2, <2>3, Zenon
<1>7. CASE e # x
  <2>1. OneStream(e)' /\ (Streamed(e)' => Streamed(e))
    BY <1>3, <1>6, <1>7, Zenon DEF Once, OneStream, Streamed
  <2> QED
    BY <1>3, <1>4, <1>5, <2>1, Zenon DEF Once, e
<1>8. CASE e = x
  <2>1. Parcelled(e) /\ ~Boxed(e) /\ ~Streamed(e)
    BY <1>1, <1>3, <1>8, Zenon DEF Once, Parcelled
  <2>2. ~Parcelled(e)' /\ ~Boxed(e)'
    BY <1>1, <1>4, <1>5, <1>8, <2>1, Zenon
  <2>3. ASSUME NEW y, NEW i, InStream(e, y, i)' PROVE y = h /\ i = Len(Stream(h)) + 1
    <3>1. ~InStream(e, y, i)
      BY <2>1, Zenon DEF Streamed
    <3> QED
      BY <1>6, <2>3, <3>1, SMT
  <2>4. OneStream(e)'
    <3> SUFFICES ASSUME NEW y1, NEW y2, NEW i1, NEW i2,
                        InStream(e, y1, i1)', InStream(e, y2, i2)'
                 PROVE  y1 = y2 /\ i1 = i2
      BY Zenon DEF OneStream
    <3>1. y1 = h /\ i1 = Len(Stream(h)) + 1
      BY <2>3, Zenon
    <3>2. y2 = h /\ i2 = Len(Stream(h)) + 1
      BY <2>3, Zenon
    <3> QED
      BY <3>1, <3>2, Zenon
  <2> QED
    BY <1>4, <1>5, <2>2, <2>4, Zenon DEF Once, e
<1> QED
  BY <1>7, <1>8, Zenon

-----------------------------------------------------------------------------
(* route: an event and its Ack get into outboxes.                          *)

\* s is t with x at the end.
Grown(s, t, x) ==
    /\ Extends(s, t, x)
    /\ \A i \in 1..Len(t) : i \in 1..Len(s) /\ s[i] = t[i]
    /\ \E i \in 1..Len(s) : s[i] = x

\* push_back.
LEMMA AppendGrows ==
  ASSUME NEW S, NEW t \in Seq(S), NEW x \in S
  PROVE  Grown(Append(t, x), t, x)
<1> DEFINE s == Append(t, x)
<1>1. /\ Len(s) = Len(t) + 1 /\ s[Len(t) + 1] = x /\ \A i \in 1..Len(t) : s[i] = t[i]
  BY AppendProperties
<1>2. Len(t) \in Nat
  BY LenProperties
<1> HIDE DEF s
<1>3. Extends(s, t, x)
  <2> SUFFICES ASSUME NEW i \in 1..Len(s)
               PROVE  \/ i \in 1..Len(t) /\ s[i] = t[i]
                      \/ i = Len(t) + 1 /\ s[i] = x
    BY Zenon DEF Extends
  <2>1. i \in 1..Len(t) \/ i = Len(t) + 1
    BY <1>1, <1>2
  <2> QED
    BY <1>1, <2>1, Zenon
<1>4. \A i \in 1..Len(t) : i \in 1..Len(s) /\ s[i] = t[i]
  BY <1>1, <1>2
<1>5. Len(t) + 1 \in 1..Len(s)
  BY <1>1, <1>2
<1> QED
  BY <1>1, <1>3, <1>4, <1>5, Zenon DEF Grown, s

\* Event e is pushed into the recipient's outbox, and its Ack into that of c.
BoxesGrow(c, e, n, m) ==
    /\ \A y, id, i : InBox(y, id, i)' =>
         \/ InBox(y, id, i)
         \/ y = e /\ id = e.to /\ i = n
         \/ y = Ack(e) /\ id = HelloId[c] /\ i = m /\ e.type = "EncryptedMessage"
    /\ \A y, id, i : InBox(y, id, i) => InBox(y, id, i)'
    /\ \A y, i : InBox(y, e.to, i) => ~(n < i)
    /\ \E i : InBox(e, e.to, i)'
    /\ e.type = "EncryptedMessage" => \E i : InBox(Ack(e), HelloId[c], i)'

\* Where the outboxes grow.
LEMMA RoutingMoves ==
  ASSUME MailInv, NEW c \in Connections, NEW e \in Requests, RouteEvent(HelloId[c], e),
         Connected(HelloId[c]), Connected(e.to)
  PROVE  \E n, m : BoxesGrow(c, e, n, m)
<1> DEFINE pushed == [outboxes EXCEPT ![e.to] = Append(outboxes[e.to], e)]
           InMid(y, id, i) == /\ id \in DOMAIN outboxes /\ i \in 1..Len(pushed[id])
                              /\ pushed[id][i] = y
           n == Len(outboxes[e.to]) + 1
           m == Len(pushed[HelloId[c]]) + 1
<1>1. /\ outboxes \in [DOMAIN outboxes -> Seq(Events)]
      /\ e.to \in DOMAIN outboxes /\ HelloId[c] \in DOMAIN outboxes /\ e \in Events
  BY RequestsAreEvents, Zenon DEF MailInv, BoxInv, Connected
<1>2. Ack(e) \in Events
  BY DEF Ack, Requests, Events
<1>3. outboxes' = [pushed EXCEPT ![HelloId[c]] = pushed[HelloId[c]] \o AckFor(e)]
  BY Zenon DEF RouteEvent
<1>4. pushed \in [DOMAIN outboxes -> Seq(Events)]
  BY <1>1, AppendProperties
<1>5. \A y, id, i : InMid(y, id, i) => InBox(y, id, i) \/ (y = e /\ id = e.to /\ i = n)
  <2> SUFFICES ASSUME NEW y, NEW id, NEW i, InMid(y, id, i)
               PROVE  InBox(y, id, i) \/ (y = e /\ id = e.to /\ i = n)
    BY Zenon
  <2>1. CASE id = e.to
    <3>1. pushed[id] = Append(outboxes[id], e) /\ outboxes[id] \in Seq(Events)
      BY <1>1, <2>1, Zenon
    <3>2. Grown(pushed[id], outboxes[id], e)
      <4> HIDE DEF pushed
      <4> QED
        BY <1>1, <3>1, AppendGrows, Zenon
    <3> HIDE DEF pushed
    <3> QED
      BY <1>1, <2>1, <3>2, Zenon DEF Grown, Extends, InBox
  <2>2. CASE id # e.to
    BY <1>1, <2>2, Zenon DEF InBox
  <2> QED
    BY <2>1, <2>2, Zenon
<1>6. \A y, id, i : InBox(y, id, i) => InMid(y, id, i)
  <2> SUFFICES ASSUME NEW y, NEW id, NEW i, InBox(y, id, i)
               PROVE  InMid(y, id, i)
    BY Zenon
  <2>1. CASE id = e.to
    <3>1. pushed[id] = Append(outboxes[id], e) /\ outboxes[id] \in Seq(Events)
      BY <1>1, <2>1, Zenon
    <3>2. Grown(pushed[id], outboxes[id], e)
      <4> HIDE DEF pushed
      <4> QED
        BY <1>1, <3>1, AppendGrows, Zenon
    <3> HIDE DEF pushed
    <3> QED
      BY <1>1, <2>1, <3>2, Zenon DEF Grown, InBox
  <2>2. CASE id # e.to
    BY <1>1, <2>2, Zenon DEF InBox
  <2> QED
    BY <2>1, <2>2, Zenon
<1>7. \E i : InMid(e, e.to, i)
  <2>1. pushed[e.to] = Append(outboxes[e.to], e) /\ outboxes[e.to] \in Seq(Events)
    BY <1>1, Zenon
  <2> HIDE DEF pushed
  <2>2. Grown(pushed[e.to], outboxes[e.to], e)
    BY <1>1, <2>1, AppendGrows, Zenon
  <2> QED
    BY <1>1, <2>2, Zenon DEF Grown
<1> HIDE DEF pushed
<1>f. \A y, i : InBox(y, e.to, i) => ~(n < i)
  <2>1. Len(outboxes[e.to]) \in Nat
    BY <1>1, LenProperties
  <2>2. \A i \in 1..Len(outboxes[e.to]) : ~(Len(outboxes[e.to]) + 1 < i)
    BY <2>1
  <2> QED
    BY <2>2, Zenon DEF InBox
<1>8. /\ DOMAIN outboxes' = DOMAIN outboxes
      /\ \A id \in DOMAIN outboxes : id # HelloId[c] => outboxes'[id] = pushed[id]
      /\ outboxes'[HelloId[c]] = pushed[HelloId[c]] \o AckFor(e)
      /\ pushed[HelloId[c]] \in Seq(Events)
  BY <1>1, <1>3, <1>4, Zenon
<1>9. CASE e.type = "EncryptedMessage"
  <2>1. outboxes'[HelloId[c]] = Append(pushed[HelloId[c]], Ack(e))
    <3>1. AckFor(e) = <<Ack(e)>>
      BY <1>9, Zenon DEF AckFor
    <3> QED
      BY <1>2, <1>8, <3>1, AppendIsConcat, SMTT(30)
  <2>2. Grown(outboxes'[HelloId[c]], pushed[HelloId[c]], Ack(e))
    BY <1>2, <1>8, <2>1, AppendGrows, Zenon
  <2>3. \A y, id, i : InBox(y, id, i)' =>
          InMid(y, id, i) \/ (y = Ack(e) /\ id = HelloId[c] /\ i = m)
    <3> SUFFICES ASSUME NEW y, NEW id, NEW i, InBox(y, id, i)'
                 PROVE  InMid(y, id, i) \/ (y = Ack(e) /\ id = HelloId[c] /\ i = m)
      BY Zenon
    <3>1. CASE id = HelloId[c]
      BY <1>1, <2>2, <3>1, Zenon DEF Grown, Extends, InBox
    <3>2. CASE id # HelloId[c]
      BY <1>8, <3>2, Zenon DEF InBox
    <3> QED
      BY <3>1, <3>2, Zenon
  <2>4. \A y, id, i : InMid(y, id, i) => InBox(y, id, i)'
    <3> SUFFICES ASSUME NEW y, NEW id, NEW i, InMid(y, id, i)
                 PROVE  InBox(y, id, i)'
      BY Zenon
    <3>1. CASE id = HelloId[c]
      BY <1>8, <2>2, <3>1, Zenon DEF Grown, InBox
    <3>2. CASE id # HelloId[c]
      BY <1>8, <3>2, Zenon DEF InBox
    <3> QED
      BY <3>1, <3>2, Zenon
  <2>5. \E i : InBox(Ack(e), HelloId[c], i)'
    BY <1>1, <1>8, <2>2, Zenon DEF Grown, InBox
  <2> HIDE DEF InMid, n, m
  <2>6. \A y, id, i : InBox(y, id, i)' =>
          \/ InBox(y, id, i)
          \/ y = e /\ id = e.to /\ i = n
          \/ y = Ack(e) /\ id = HelloId[c] /\ i = m /\ e.type = "EncryptedMessage"
    <3> SUFFICES ASSUME NEW y, NEW id, NEW i, InBox(y, id, i)'
                 PROVE  \/ InBox(y, id, i)
                        \/ y = e /\ id = e.to /\ i = n
                        \/ /\ y = Ack(e) /\ id = HelloId[c] /\ i = m
                           /\ e.type = "EncryptedMessage"
      BY Zenon
    <3>1. InMid(y, id, i) \/ (y = Ack(e) /\ id = HelloId[c] /\ i = m)
      BY <2>3, Zenon
    <3> QED
      BY <1>5, <1>9, <3>1, Zenon
  <2>7. \A y, id, i : InBox(y, id, i) => InBox(y, id, i)'
    BY <1>6, <2>4, Zenon
  <2>8. \E i : InBox(e, e.to, i)'
    BY <1>7, <2>4, Zenon
  <2>9. BoxesGrow(c, e, n, m)
    BY <1>f, <2>5, <2>6, <2>7, <2>8, Zenon DEF BoxesGrow
  <2> QED
    BY <2>9, Zenon
<1>10. CASE e.type # "EncryptedMessage"
  <2>1. outboxes'[HelloId[c]] = pushed[HelloId[c]]
    <3>1. AckFor(e) = <<>>
      BY <1>10, Zenon DEF AckFor
    <3> QED
      BY <1>8, <3>1, ConcatEmptySeq
  <2>2. \A y, id, i : InBox(y, id, i)' <=> InMid(y, id, i)
    BY <1>8, <2>1, Zenon DEF InBox
  <2> HIDE DEF InMid, n, m
  <2>3. \A y, id, i : InBox(y, id, i)' =>
          \/ InBox(y, id, i)
          \/ y = e /\ id = e.to /\ i = n
          \/ y = Ack(e) /\ id = HelloId[c] /\ i = m /\ e.type = "EncryptedMessage"
    BY <1>5, <2>2, Zenon
  <2>4. \A y, id, i : InBox(y, id, i) => InBox(y, id, i)'
    BY <1>6, <2>2, Zenon
  <2>5. \E i : InBox(e, e.to, i)'
    BY <1>7, <2>2, Zenon
  <2>6. BoxesGrow(c, e, n, m)
    BY <1>10, <1>f, <2>3, <2>4, <2>5, Zenon DEF BoxesGrow
  <2> QED
    BY <2>6, Zenon
<1> QED
  BY <1>9, <1>10, Zenon

\* What was never routed, and is no Error, is nowhere.
LEMMA NewIsNowhere ==
  ASSUME MailInv, NEW y, y.type # "Error", \A a \in accepted : a.event # y
  PROVE  ~Boxed(y) /\ ~Parcelled(y) /\ ~Streamed(y)
<1>1. \A d : y \notin Mail(d)
  BY Zenon DEF Mail
<1>2. ASSUME NEW id, NEW i, InBox(y, id, i) PROVE FALSE
  <2>1. id \in DOMAIN outboxes /\ i \in 1..Len(outboxes[id]) /\ outboxes[id][i] = y
    BY <1>2, Zenon DEF InBox
  <2>2. PICK d \in Connections : Registered(d) /\ HelloId[d] = id
    BY <2>1, Zenon DEF MailInv, BoxInv, OwnerInv, Connected
  <2>3. outboxes[id] \in Seq(Mail(d))
    BY <2>2, Zenon DEF MailInv, BoxInv
  <2>4. y \in Range(outboxes[id])
    BY <2>1, <2>3, PlacesOfRange, Zenon
  <2> QED
    BY <1>1, <2>3, <2>4, ElementsOfSeq, Zenon
<1>3. ASSUME NEW t, NEW j, NEW i, InParcel(y, t, j, i) PROVE FALSE
  <2>1. /\ t \in Connections /\ j \in 1..Len(deliveries[t])
        /\ i \in 1..Len(deliveries[t][j].events) /\ deliveries[t][j].events[i] = y
    BY <1>3, Zenon DEF InParcel
  <2> DEFINE d == deliveries[t][j]
  <2>2. d \in Parcels
    <3>1. deliveries[t] \in Seq(Parcels)
      BY <2>1, Zenon DEF MailInv, ParcelInv
    <3> QED
      BY <2>1, <3>1, PlacesOfRange, ElementsOfSeq, Zenon
  <2>3. d.events \in Seq(Mail(d.handle))
    BY <2>2, Zenon DEF Parcels
  <2>4. y \in Range(d.events)
    BY <2>1, <2>3, PlacesOfRange, Zenon
  <2> QED
    BY <1>1, <2>3, <2>4, ElementsOfSeq, Zenon
<1>4. ASSUME NEW c, NEW i, InStream(y, c, i) PROVE FALSE
  <2>1. c \in Connections /\ i \in 1..Len(Stream(c)) /\ Stream(c)[i] = y
    BY <1>4, Zenon DEF InStream
  <2>2. written[c] \in Seq(Mail(c)) /\ queue[c] \in Seq(Mail(c))
    BY <2>1, Zenon DEF MailInv, QueueInv
  <2>3. Stream(c) \in Seq(Mail(c))
    BY <2>2, ConcatProperties, Zenon DEF Stream
  <2>4. y \in Range(Stream(c))
    BY <2>1, <2>3, PlacesOfRange, Zenon
  <2> QED
    BY <1>1, <2>3, <2>4, ElementsOfSeq, Zenon
<1> QED
  BY <1>2, <1>3, <1>4, Zenon DEF Boxed, Parcelled, Streamed

\* An event and its Ack each get one place, and no other event moves.
LEMMA RoutingKeepsPlaces ==
  ASSUME PlaceInv, NEW c \in Connections, RouteAccepted(c)
  PROVE  OnceInv'
<1>1. PICK e \in event[c] :
        /\ RouteEvent(HelloId[c], e) /\ accepted' = accepted \cup Addressed(c, e)
        /\ e \in Requests /\ e.type \in {"PeerKey", "EncryptedMessage"}
        /\ Connected(HelloId[c]) /\ Connected(e.to)
        /\ \A a \in accepted : a.event.tag # e.tag
        /\ \A a \in Addressed(c, e) : a.event = e \/ a.event = Ack(e)
  BY RoutingFacts, SMTT(30)
<1>2. UNCHANGED <<deliveries, queue, written>> /\ MailInv /\ OnceInv
  BY Zenon DEF RouteAccepted, taskVars, channelVars, PlaceInv
<1>3. Ack(e).tag = e.tag /\ Ack(e).type = "Ack"
  BY DEF Ack
<1>4. e # Ack(e) /\ e.type # "Error" /\ Ack(e).type # "Error"
  BY <1>1, <1>3, Zenon
<1>5. \A a \in accepted : a.event # e /\ a.event # Ack(e)
  BY <1>1, <1>3, Zenon
<1>6. PICK n, m : BoxesGrow(c, e, n, m)
  BY <1>1, <1>2, RoutingMoves, Zenon
<1>7. \A y, t, j, i : InParcel(y, t, j, i)' <=> InParcel(y, t, j, i)
  BY <1>2, Zenon DEF InParcel
<1>8. \A y, x, i : InStream(y, x, i)' <=> InStream(y, x, i)
  BY <1>2, Zenon DEF InStream, Stream
<1>9. ASSUME NEW a \in accepted PROVE Once(a.event)'
  <2>1. \A id, i : InBox(a.event, id, i)' => InBox(a.event, id, i)
    BY <1>5, <1>6, SMT DEF BoxesGrow
  <2>2. Once(a.event)
    BY <1>2, Zenon DEF OnceInv
  <2> QED
    BY <1>7, <1>8, <2>1, <2>2, OnceKept, Zenon
<1>10. ASSUME NEW y, NEW k, NEW l, ~Boxed(y), ~Parcelled(y), ~Streamed(y),
              \A id, i : InBox(y, id, i)' => InBox(y, id, i) \/ (id = k /\ i = l)
       PROVE  Once(y)'
  <2>1. \A id, i : InBox(y, id, i)' => id = k /\ i = l
    BY <1>10, Zenon DEF Boxed
  <2>2. OneBox(y)'
    BY <2>1, SMT DEF OneBox
  <2>3. \A t, j, i : ~InParcel(y, t, j, i)'
    BY <1>7, <1>10, Zenon DEF Parcelled
  <2>4. \A x, i : ~InStream(y, x, i)'
    BY <1>8, <1>10, Zenon DEF Streamed
  <2>5. OneParcel(y)' /\ ~Parcelled(y)'
    BY <2>3, Zenon DEF OneParcel, Parcelled
  <2>6. OneStream(y)' /\ ~Streamed(y)'
    BY <2>4, Zenon DEF OneStream, Streamed
  <2> QED
    BY <2>2, <2>5, <2>6, Zenon DEF Once
<1>11. Once(e)'
  <2>1. ~Boxed(e) /\ ~Parcelled(e) /\ ~Streamed(e)
    BY <1>2, <1>4, <1>5, NewIsNowhere, Zenon
  <2>2. \A id, i : InBox(e, id, i)' => InBox(e, id, i) \/ (id = e.to /\ i = n)
    BY <1>4, <1>6, SMT DEF BoxesGrow
  <2> QED
    BY <1>10, <2>1, <2>2, SMT
<1>12. Once(Ack(e))'
  <2>1. ~Boxed(Ack(e)) /\ ~Parcelled(Ack(e)) /\ ~Streamed(Ack(e))
    BY <1>2, <1>4, <1>5, NewIsNowhere, Zenon
  <2>2. \A id, i : InBox(Ack(e), id, i)' => InBox(Ack(e), id, i) \/ (id = HelloId[c] /\ i = m)
    BY <1>4, <1>6, SMT DEF BoxesGrow
  <2> QED
    BY <1>10, <2>1, <2>2, SMTT(30)
<1> SUFFICES ASSUME NEW a \in accepted' PROVE Once(a.event)'
  BY Zenon DEF OnceInv
<1>13. CASE a \in Addressed(c, e)
  BY <1>1, <1>11, <1>12, <1>13, Zenon
<1> QED
  BY <1>1, <1>9, <1>13, Zenon

-----------------------------------------------------------------------------
(* The invariant, step by step.                                            *)

\* A task that goes on with its first delivery.
LEMMA DeliveringKeepsHands ==
  ASSUME PlaceInv, NEW c \in Connections, DeliverEvent(c)
  PROVE  HandInv'
<1>1. pc[c] = "deliver" /\ UNCHANGED close
  BY Zenon DEF DeliverEvent
<1>2. CASE NextDelivery(c)
  BY <1>1, <1>2, NextDeliveryKeepsHands, Zenon
<1>3. CASE ~NextDelivery(c)
  <2>1. UNCHANGED pc /\ \E d : deliveries' = [deliveries EXCEPT ![c] = d]
    BY <1>3, Zenon DEF DeliverEvent
  <2>2. deliveries \in [Connections -> Seq(Parcels)] /\ HandInv
    BY Zenon DEF PlaceInv, MailInv, ParcelInv
  <2>3. \A d \in Connections : d # c => deliveries'[d] = deliveries[d]
    BY <2>1, <2>2, Zenon
  <2>4. \A d \in Connections : pc[d] \notin {"deliver", "remove"} => deliveries'[d] = <<>>
    BY <1>1, <2>2, <2>3, Zenon DEF HandInv
  <2>5. \A d \in Connections : pc[d] = "remove" => close[Head(deliveries'[d]).handle]
    BY <1>1, <2>2, <2>3, Zenon DEF HandInv
  <2> QED
    BY <1>1, <2>1, <2>4, <2>5, Zenon DEF HandInv
<1> QED
  BY <1>2, <1>3, Zenon

\* The steps that move no event.
Quiet(c) ==
    \/ ReadHello(c) \/ NoHello(c) \/ Authorize(c) \/ Reject(c) \/ RefuseDuplicate(c)
    \/ InsertHandle(c) \/ OnConnect(c) \/ LeaveLoop(c) \/ SocketEnds(c) \/ RouteRejected(c)
    \/ Unregister(c) \/ OnDisconnect(c)

\* They move no event.
LEMMA QuietFacts ==
  ASSUME MailInv, NEW c \in Connections, Quiet(c)
  PROVE  /\ UNCHANGED <<outboxes, deliveries, queue, close, received, accepted, written>>
         /\ \A d \in Connections : event'[d] \subseteq event[d]
         /\ pc \in [Connections -> Labels]
         /\ \E l \in Labels \ {"deliver", "remove", "route", "flush"} : pc' = [pc EXCEPT ![c] = l]
         /\ pc[c] \notin {"deliver", "remove"}
<1>1. UNCHANGED <<outboxes, deliveries, queue, close, received, accepted, written>>
  BY Zenon DEF Quiet, ReadHello, NoHello, Authorize, Reject, RefuseDuplicate, InsertHandle,
     OnConnect, LeaveLoop, SocketEnds, RouteRejected, Unregister, OnDisconnect, Return, taskVars,
     channelVars, historyVars
<1>2. event' \in {event, [event EXCEPT ![c] = {}]}
  BY Zenon DEF Quiet, ReadHello, NoHello, Authorize, Reject, RefuseDuplicate, InsertHandle,
     OnConnect, LeaveLoop, SocketEnds, RouteRejected, Unregister, OnDisconnect, Return, taskVars
<1>3. \A d \in Connections : event'[d] \subseteq event[d]
  <2>1. event \in [Connections -> SUBSET Requests]
    BY Zenon DEF MailInv, RestInv
  <2> QED
    BY <1>2, <2>1, Zenon
<1>4. /\ \E l \in Labels \ {"deliver", "remove", "route", "flush"} : pc' = [pc EXCEPT ![c] = l]
      /\ pc[c] \notin {"deliver", "remove"}
  BY DEF Quiet, ReadHello, NoHello, Authorize, Reject, RefuseDuplicate, InsertHandle, OnConnect,
     LeaveLoop, SocketEnds, RouteRejected, Unregister, OnDisconnect, Return, Goto, Labels
<1> QED
  BY <1>1, <1>3, <1>4, Zenon DEF MailInv, OwnerInv

\* Every step keeps the invariant.
LEMMA PlaceInvNext == PlaceInv /\ [Next]_vars => PlaceInv'
<1> SUFFICES ASSUME PlaceInv, [Next]_vars PROVE PlaceInv'
  OBVIOUS
<1>0. /\ MailInv /\ TagInv /\ HandInv /\ OnceInv /\ pc \in [Connections -> Labels]
      /\ event \in [Connections -> SUBSET Requests]
  BY Zenon DEF PlaceInv, MailInv, OwnerInv, RestInv
<1>a. MailInv'
  BY <1>0, MailInvNext, Zenon
<1>1. CASE UNCHANGED vars
  <2>1. UNCHANGED <<outboxes, deliveries, queue, written, accepted, received, event, pc, close>>
    BY <1>1, Zenon DEF vars, taskVars, channelVars, historyVars
  <2>2. \A c \in Connections : Stream(c)' = Stream(c)
    BY <2>1, Zenon DEF Stream
  <2>3. TagInv' /\ HandInv' /\ OnceInv'
    BY <1>0, <2>1, <2>2, TagKept, HandKept, NothingMoves, StayingKeepsPlaces, Zenon
  <2> QED
    BY <1>a, <2>3, Zenon DEF PlaceInv
<1>2. ASSUME NEW c \in Connections, Quiet(c) PROVE PlaceInv'
  <2>1. /\ UNCHANGED <<outboxes, deliveries, queue, close, received, accepted, written>>
        /\ \A d \in Connections : event'[d] \subseteq event[d]
        /\ pc[c] \notin {"deliver", "remove"}
    BY <1>0, <1>2, QuietFacts, Zenon
  <2>2. PICK l \in Labels \ {"deliver", "remove", "route", "flush"} : pc' = [pc EXCEPT ![c] = l]
    BY <1>0, <1>2, QuietFacts, Zenon
  <2>3. \A d \in Connections :
          /\ pc'[d] \in {"deliver", "remove"} <=> pc[d] \in {"deliver", "remove"}
          /\ pc'[d] = "remove" => pc[d] = "remove"
          /\ pc'[d] = "route" => pc[d] = "route"
    BY <1>0, <2>1, <2>2
  <2>4. \A d \in Connections : Stream(d)' = Stream(d)
    BY <2>1, Zenon DEF Stream
  <2>5. TagInv'
    BY <1>0, <2>1, <2>3, TagKept, Zenon
  <2>6. HandInv'
    BY <1>0, <2>1, <2>3, HandKept, Zenon
  <2>7. OnceInv'
    BY <1>0, <2>1, <2>4, NothingMoves, StayingKeepsPlaces, Zenon
  <2> QED
    BY <1>a, <2>5, <2>6, <2>7, Zenon DEF PlaceInv
<1>3. ASSUME NEW c \in Connections, ReceiveEvent(c) PROVE PlaceInv'
  <2>1. /\ UNCHANGED <<outboxes, deliveries, queue, close, accepted, written>>
        /\ pc[c] = "loop" /\ pc' = [pc EXCEPT ![c] = "route"]
    BY <1>3, Zenon DEF ReceiveEvent, channelVars, historyVars, Goto
  <2>2. \A d \in Connections :
          /\ pc'[d] \in {"deliver", "remove"} <=> pc[d] \in {"deliver", "remove"}
          /\ pc'[d] = "remove" => pc[d] = "remove"
    BY <1>0, <2>1
  <2>3. \A d \in Connections : Stream(d)' = Stream(d)
    BY <2>1, Zenon DEF Stream
  <2>4. TagInv'
    BY <1>3, ReceivingKeepsTags, Zenon
  <2>5. HandInv'
    BY <1>0, <2>1, <2>2, HandKept, Zenon
  <2>6. OnceInv'
    BY <1>0, <2>1, <2>3, NothingMoves, StayingKeepsPlaces, Zenon
  <2> QED
    BY <1>a, <2>4, <2>5, <2>6, Zenon DEF PlaceInv
<1>4. ASSUME NEW c \in Connections, RouteAccepted(c) PROVE PlaceInv'
  <2>1. /\ UNCHANGED <<deliveries, close>> /\ pc[c] = "route" /\ pc' = [pc EXCEPT ![c] = "flush"]
    BY <1>4, Zenon DEF RouteAccepted, taskVars, channelVars, Goto
  <2>2. \A d \in Connections :
          /\ pc'[d] \in {"deliver", "remove"} <=> pc[d] \in {"deliver", "remove"}
          /\ pc'[d] = "remove" => pc[d] = "remove"
    BY <1>0, <2>1
  <2>3. HandInv'
    BY <1>0, <2>1, <2>2, HandKept, Zenon
  <2> QED
    BY <1>4, <1>a, <2>3, RoutingKeepsTags, RoutingKeepsPlaces, Zenon DEF PlaceInv
<1>5. ASSUME NEW c \in Connections,
             \/ ReportError(c) \/ Write(c) \/ WriterEnds(c) \/ Register(c) \/ Disconnect(c)
      PROVE  PlaceInv'
  <2>1. /\ UNCHANGED <<deliveries, close, received, accepted>>
        /\ event' \in {event, [event EXCEPT ![c] = {}]}
    BY <1>5, Zenon DEF ReportError, Write, WriterEnds, Register, Disconnect, taskVars, channelVars,
       historyVars
  <2>2. \/ UNCHANGED pc
        \/ /\ pc[c] \notin {"deliver", "remove"}
           /\ \E l \in Labels \ {"deliver", "remove", "route"} : pc' = [pc EXCEPT ![c] = l]
    BY <1>5 DEF ReportError, Write, WriterEnds, Register, Disconnect, Goto, Labels
  <2>3. \A d \in Connections :
          /\ pc'[d] \in {"deliver", "remove"} <=> pc[d] \in {"deliver", "remove"}
          /\ pc'[d] = "remove" => pc[d] = "remove"
          /\ pc'[d] = "route" => pc[d] = "route"
    BY <1>0, <2>2
  <2>4. \A d \in Connections : event'[d] \subseteq event[d]
    BY <1>0, <2>1, Zenon
  <2>5. TagInv'
    BY <1>0, <2>1, <2>3, <2>4, TagKept, Zenon
  <2>6. HandInv'
    BY <1>0, <2>1, <2>3, HandKept, Zenon
  <2>7. OnceInv'
    BY <1>0, <1>5, ChannelStepsMoveNothing, RegistrationMovesNothing, StayingKeepsPlaces, Zenon
  <2> QED
    BY <1>a, <2>5, <2>6, <2>7, Zenon DEF PlaceInv
<1>6. ASSUME NEW c \in Connections,
             DrainTargets(c) \/ DeliverEvent(c) \/ DeliveryFails(c) \/ RemoveHandle(c)
      PROVE  PlaceInv'
  <2>1. /\ UNCHANGED <<received, accepted>> /\ event' \in {event, [event EXCEPT ![c] = {}]}
    BY <1>6, Zenon DEF DrainTargets, DeliverEvent, DeliveryFails, RemoveHandle, taskVars,
       channelVars, historyVars
  <2>2. UNCHANGED pc \/ \E l \in Labels \ {"route"} : pc' = [pc EXCEPT ![c] = l]
    BY <1>6 DEF DrainTargets, DeliverEvent, DeliveryFails, RemoveHandle, NextDelivery, Goto, Labels
  <2>3. \A d \in Connections : pc'[d] = "route" => pc[d] = "route"
    BY <1>0, <2>2
  <2>4. \A d \in Connections : event'[d] \subseteq event[d]
    BY <1>0, <2>1, Zenon
  <2>5. TagInv'
    BY <1>0, <2>1, <2>3, <2>4, TagKept, Zenon
  <2>6. CASE DeliveryFails(c)
    <3>1. UNCHANGED <<outboxes, deliveries, queue, accepted, written>>
      BY <2>6, Zenon DEF DeliveryFails, taskVars, historyVars
    <3>2. \A d \in Connections : Stream(d)' = Stream(d)
      BY <3>1, Zenon DEF Stream
    <3>3. OnceInv'
      BY <1>0, <3>1, <3>2, NothingMoves, StayingKeepsPlaces, Zenon
    <3> QED
      BY <1>a, <2>5, <2>6, <3>3, FailingKeepsHands, Zenon DEF PlaceInv
  <2>7. CASE RemoveHandle(c)
    <3>1. pc[c] = "remove" /\ NextDelivery(c) /\ UNCHANGED close
      BY <2>7, Zenon DEF RemoveHandle, channelVars
    <3>2. HandInv'
      BY <3>1, NextDeliveryKeepsHands, Zenon
    <3> QED
      BY <1>a, <2>5, <2>7, <3>2, RemovingKeepsPlaces, Zenon DEF PlaceInv
  <2>8. CASE DrainTargets(c)
    BY <1>a, <2>5, <2>8, DrainingKeepsPlaces, Zenon DEF PlaceInv
  <2>9. CASE DeliverEvent(c)
    BY <1>a, <2>5, <2>9, DeliveringKeepsHands, DeliveringKeepsPlaces, Zenon DEF PlaceInv
  <2> QED
    BY <1>6, <2>6, <2>7, <2>8, <2>9, Zenon
<1> QED
  BY <1>1, <1>2, <1>3, <1>4, <1>5, <1>6, Zenon DEF Next, Task, Socket, Quiet

\* No task takes an event that another one has taken, and none leaves a copy behind: every
\* routed event is in at most one outbox, delivery or stream, at one position (route,
\* drain_outbox and flush_outboxes under the router lock, try_send, the writer).
THEOREM OnePlaceEach == Spec => []OnceInv
<1>1. Spec => []PlaceInv
  BY PlaceInvInit, PlaceInvNext, PTL DEF Spec
<1>2. PlaceInv => OnceInv
  BY Zenon DEF PlaceInv
<1> QED
  BY <1>1, <1>2, PTL

-----------------------------------------------------------------------------
(* What the reader of a socket may rely on.                                *)

\* A tag is that of one event and of its Ack.
OneTag ==
    \A a, b \in accepted :
        (a.event.tag = b.event.tag /\ a.event.type # "Ack" /\ b.event.type # "Ack")
            => a.event = b.event

\* Only routing accepts.
LEMMA OnlyRoutingAccepts ==
  ASSUME [Next]_vars
  PROVE  UNCHANGED accepted \/ \E c \in Connections : RouteAccepted(c)
<1>1. CASE UNCHANGED vars
  BY <1>1, Zenon DEF vars, historyVars
<1>2. ASSUME NEW c \in Connections, Task(c) \/ LeaveLoop(c) \/ Socket(c)
      PROVE  UNCHANGED accepted \/ RouteAccepted(c)
  BY <1>2, Zenon DEF Task, Socket, Authorize, RefuseDuplicate, Register, InsertHandle, OnConnect,
     RouteRejected, ReportError, DrainTargets, DeliverEvent, DeliveryFails, RemoveHandle,
     Unregister, Disconnect, OnDisconnect, LeaveLoop, ReadHello, NoHello, Reject, ReceiveEvent,
     SocketEnds, Write, WriterEnds, Return, historyVars
<1> QED
  BY <1>1, <1>2, Zenon DEF Next

\* At the start nothing is accepted.
LEMMA OneTagInit == Init => OneTag
  BY Zenon DEF Init, OneTag

\* What is routed has a tag of its own (the count of received frames).
LEMMA OneTagNext == PlaceInv /\ OneTag /\ [Next]_vars => OneTag'
<1> SUFFICES ASSUME PlaceInv, OneTag, [Next]_vars PROVE OneTag'
  BY Zenon
<1>1. CASE UNCHANGED accepted
  BY <1>1, Zenon DEF OneTag
<1>2. ASSUME NEW c \in Connections, RouteAccepted(c) PROVE OneTag'
  <2>1. PICK e \in event[c] :
          /\ accepted' = accepted \cup Addressed(c, e)
          /\ \A a \in accepted : a.event.tag # e.tag
          /\ \A a \in Addressed(c, e) : a.event = e \/ a.event = Ack(e)
    BY <1>2, RoutingFacts, SMTT(30)
  <2>2. Ack(e).type = "Ack" /\ Ack(e).tag = e.tag
    BY Zenon DEF Ack
  <2>3. \A a \in accepted' : a.event.type # "Ack" => a \in accepted \/ a.event = e
    BY <2>1, <2>2, Zenon
  <2> SUFFICES ASSUME NEW a \in accepted', NEW b \in accepted', a.event.tag = b.event.tag,
                      a.event.type # "Ack", b.event.type # "Ack"
               PROVE  a.event = b.event
    BY Zenon DEF OneTag
  <2>4. CASE a \in accepted /\ b \in accepted
    BY <2>4, Zenon DEF OneTag
  <2>5. CASE a.event = e \/ b.event = e
    BY <2>1, <2>3, <2>5, Zenon
  <2> QED
    BY <2>3, <2>4, <2>5, Zenon
<1> QED
  BY <1>1, <1>2, OnlyRoutingAccepts, Zenon

\* The writer only adds to what it wrote.
LEMMA WrittenGrows ==
  ASSUME MailInv, [Next]_vars, NEW c \in Connections
  PROVE  /\ Len(written[c]) <= Len(written'[c])
         /\ \A i \in 1..Len(written[c]) : written'[c][i] = written[c][i]
<1>1. written \in [Connections -> Seq(Events)] /\ queue \in [Connections -> Seq(Events)]
  BY Zenon DEF MailInv, QueueInv
<1>2. CASE UNCHANGED written
  BY <1>1, <1>2
<1>3. ASSUME NEW d \in Connections, Write(d)
      PROVE  /\ Len(written[c]) <= Len(written'[c])
             /\ \A i \in 1..Len(written[c]) : written'[c][i] = written[c][i]
  <2>1. queue[d] # <<>> /\ written' = [written EXCEPT ![d] = Append(written[d], Head(queue[d]))]
    BY <1>3, Zenon DEF Write
  <2>2. Head(queue[d]) \in Events
    BY <1>1, <2>1
  <2>3. CASE c = d
    <3>1. written'[c] = Append(written[c], Head(queue[d])) /\ written[c] \in Seq(Events)
      BY <1>1, <2>1, <2>3, Zenon
    <3> QED
      BY <2>2, <3>1
  <2>4. CASE c # d
    <3>1. written'[c] = written[c] /\ written[c] \in Seq(Events)
      BY <1>1, <2>1, <2>4, Zenon
    <3> QED
      BY <3>1
  <2> QED
    BY <2>3, <2>4, Zenon
<1>4. UNCHANGED written \/ \E d \in Connections : Write(d)
  <2>1. CASE UNCHANGED vars
    BY <2>1, Zenon DEF vars, historyVars
  <2>2. ASSUME NEW d \in Connections, Task(d) \/ LeaveLoop(d) \/ Socket(d)
        PROVE  UNCHANGED written \/ Write(d)
    BY <2>2, Zenon DEF Task, Socket, Authorize, RefuseDuplicate, Register, InsertHandle,
       OnConnect, RouteAccepted, RouteRejected, ReportError, DrainTargets, DeliverEvent,
       DeliveryFails, RemoveHandle, Unregister, Disconnect, OnDisconnect, LeaveLoop, ReadHello,
       NoHello, Reject, ReceiveEvent, SocketEnds, WriterEnds, Return, historyVars
  <2> QED
    BY <2>1, <2>2, Zenon DEF Next
<1> QED
  BY <1>2, <1>3, <1>4, Zenon

\* Frames are counted where they are read.
LEMMA OnlyReceivingCounts ==
  ASSUME NEW c \in Connections,
         Task(c) \/ LeaveLoop(c) \/ ReadHello(c) \/ NoHello(c) \/ SocketEnds(c) \/ Write(c)
           \/ WriterEnds(c)
  PROVE  UNCHANGED received
  BY Zenon DEF Task, Authorize, RefuseDuplicate, Register, InsertHandle, OnConnect,
     RouteAccepted, RouteRejected, ReportError, DrainTargets, DeliverEvent, DeliveryFails,
     RemoveHandle, Unregister, Disconnect, OnDisconnect, LeaveLoop, ReadHello, NoHello,
     SocketEnds, Write, WriterEnds, Return, taskVars

\* A frame that carries a client's event.
CarriesEvent(e) == e.type \notin {"Ack", "Error"}

\* An event in the stream of a connection is one that was read from a client, and the
\* stream has it once.
LEMMA StreamTags ==
  ASSUME PlaceInv, OneTag, NEW c \in Connections, NEW i \in 1..Len(Stream(c)),
         CarriesEvent(Stream(c)[i])
  PROVE  /\ Stream(c)[i].tag[1] \in Connections
         /\ Stream(c)[i].tag[2] \in 1..received[Stream(c)[i].tag[1]]
         /\ \A j \in 1..Len(Stream(c)) :
              (/\ CarriesEvent(Stream(c)[j])
               /\ Stream(c)[j].tag[1] = Stream(c)[i].tag[1]
               /\ Stream(c)[j].tag[2] = Stream(c)[i].tag[2]) => j = i
<1>1. Stream(c) \in Seq(Mail(c))
  BY DEF PlaceInv, MailInv, QueueInv, Stream
<1>2. ASSUME NEW k \in 1..Len(Stream(c)), CarriesEvent(Stream(c)[k])
      PROVE  /\ Stream(c)[k] \in Events /\ Stream(c)[k].type # "Ack"
             /\ \E a \in accepted : a.event = Stream(c)[k]
  <2>1. Stream(c)[k] \in Mail(c)
    BY <1>1
  <2> QED
    BY <1>2, <2>1, Zenon DEF Mail, CarriesEvent
<1>3. PICK a \in accepted : a.event = Stream(c)[i]
  BY <1>2, Zenon
<1>4. \A k \in 1..Len(Stream(c)) : CarriesEvent(Stream(c)[k]) => Stream(c)[k].tag \in Tags
  <2> SUFFICES ASSUME NEW k \in 1..Len(Stream(c)), CarriesEvent(Stream(c)[k])
               PROVE  Stream(c)[k].tag \in Tags
    BY Zenon
  <2>1. Stream(c)[k] \in Events
    BY <1>2, Zenon
  <2> QED
    BY <2>1, Zenon DEF Events
<1>5. Stream(c)[i].tag[1] \in Connections /\ Stream(c)[i].tag[2] \in 1..MaxReceived
  BY <1>4, Zenon DEF Tags
<1>6. Stream(c)[i].tag[2] <= received[Stream(c)[i].tag[1]]
  <2>1. a.event.tag[2] <= received[a.event.tag[1]]
    BY Zenon DEF PlaceInv, TagInv
  <2> QED
    BY <1>3, <2>1, Zenon
<1>7. received[Stream(c)[i].tag[1]] \in 0..MaxReceived
  BY <1>5, Zenon DEF PlaceInv, MailInv, RestInv
<1>8. Stream(c)[i].tag[2] \in 1..received[Stream(c)[i].tag[1]]
  BY <1>5, <1>6, <1>7, BoundIsNat
<1>9. ASSUME NEW j \in 1..Len(Stream(c)), CarriesEvent(Stream(c)[j]),
             Stream(c)[j].tag[1] = Stream(c)[i].tag[1],
             Stream(c)[j].tag[2] = Stream(c)[i].tag[2]
      PROVE  j = i
  <2>0. Stream(c)[j].tag = Stream(c)[i].tag
    <3>1. PICK s, t : s = Stream(c)[j].tag /\ t = Stream(c)[i].tag
      BY Zenon
    <3>2. s \in Tags /\ t \in Tags /\ s[1] = t[1] /\ s[2] = t[2]
      BY <1>4, <1>9, <3>1, Zenon
    <3>3. s = t
      BY <3>2 DEF Tags
    <3> QED
      BY <3>1, <3>3, Zenon
  <2>1. PICK b \in accepted : b.event = Stream(c)[j]
    BY <1>2, <1>9, Zenon
  <2>2. a.event.type # "Ack" /\ b.event.type # "Ack" /\ a.event.tag = b.event.tag
    BY <1>2, <1>3, <1>9, <2>0, <2>1, Zenon
  <2>3. a.event = b.event
    BY <2>2, Zenon DEF OneTag
  <2>4. InStream(a.event, c, i) /\ InStream(a.event, c, j)
    BY <1>3, <2>1, <2>3, Zenon DEF InStream
  <2> QED
    BY <2>4, Zenon DEF PlaceInv, OnceInv, Once, OneStream
<1> QED
  BY <1>5, <1>8, <1>9, Zenon

-----------------------------------------------------------------------------
(* The order of what reaches a client.  Between two clients, only the task *)
(* of the peer takes what waits for a connection that has had no envelope  *)
(* accepted, so events cannot overtake each other there.                   *)

\* There are no more than two clients.
TwoClients == \A x, y, z \in ClientIds : x # z /\ y # z => x = y

\* Nobody writes to their own id.
NoneToSelf == \A c \in Connections : \A e \in event[c] : e.to # HelloId[c]

\* No envelope of c was accepted: c is owed no Ack.
Silent(c) == \A a \in accepted : a.event.type = "Ack" => a.event.tag[1] # c

\* An event of a client that was routed to c.
Meant(e, c) == CarriesEvent(e) /\ \E a \in accepted : a.event = e /\ a.for = c

\* f was sent after e, if by the same connection.
Later(e, f) == e.tag[1] = f.tag[1] => e.tag[2] < f.tag[2]

\* e will be written before f.
Ahead(e, f) ==
    \/ \E id, i, k : InBox(e, id, i) /\ InBox(f, id, k) /\ i < k
    \/ \E t, j, i, k : InParcel(e, t, j, i) /\ InParcel(f, t, j, k) /\ i < k
    \/ \E y, i, k : InStream(e, y, i) /\ InStream(f, y, k) /\ i < k
    \/ Streamed(e) /\ (Parcelled(f) \/ Boxed(f))
    \/ Parcelled(e) /\ Boxed(f)

\* Only a task of the other client carries events for c.
PeerCarries(c) ==
    \A e, t, j, i : Meant(e, c) /\ InParcel(e, t, j, i) => HelloId[t] # HelloId[c]

\* All that is carried for c is in one delivery.
OneLoad(c) ==
    \A e, f, t, u, j, k, i, l :
        Meant(e, c) /\ Meant(f, c) /\ InParcel(e, t, j, i) /\ InParcel(f, u, k, l)
            => t = u /\ j = k

InOrder(c) == \A e, f : Meant(e, c) /\ Meant(f, c) /\ Ahead(e, f) => Later(e, f)

Orderly(c) == PeerCarries(c) /\ OneLoad(c) /\ InOrder(c)

\* A task has one event in hand, and one that flushes its own outbox has had an envelope
\* accepted.
FlushInv ==
    /\ \A c \in Connections : \A e, f \in event[c] : e = f
    /\ \A c \in Connections : pc[c] = "flush" =>
         \A e \in event[c] : e.type # "PeerKey" => ~Silent(c)

OrderInv == FlushInv /\ \A c \in Connections : Silent(c) => Orderly(c)

\* At the start nothing is anywhere.
LEMMA OrderInvInit == Init => OrderInv
<1> SUFFICES ASSUME Init PROVE OrderInv
  BY Zenon
<1>1. accepted = {} /\ \A c \in Connections : event[c] = {}
  BY Zenon DEF Init
<1>2. \A e, c : ~Meant(e, c)
  BY <1>1, Zenon DEF Meant
<1>3. \A c : PeerCarries(c) /\ OneLoad(c) /\ InOrder(c)
  BY <1>2, SMT DEF PeerCarries, OneLoad, InOrder
<1> QED
  BY <1>1, <1>3, Zenon DEF OrderInv, FlushInv, Orderly

\* A step that moves nothing, or only loses events.
LEMMA StayingKeepsOrder == ASSUME Staying, NEW d, Orderly(d) PROVE Orderly(d)'
<1>1. \A e : Meant(e, d)' <=> Meant(e, d)
  BY Zenon DEF Staying, Meant
<1>2. ASSUME NEW e, Meant(e, d)
      PROVE  /\ \A id, i : InBox(e, id, i)' => InBox(e, id, i)
             /\ \A t, j, i : InParcel(e, t, j, i)' => InParcel(e, t, j, i)
             /\ \A c, i : InStream(e, c, i)' => InStream(e, c, i)
  BY <1>2, Zenon DEF Staying, Meant
<1>3. PeerCarries(d)'
  BY <1>1, <1>2, Zenon DEF Orderly, PeerCarries
<1>4. OneLoad(d)'
  <2> SUFFICES ASSUME NEW e, NEW f, NEW t, NEW u, NEW j, NEW k, NEW i, NEW l,
                      Meant(e, d), Meant(f, d), InParcel(e, t, j, i)', InParcel(f, u, k, l)'
               PROVE  t = u /\ j = k
    BY <1>1, SMT DEF OneLoad
  <2>1. InParcel(e, t, j, i) /\ InParcel(f, u, k, l)
    BY <1>2, Zenon
  <2> QED
    BY <2>1, Zenon DEF Orderly, OneLoad
<1>5. ASSUME NEW e, NEW f, Meant(e, d), Meant(f, d), Ahead(e, f)'
      PROVE  Ahead(e, f)
  <2>1. /\ Boxed(e)' => Boxed(e)
        /\ Parcelled(e)' => Parcelled(e)
        /\ Streamed(e)' => Streamed(e)
    BY <1>2, <1>5, Zenon DEF Boxed, Parcelled, Streamed
  <2>2. /\ Boxed(f)' => Boxed(f)
        /\ Parcelled(f)' => Parcelled(f)
    BY <1>2, <1>5, Zenon DEF Boxed, Parcelled
  <2>3. CASE \E id, i, k : InBox(e, id, i)' /\ InBox(f, id, k)' /\ i < k
    BY <1>2, <1>5, <2>3, Zenon DEF Ahead
  <2>4. CASE \E t, j, i, k : InParcel(e, t, j, i)' /\ InParcel(f, t, j, k)' /\ i < k
    BY <1>2, <1>5, <2>4, Zenon DEF Ahead
  <2>5. CASE \E y, i, k : InStream(e, y, i)' /\ InStream(f, y, k)' /\ i < k
    BY <1>2, <1>5, <2>5, Zenon DEF Ahead
  <2> QED
    BY <1>5, <2>1, <2>2, <2>3, <2>4, <2>5, Zenon DEF Ahead
<1>6. InOrder(d)'
  BY <1>1, <1>5, Zenon DEF Orderly, InOrder, Later
<1> QED
  BY <1>3, <1>4, <1>6, Zenon DEF Orderly

\* What moves up stays with one task and in one delivery, in its order; and what is left
\* was behind the first event, if that was for d too.
LEMMA MovingUpKeepsLoads ==
  ASSUME NEW c, MovedUp(c), UNCHANGED accepted, NEW d, Orderly(d)
  PROVE  /\ PeerCarries(d)' /\ OneLoad(d)'
         /\ \A e, t, j, i : InParcel(e, t, j, i)' => Parcelled(e)
         /\ \A e, f, t, j, i, k :
              Meant(e, d) /\ Meant(f, d) /\ InParcel(e, t, j, i)' /\ InParcel(f, t, j, k)' /\ i < k
                => Ahead(e, f)
         /\ \A x, f : Meant(x, d) /\ Meant(f, d) /\ InParcel(x, c, 1, 1) /\ Parcelled(f)'
                => Ahead(x, f)
<1>1. \A e : Meant(e, d)' <=> Meant(e, d)
  BY Zenon DEF Meant
<1>2. \A m, n \in Nat : /\ m + 1 = n + 1 => m = n
                        /\ m # 0 => m + 1 # 1 /\ 1 < m + 1
                        /\ m < n => m + 1 < n + 1
  OBVIOUS
<1>3. CASE DeliveriesMoveUp(c)
  <2>1. ASSUME NEW e, NEW t, NEW j, NEW i, InParcel(e, t, j, i)'
        PROVE  j \in Nat \ {0} /\ InParcel(e, t, IF t = c THEN j + 1 ELSE j, i)
    BY <1>3, <2>1, Zenon DEF DeliveriesMoveUp
  <2>2. PeerCarries(d)'
    BY <1>1, <2>1, Zenon DEF Orderly, PeerCarries
  <2>3. OneLoad(d)'
    <3> SUFFICES ASSUME NEW e, NEW f, NEW t, NEW u, NEW j, NEW k, NEW i, NEW l,
                        Meant(e, d), Meant(f, d), InParcel(e, t, j, i)', InParcel(f, u, k, l)'
                 PROVE  t = u /\ j = k
      BY <1>1, SMT DEF OneLoad
    <3>1. PICK m : m = IF t = c THEN j + 1 ELSE j
      BY Zenon
    <3>2. PICK n : n = IF u = c THEN k + 1 ELSE k
      BY Zenon
    <3>3. j \in Nat /\ k \in Nat /\ InParcel(e, t, m, i) /\ InParcel(f, u, n, l)
      BY <2>1, <3>1, <3>2, Zenon
    <3>4. t = u /\ m = n
      BY <3>3, Zenon DEF Orderly, OneLoad
    <3> QED
      BY <1>2, <3>1, <3>2, <3>3, <3>4, Zenon
  <2>4. ASSUME NEW e, NEW f, NEW t, NEW j, NEW i, NEW k, InParcel(e, t, j, i)',
               InParcel(f, t, j, k)', i < k
        PROVE  Ahead(e, f)
    <3>1. PICK m : m = IF t = c THEN j + 1 ELSE j
      BY Zenon
    <3>2. InParcel(e, t, m, i) /\ InParcel(f, t, m, k)
      BY <2>1, <2>4, <3>1, Zenon
    <3> QED
      BY <2>4, <3>2, Zenon DEF Ahead
  <2>5. ASSUME NEW x, NEW f, Meant(x, d), Meant(f, d), InParcel(x, c, 1, 1), Parcelled(f)'
        PROVE  FALSE
    <3>1. PICK t, j, i : InParcel(f, t, j, i)'
      BY <2>5, Zenon DEF Parcelled
    <3>2. PICK m : m = IF t = c THEN j + 1 ELSE j
      BY Zenon
    <3>3. j \in Nat \ {0} /\ InParcel(f, t, m, i)
      BY <2>1, <3>1, <3>2, Zenon
    <3>4. c = t /\ 1 = m
      BY <2>5, <3>3, Zenon DEF Orderly, OneLoad
    <3> QED
      BY <1>2, <3>2, <3>3, <3>4, Zenon
  <2>6. \A e, t, j, i : InParcel(e, t, j, i)' => Parcelled(e)
    BY <2>1, Zenon DEF Parcelled
  <2> QED
    BY <2>2, <2>3, <2>4, <2>5, <2>6, Zenon
<1>4. CASE EventsMoveUp(c)
  <2>1. ASSUME NEW e, NEW t, NEW j, NEW i, InParcel(e, t, j, i)'
        PROVE  i \in Nat \ {0} /\ InParcel(e, t, j, IF t = c /\ j = 1 THEN i + 1 ELSE i)
    BY <1>4, <2>1, Zenon DEF EventsMoveUp
  <2>0. ASSUME NEW e, NEW t, NEW j, NEW i, InParcel(e, t, j, i)'
        PROVE  \E m : InParcel(e, t, j, m)
    <3>1. PICK m : m = IF t = c /\ j = 1 THEN i + 1 ELSE i
      BY Zenon
    <3> QED
      BY <2>0, <2>1, <3>1, Zenon
  <2>2. PeerCarries(d)'
    BY <1>1, <2>0, Zenon DEF Orderly, PeerCarries
  <2>3. OneLoad(d)'
    <3> SUFFICES ASSUME NEW e, NEW f, NEW t, NEW u, NEW j, NEW k, NEW i, NEW l,
                        Meant(e, d), Meant(f, d), InParcel(e, t, j, i)', InParcel(f, u, k, l)'
                 PROVE  t = u /\ j = k
      BY <1>1, SMT DEF OneLoad
    <3>1. (\E m : InParcel(e, t, j, m)) /\ (\E n : InParcel(f, u, k, n))
      BY <2>0, Zenon
    <3> QED
      BY <3>1, Zenon DEF Orderly, OneLoad
  <2>4. ASSUME NEW e, NEW f, NEW t, NEW j, NEW i, NEW k, InParcel(e, t, j, i)',
               InParcel(f, t, j, k)', i < k
        PROVE  Ahead(e, f)
    <3>1. PICK m : m = IF t = c /\ j = 1 THEN i + 1 ELSE i
      BY Zenon
    <3>2. PICK n : n = IF t = c /\ j = 1 THEN k + 1 ELSE k
      BY Zenon
    <3>3. i \in Nat /\ k \in Nat /\ InParcel(e, t, j, m) /\ InParcel(f, t, j, n)
      BY <2>1, <2>4, <3>1, <3>2, Zenon
    <3>4. m < n
      BY <1>2, <2>4, <3>1, <3>2, <3>3, Zenon
    <3> QED
      BY <3>3, <3>4, Zenon DEF Ahead
  <2>5. ASSUME NEW x, NEW f, Meant(x, d), Meant(f, d), InParcel(x, c, 1, 1), Parcelled(f)'
        PROVE  Ahead(x, f)
    <3>1. PICK t, j, i : InParcel(f, t, j, i)'
      BY <2>5, Zenon DEF Parcelled
    <3>2. PICK m : m = IF t = c /\ j = 1 THEN i + 1 ELSE i
      BY Zenon
    <3>3. i \in Nat \ {0} /\ InParcel(f, t, j, m)
      BY <2>1, <3>1, <3>2, Zenon
    <3>4. c = t /\ 1 = j
      BY <2>5, <3>3, Zenon DEF Orderly, OneLoad
    <3>5. 1 < m
      BY <1>2, <3>2, <3>3, <3>4, Zenon
    <3> QED
      BY <2>5, <3>3, <3>4, <3>5, Zenon DEF Ahead
  <2>6. \A e, t, j, i : InParcel(e, t, j, i)' => Parcelled(e)
    BY <2>0, Zenon DEF Parcelled
  <2> QED
    BY <2>2, <2>3, <2>4, <2>5, <2>6, Zenon
<1> QED
  BY <1>3, <1>4, Zenon DEF MovedUp

\* A delivery that is given up takes its events with it.
LEMMA RemovingKeepsOrder ==
  ASSUME PlaceInv, NEW c \in Connections, RemoveHandle(c), NEW d, Orderly(d)
  PROVE  Orderly(d)'
<1>1. /\ pc[c] = "remove" /\ NextDelivery(c) /\ UNCHANGED <<outboxes, queue, written, accepted>>
  BY Zenon DEF RemoveHandle, channelVars, historyVars
<1>2. MovedUp(c)
  BY <1>1, NextDeliveryMoves, Zenon DEF MovedUp
<1>3. /\ PeerCarries(d)' /\ OneLoad(d)'
      /\ \A e : Parcelled(e)' => Parcelled(e)
      /\ \A e, f, t, j, i, k :
           Meant(e, d) /\ Meant(f, d) /\ InParcel(e, t, j, i)' /\ InParcel(f, t, j, k)' /\ i < k
             => Ahead(e, f)
  <2>1. UNCHANGED accepted
    BY <1>1, Zenon
  <2> QED
    BY <1>2, <2>1, MovingUpKeepsLoads, Zenon DEF Parcelled
<1>4. \A e, id, i : InBox(e, id, i)' <=> InBox(e, id, i)
  BY <1>1, Zenon DEF InBox
<1>5. \A e, y, i : InStream(e, y, i)' <=> InStream(e, y, i)
  BY <1>1, Zenon DEF InStream, Stream
<1>6. \A e : Meant(e, d)' <=> Meant(e, d)
  BY <1>1, Zenon DEF Meant
<1>7. ASSUME NEW e, NEW f, Meant(e, d), Meant(f, d), Ahead(e, f)' PROVE Ahead(e, f)
  <2>1. (Boxed(f)' => Boxed(f)) /\ (Streamed(e)' => Streamed(e))
    BY <1>4, <1>5, Zenon DEF Boxed, Streamed
  <2>2. CASE \E id, i, k : InBox(e, id, i)' /\ InBox(f, id, k)' /\ i < k
    BY <1>4, <2>2, Zenon DEF Ahead
  <2>3. CASE \E t, j, i, k : InParcel(e, t, j, i)' /\ InParcel(f, t, j, k)' /\ i < k
    BY <1>3, <1>7, <2>3, Zenon
  <2>4. CASE \E y, i, k : InStream(e, y, i)' /\ InStream(f, y, k)' /\ i < k
    BY <1>5, <2>4, Zenon DEF Ahead
  <2> QED
    BY <1>3, <1>7, <2>1, <2>2, <2>3, <2>4, Zenon DEF Ahead
<1>8. InOrder(d)'
  BY <1>6, <1>7, Zenon DEF Orderly, InOrder, Later
<1> QED
  BY <1>3, <1>8, Zenon DEF Orderly

\* The first event of a delivery goes to the end of the stream.
LEMMA DeliveringKeepsOrder ==
  ASSUME PlaceInv, NEW c \in Connections, DeliverEvent(c), NEW d, Orderly(d)
  PROVE  Orderly(d)'
<1>1. PICK h \in Connections, x \in Events :
        /\ InParcel(x, c, 1, 1)
        /\ \A y \in Connections : IF y = h THEN Extends(Stream(y)', Stream(y), x)
                                           ELSE Stream(y)' = Stream(y)
        /\ MovedUp(c)
  BY DeliveringMoves, ZenonT(60)
<1>2. UNCHANGED outboxes /\ UNCHANGED accepted
  BY Zenon DEF DeliverEvent, historyVars
<1>3. PICK last : last = Len(Stream(h))
  BY Zenon
<1>4. last \in Nat
  <2>1. written[h] \in Seq(Events) /\ queue[h] \in Seq(Events)
    BY Zenon DEF PlaceInv, MailInv, QueueInv
  <2> QED
    BY <1>3, <2>1, ConcatProperties, LenProperties DEF Stream
<1>5. /\ PeerCarries(d)' /\ OneLoad(d)'
      /\ \A e : Parcelled(e)' => Parcelled(e)
      /\ \A e, f, t, j, i, k :
           Meant(e, d) /\ Meant(f, d) /\ InParcel(e, t, j, i)' /\ InParcel(f, t, j, k)' /\ i < k
             => Ahead(e, f)
      /\ \A f : Meant(x, d) /\ Meant(f, d) /\ Parcelled(f)' => Ahead(x, f)
  BY <1>1, <1>2, MovingUpKeepsLoads, Zenon DEF Parcelled
<1>6. \A e, id, i : InBox(e, id, i)' <=> InBox(e, id, i)
  BY <1>2, Zenon DEF InBox
<1>7. ASSUME NEW e, NEW y, NEW i, InStream(e, y, i)'
      PROVE  InStream(e, y, i) \/ (e = x /\ y = h /\ i = last + 1)
  <2>1. y \in Connections /\ i \in 1..Len(Stream(y)') /\ Stream(y)'[i] = e
    BY <1>7, Zenon DEF InStream
  <2>2. CASE y = h
    BY <1>1, <1>3, <2>1, <2>2, Zenon DEF Extends, InStream
  <2>3. CASE y # h
    BY <1>1, <2>1, <2>3, Zenon DEF InStream
  <2> QED
    BY <2>2, <2>3, Zenon
<1>8. \A e : Meant(e, d)' <=> Meant(e, d)
  BY <1>2, Zenon DEF Meant
<1>9. \A e, i : InStream(e, h, i) => ~(last + 1 < i)
  <2>1. \A i \in 1..last : ~(last + 1 < i)
    BY <1>4
  <2> QED
    BY <1>3, <2>1, Zenon DEF InStream
<1>10. Parcelled(x) /\ ~(last + 1 < last + 1)
  BY <1>1, <1>4, SMT DEF Parcelled
<1>11. ASSUME NEW e, NEW f, Meant(e, d), Meant(f, d), Ahead(e, f)' PROVE Ahead(e, f)
  <2>1. Boxed(f)' => Boxed(f)
    BY <1>6, Zenon DEF Boxed
  <2>2. Streamed(e)' => Streamed(e) \/ e = x
    BY <1>7, Zenon DEF Streamed
  <2>3. CASE \E id, i, k : InBox(e, id, i)' /\ InBox(f, id, k)' /\ i < k
    BY <1>6, <2>3, Zenon DEF Ahead
  <2>4. CASE \E t, j, i, k : InParcel(e, t, j, i)' /\ InParcel(f, t, j, k)' /\ i < k
    BY <1>5, <1>11, <2>4, Zenon
  <2>5. ASSUME NEW y, NEW i, NEW k, InStream(e, y, i)', InStream(f, y, k)', i < k
        PROVE  Ahead(e, f)
    <3>0. /\ InStream(e, y, i) \/ (e = x /\ y = h /\ i = last + 1)
          /\ InStream(f, y, k) \/ (f = x /\ y = h /\ k = last + 1)
      <4>1. InStream(e, y, i) \/ (e = x /\ y = h /\ i = last + 1)
        BY <1>7, <2>5, Zenon
      <4>2. InStream(f, y, k) \/ (f = x /\ y = h /\ k = last + 1)
        BY <1>7, <2>5, Zenon
      <4> QED
        BY <4>1, <4>2, Zenon
    <3>1. CASE e = x /\ y = h /\ i = last + 1
      <4>1. InStream(f, h, k) \/ k = last + 1
        BY <3>0, <3>1, Zenon
      <4> QED
        BY <1>9, <1>10, <2>5, <3>1, <4>1, Zenon
    <3>2. CASE InStream(e, y, i) /\ InStream(f, y, k)
      BY <2>5, <3>2, Zenon DEF Ahead
    <3>3. CASE InStream(e, y, i) /\ f = x
      BY <1>10, <3>3, Zenon DEF Ahead, Streamed
    <3> QED
      BY <3>0, <3>1, <3>2, <3>3, Zenon
  <2>6. CASE Streamed(e)' /\ (Parcelled(f)' \/ Boxed(f)')
    <3>1. CASE Streamed(e)
      BY <1>5, <2>1, <2>6, <3>1, Zenon DEF Ahead
    <3>2. CASE e = x /\ Boxed(f)'
      BY <1>10, <2>1, <3>2, Zenon DEF Ahead
    <3>3. CASE e = x /\ Parcelled(f)'
      BY <1>5, <1>11, <3>3, Zenon
    <3> QED
      BY <2>2, <2>6, <3>1, <3>2, <3>3, Zenon
  <2>7. CASE Parcelled(e)' /\ Boxed(f)'
    BY <1>5, <2>1, <2>7, Zenon DEF Ahead
  <2> QED
    BY <1>11, <2>3, <2>4, <2>5, <2>6, <2>7, Zenon DEF Ahead
<1>12. InOrder(d)'
  BY <1>8, <1>11, Zenon DEF Orderly, InOrder, Later
<1> QED
  BY <1>5, <1>12, Zenon DEF Orderly

\* What waits in an outbox, or is carried, is for a connection that has the id.
LEMMA WaitsForOwner ==
  ASSUME PlaceInv, NEW d \in Connections, NEW e, Meant(e, d), NEW id, NEW i, InBox(e, id, i)
  PROVE  id = HelloId[d] /\ Registered(d)
<1>1. id \in DOMAIN outboxes /\ i \in 1..Len(outboxes[id]) /\ outboxes[id][i] = e
  BY Zenon DEF InBox
<1>2. PICK o \in Connections : Registered(o) /\ HelloId[o] = id
  BY <1>1, Zenon DEF PlaceInv, MailInv, BoxInv, OwnerInv, Connected
<1>3. outboxes[id] \in Seq(Mail(o))
  BY <1>2, Zenon DEF PlaceInv, MailInv, BoxInv
<1>4. e \in Mail(o)
  BY <1>1, <1>3, PlacesOfRange, ElementsOfSeq, Zenon
<1>5. \E a \in accepted : a.event = e /\ a.for = o
  BY <1>4, Zenon DEF Mail, Meant, CarriesEvent
<1>6. o = d
  BY <1>5, Zenon DEF Meant, PlaceInv, TagInv
<1> QED
  BY <1>2, <1>6, Zenon

\* A task takes what waits for d only if its client is the peer of d, and then no task
\* carries anything for d.
LEMMA DrainingTakesAll ==
  ASSUME PlaceInv, FlushInv, TwoClients, NoneToSelf,
         NEW c \in Connections, NEW taken, pc[c] = "flush", Drained(c, taken),
         NEW d \in Connections, Silent(d), PeerCarries(d),
         NEW e, Meant(e, d), NEW j \in 1..Len(taken), NEW i, InBox(e, taken[j].client_id, i)
  PROVE  /\ taken[j].client_id = HelloId[d] /\ HelloId[c] # HelloId[d]
         /\ \A f, t, k, l : Meant(f, d) => ~InParcel(f, t, k, l)
<1>1. taken[j].client_id = HelloId[d] /\ Registered(d) /\ Registered(c)
  BY WaitsForOwner, Zenon DEF Registered
<1>2. OwnerInv /\ HandInv /\ ParcelInv
  BY Zenon DEF PlaceInv, MailInv
<1>3. HelloId[c] # HelloId[d]
  <2>1. PICK e0 \in event[c] : \A m \in 1..Len(taken) :
          \/ taken[m].client_id = e0.to
          \/ e0.type # "PeerKey" /\ taken[m].client_id = HelloId[c]
    BY Zenon DEF Drained
  <2>2. CASE taken[j].client_id = e0.to
    BY <1>1, <2>2, Zenon DEF NoneToSelf
  <2>3. CASE e0.type # "PeerKey" /\ taken[j].client_id = HelloId[c]
    <3>1. c = d
      BY <1>1, <1>2, <2>3, Zenon DEF OwnerInv
    <3> QED
      BY <2>3, <3>1, Zenon DEF FlushInv
  <2> QED
    BY <2>1, <2>2, <2>3, Zenon
<1>4. ASSUME NEW f, NEW t, NEW k, NEW l, Meant(f, d), InParcel(f, t, k, l) PROVE FALSE
  <2>1. HelloId[t] # HelloId[d] /\ t \in Connections /\ k \in 1..Len(deliveries[t])
    BY <1>4, Zenon DEF PeerCarries, InParcel
  <2>2. HelloId[t] = HelloId[c]
    BY <1>3, <2>1, HelloIdIsClient, Zenon DEF TwoClients
  <2>3. deliveries[t] # <<>>
    <3>1. ASSUME deliveries[t] = <<>> PROVE FALSE
      <4>1. k \in 1..Len(<<>>)
        BY <2>1, <3>1, Zenon
      <4> QED
        BY <4>1
    <3> QED
      BY <3>1, Zenon
  <2>4. pc[t] \in {"deliver", "remove"}
    BY <1>2, <2>1, <2>3, Zenon DEF HandInv
  <2>5. Registered(t)
    BY <2>4, Zenon DEF Registered
  <2>6. t = c
    BY <1>1, <1>2, <2>1, <2>2, <2>5, Zenon DEF OwnerInv
  <2> QED
    BY <2>4, <2>6
<1> QED
  BY <1>1, <1>3, <1>4, Zenon

\* An outbox becomes one delivery, in its order.
LEMMA DrainingKeepsOrder ==
  ASSUME PlaceInv, FlushInv, TwoClients, NoneToSelf, NEW c \in Connections, DrainTargets(c),
         NEW d \in Connections, Silent(d), Orderly(d)
  PROVE  Orderly(d)'
<1>1. PICK taken : Drained(c, taken)
  BY DrainFacts, Zenon DEF PlaceInv
<1>2. pc[c] = "flush" /\ UNCHANGED <<queue, written, accepted>> /\ PeerCarries(d)
  BY Zenon DEF DrainTargets, channelVars, historyVars, Orderly
<1>3. \A e : Meant(e, d)' <=> Meant(e, d)
  BY <1>2, Zenon DEF Meant
<1>4. ASSUME NEW e
      PROVE  /\ \A id, i : InBox(e, id, i)' =>
                  InBox(e, id, i) /\ \A j \in 1..Len(taken) : taken[j].client_id # id
             /\ \A t, j, i : InParcel(e, t, j, i)' =>
                  \/ t # c /\ InParcel(e, t, j, i)
                  \/ t = c /\ j \in 1..Len(taken) /\ InBox(e, taken[j].client_id, i)
  BY <1>1, <1>2, DrainingMoves, Zenon
<1>5. ASSUME NEW e, Meant(e, d), NEW j \in 1..Len(taken), NEW i, InBox(e, taken[j].client_id, i)
      PROVE  /\ taken[j].client_id = HelloId[d] /\ HelloId[c] # HelloId[d]
             /\ \A f, t, k, l : Meant(f, d) => ~InParcel(f, t, k, l)
  BY <1>1, <1>2, <1>5, DrainingTakesAll, Zenon
<1>6. PeerCarries(d)'
  <2> SUFFICES ASSUME NEW e, NEW t, NEW j, NEW i, Meant(e, d), InParcel(e, t, j, i)'
               PROVE  HelloId[t] # HelloId[d]
    BY <1>3, Zenon DEF PeerCarries
  <2>1. CASE InParcel(e, t, j, i)
    BY <1>2, <2>1, Zenon DEF PeerCarries
  <2>2. CASE t = c /\ j \in 1..Len(taken) /\ InBox(e, taken[j].client_id, i)
    BY <1>5, <2>2, Zenon
  <2> QED
    BY <1>4, <2>1, <2>2, Zenon
<1>7. OneLoad(d)'
  <2> SUFFICES ASSUME NEW e, NEW f, NEW t, NEW u, NEW j, NEW k, NEW i, NEW l,
                      Meant(e, d), Meant(f, d), InParcel(e, t, j, i)', InParcel(f, u, k, l)'
               PROVE  t = u /\ j = k
    BY <1>3, SMT DEF OneLoad
  <2>1. \/ InParcel(e, t, j, i)
        \/ t = c /\ j \in 1..Len(taken) /\ InBox(e, taken[j].client_id, i)
    BY <1>4, Zenon
  <2>2. \/ InParcel(f, u, k, l)
        \/ u = c /\ k \in 1..Len(taken) /\ InBox(f, taken[k].client_id, l)
    BY <1>4, Zenon
  <2>3. CASE InParcel(e, t, j, i) /\ InParcel(f, u, k, l)
    BY <2>3, Zenon DEF Orderly, OneLoad
  <2>4. CASE /\ t = c /\ j \in 1..Len(taken) /\ InBox(e, taken[j].client_id, i)
             /\ u = c /\ k \in 1..Len(taken) /\ InBox(f, taken[k].client_id, l)
    <3>1. taken[j].client_id = HelloId[d] /\ taken[k].client_id = HelloId[d]
      BY <1>5, <2>4, Zenon
    <3> QED
      BY <1>1, <2>4, <3>1, Zenon DEF Drained
  <2> QED
    BY <1>5, <2>1, <2>2, <2>3, <2>4, Zenon
<1>8. \A e, y, i : InStream(e, y, i)' <=> InStream(e, y, i)
  BY <1>2, Zenon DEF InStream, Stream
<1>9. ASSUME NEW e, NEW f, Meant(e, d), Meant(f, d), Ahead(e, f)' PROVE Ahead(e, f)
  <2>1. /\ Boxed(f)' => Boxed(f)
        /\ Parcelled(f)' => Parcelled(f) \/ Boxed(f)
        /\ Streamed(e)' => Streamed(e)
    BY <1>4, <1>8, Zenon DEF Boxed, Parcelled, Streamed
  <2>2. CASE \E id, i, k : InBox(e, id, i)' /\ InBox(f, id, k)' /\ i < k
    BY <1>4, <2>2, Zenon DEF Ahead
  <2>3. ASSUME NEW t, NEW j, NEW i, NEW k, InParcel(e, t, j, i)', InParcel(f, t, j, k)', i < k
        PROVE  Ahead(e, f)
    <3>1. \/ t # c /\ InParcel(e, t, j, i)
          \/ t = c /\ j \in 1..Len(taken) /\ InBox(e, taken[j].client_id, i)
      BY <1>4, <2>3, Zenon
    <3>2. \/ t # c /\ InParcel(f, t, j, k)
          \/ t = c /\ j \in 1..Len(taken) /\ InBox(f, taken[j].client_id, k)
      BY <1>4, <2>3, Zenon
    <3> QED
      BY <2>3, <3>1, <3>2, Zenon DEF Ahead
  <2>4. CASE \E y, i, k : InStream(e, y, i)' /\ InStream(f, y, k)' /\ i < k
    BY <1>8, <2>4, Zenon DEF Ahead
  <2>5. CASE Parcelled(e)' /\ Boxed(f)'
    <3>1. PICK t, j, i : InParcel(e, t, j, i)'
      BY <2>5, Zenon DEF Parcelled
    <3>2. PICK id, k : InBox(f, id, k)'
      BY <2>5, Zenon DEF Boxed
    <3>3. InBox(f, id, k) /\ \A m \in 1..Len(taken) : taken[m].client_id # id
      BY <1>4, <3>2, Zenon
    <3>4. id = HelloId[d]
      BY <1>9, <3>3, WaitsForOwner, Zenon
    <3>5. CASE InParcel(e, t, j, i)
      BY <2>1, <2>5, <3>5, Zenon DEF Ahead, Parcelled
    <3>6. CASE j \in 1..Len(taken) /\ InBox(e, taken[j].client_id, i)
      BY <1>5, <1>9, <3>3, <3>4, <3>6, Zenon
    <3> QED
      BY <1>4, <3>1, <3>5, <3>6, Zenon
  <2> QED
    BY <1>9, <2>1, <2>2, <2>3, <2>4, <2>5, Zenon DEF Ahead
<1>10. InOrder(d)'
  BY <1>3, <1>9, Zenon DEF Orderly, InOrder, Later
<1> QED
  BY <1>6, <1>7, <1>10, Zenon DEF Orderly

\* What is routed goes behind all that waits, and has a later tag than all of its sender.
LEMMA RoutingKeepsOrder ==
  ASSUME PlaceInv, NEW c \in Connections, RouteAccepted(c), NEW d \in Connections, Orderly(d)
  PROVE  Orderly(d)'
<1>1. PICK e \in event[c] :
        /\ RouteEvent(HelloId[c], e) /\ accepted' = accepted \cup Addressed(c, e)
        /\ e \in Requests /\ e.tag = <<c, received[c]>> /\ e.type \in {"PeerKey", "EncryptedMessage"}
        /\ Connected(HelloId[c]) /\ Connected(e.to)
        /\ \A a \in accepted : a.event.tag # e.tag
        /\ \A a \in Addressed(c, e) : a.event = e \/ a.event = Ack(e)
  BY RoutingFacts, SMTT(30)
<1>2. /\ UNCHANGED <<deliveries, queue, written>> /\ MailInv /\ TagInv /\ RestInv
  BY Zenon DEF RouteAccepted, taskVars, channelVars, PlaceInv, MailInv
<1>3. Ack(e).tag = e.tag /\ Ack(e).type = "Ack"
  BY DEF Ack
<1>4. e.type # "Error" /\ \A a \in accepted : a.event # e /\ a.event # Ack(e)
  BY <1>1, <1>3, Zenon
<1>5. PICK n, m : BoxesGrow(c, e, n, m)
  BY <1>1, <1>2, RoutingMoves, Zenon
<1>6. \A y, t, j, i : InParcel(y, t, j, i)' <=> InParcel(y, t, j, i)
  BY <1>2, Zenon DEF InParcel
<1>7. \A y, x, i : InStream(y, x, i)' <=> InStream(y, x, i)
  BY <1>2, Zenon DEF InStream, Stream
<1>8. ~Boxed(e) /\ ~Parcelled(e) /\ ~Streamed(e)
  BY <1>2, <1>4, NewIsNowhere, Zenon
<1>9. \A y : Meant(y, d)' => Meant(y, d) \/ y = e
  BY <1>1, <1>3, Zenon DEF Meant, CarriesEvent
<1>10. \A y : Meant(y, d) => y # e /\ y # Ack(e)
  BY <1>4, Zenon DEF Meant
<1>11. ASSUME NEW y, Meant(y, d) PROVE \A id, i : InBox(y, id, i)' => InBox(y, id, i)
  BY <1>5, <1>10, <1>11, Zenon DEF BoxesGrow
<1>12. \A id, i : InBox(e, id, i)' => id = e.to /\ i = n
  <2>1. e # Ack(e)
    BY <1>1, <1>3, Zenon
  <2> QED
    BY <1>5, <1>8, <2>1, Zenon DEF BoxesGrow, Boxed
<1>13. PeerCarries(d)'
  BY <1>6, <1>8, <1>9, Zenon DEF Orderly, PeerCarries, Parcelled
<1>14. OneLoad(d)'
  <2> SUFFICES ASSUME NEW y, NEW f, NEW t, NEW u, NEW j, NEW k, NEW i, NEW l,
                      Meant(y, d)', Meant(f, d)', InParcel(y, t, j, i), InParcel(f, u, k, l)
               PROVE  t = u /\ j = k
    BY <1>6, SMT DEF OneLoad
  <2>1. Meant(y, d) /\ Meant(f, d)
    BY <1>8, <1>9, Zenon DEF Parcelled
  <2> QED
    BY <2>1, Zenon DEF Orderly, OneLoad
<1>15. ASSUME NEW y, NEW f, Meant(y, d), Meant(f, d), Ahead(y, f)' PROVE Ahead(y, f)
  <2>1. /\ Boxed(f)' => Boxed(f)
        /\ Parcelled(f)' => Parcelled(f)
        /\ Parcelled(y)' => Parcelled(y)
        /\ Streamed(y)' => Streamed(y)
    BY <1>6, <1>7, <1>11, <1>15, Zenon DEF Boxed, Parcelled, Streamed
  <2>2. CASE \E id, i, k : InBox(y, id, i)' /\ InBox(f, id, k)' /\ i < k
    BY <1>11, <1>15, <2>2, Zenon DEF Ahead
  <2>3. CASE \E t, j, i, k : InParcel(y, t, j, i)' /\ InParcel(f, t, j, k)' /\ i < k
    BY <1>6, <2>3, Zenon DEF Ahead
  <2>4. CASE \E x, i, k : InStream(y, x, i)' /\ InStream(f, x, k)' /\ i < k
    BY <1>7, <2>4, Zenon DEF Ahead
  <2> QED
    BY <1>15, <2>1, <2>2, <2>3, <2>4, Zenon DEF Ahead
<1>16. ASSUME NEW f, Meant(f, d)', Ahead(e, f)' PROVE FALSE
  <2>1. ~Parcelled(e)' /\ ~Streamed(e)'
    BY <1>6, <1>7, <1>8, Zenon DEF Parcelled, Streamed
  <2>2. PICK id, i, k : InBox(e, id, i)' /\ InBox(f, id, k)' /\ i < k
    BY <1>16, <2>1, Zenon DEF Ahead, Parcelled, Streamed
  <2>3. id = e.to /\ i = n
    BY <1>12, <2>2, Zenon
  <2>4. CASE f = e
    <3>0. InBox(e, id, k)'
      BY <2>2, <2>4, Zenon DEF InBox
    <3>1. i = k
      BY <1>12, <2>3, <3>0, Zenon
    <3>2. k \in 1..Len(outboxes[id])'
      BY <2>2, Zenon DEF InBox
    <3> QED
      BY <2>2, <3>1, <3>2, SMT
  <2>5. CASE Meant(f, d)
    BY <1>5, <1>11, <2>2, <2>3, <2>5, Zenon DEF BoxesGrow
  <2> QED
    BY <1>9, <1>16, <2>4, <2>5, Zenon
<1>17. ASSUME NEW y, Meant(y, d) PROVE Later(y, e)
  <2>1. PICK a \in accepted : a.event = y
    BY <1>17, Zenon DEF Meant
  <2>2. a.event.tag[2] <= received[a.event.tag[1]] /\ a.event.tag # <<c, received[c]>>
    BY <1>1, <1>2, Zenon DEF TagInv
  <2>3. a.event \in Events
    BY <1>2, Zenon DEF RestInv
  <2>4. y.tag \in Connections \X (1..MaxReceived)
    BY <2>1, <2>3, Zenon DEF Events, Tags
  <2>5. received[c] \in 0..MaxReceived
    BY <1>2, Zenon DEF RestInv
  <2>6. e.tag[1] = c /\ e.tag[2] = received[c]
    BY <1>1
  <2>7. ASSUME y.tag[1] = c PROVE y.tag[2] < received[c]
    <3>1. y.tag[2] <= received[c] /\ y.tag # <<c, received[c]>>
      BY <2>1, <2>2, <2>7, Zenon
    <3> QED
      BY <2>4, <2>5, <2>7, <3>1, BoundIsNat, SMT
  <2> QED
    BY <2>6, <2>7, Zenon DEF Later
<1>18. InOrder(d)'
  <2> SUFFICES ASSUME NEW y, NEW f, Meant(y, d)', Meant(f, d)', Ahead(y, f)' PROVE Later(y, f)
    BY Zenon DEF InOrder, Later
  <2>1. CASE Meant(y, d) /\ Meant(f, d)
    BY <1>15, <2>1, Zenon DEF Orderly, InOrder
  <2>2. CASE y = e
    BY <1>16, <2>2, Zenon
  <2>3. CASE Meant(y, d) /\ f = e
    BY <1>17, <2>3, Zenon
  <2> QED
    BY <1>9, <2>1, <2>2, <2>3, Zenon
<1> QED
  BY <1>13, <1>14, <1>18, Zenon DEF Orderly

\* A task flushes what it has routed, and its event is the one it received last.
LEMMA OnlyRoutingFlushes ==
  ASSUME PlaceInv, [Next]_vars, NEW d \in Connections
  PROVE  /\ pc'[d] = "flush" => pc[d] = "flush" \/ RouteAccepted(d)
         /\ event'[d] \subseteq event[d] \/ (ReceiveEvent(d) /\ pc'[d] = "route")
<1>0. pc \in [Connections -> Labels] /\ event \in [Connections -> SUBSET Requests]
  BY Zenon DEF PlaceInv, MailInv, OwnerInv, RestInv
<1>1. CASE UNCHANGED vars
  BY <1>1, Zenon DEF vars, taskVars
<1>2. ASSUME NEW c \in Connections, Task(c) \/ LeaveLoop(c) \/ Socket(c)
      PROVE  /\ pc'[d] = "flush" => pc[d] = "flush" \/ RouteAccepted(d)
             /\ event'[d] \subseteq event[d] \/ (ReceiveEvent(d) /\ pc'[d] = "route")
  <2>1. \/ UNCHANGED pc \/ RouteAccepted(c)
        \/ \E l \in Labels \ {"flush"} : pc' = [pc EXCEPT ![c] = l]
    <3>1. CASE Quiet(c)
      <4>1. \E l \in Labels \ {"deliver", "remove", "route", "flush"} : pc' = [pc EXCEPT ![c] = l]
        BY <3>1, QuietFacts, Zenon DEF PlaceInv
      <4> QED
        BY <4>1, Zenon
    <3>2. CASE \/ ReportError(c) \/ Write(c) \/ WriterEnds(c) \/ Register(c) \/ ReceiveEvent(c)
               \/ DeliveryFails(c)
      <4>1. {"loop", "insert", "route", "remove"} \subseteq Labels \ {"flush"}
        BY DEF Labels
      <4> QED
        BY <3>2, <4>1, Zenon
           DEF ReportError, Write, WriterEnds, Register, ReceiveEvent, DeliveryFails, Goto
    <3>3. CASE Disconnect(c)
      <4>1. PICK l : l = IF Connected(HelloId[c]) THEN "on_disconnect" ELSE "closed"
        BY Zenon
      <4>2. l \in Labels \ {"flush"}
        BY <4>1 DEF Labels
      <4> QED
        BY <3>3, <4>1, <4>2, Zenon DEF Disconnect, Goto
    <3>4. CASE DrainTargets(c)
      <4>1. PICK taken : Drained(c, taken)
        BY <3>4, DrainFacts, Zenon DEF PlaceInv
      <4>2. PICK l : l = IF taken = <<>> THEN "loop" ELSE "deliver"
        BY Zenon
      <4>3. l \in Labels \ {"flush"}
        BY <4>2 DEF Labels
      <4> QED
        BY <4>1, <4>2, <4>3, Zenon DEF Drained
    <3>5. CASE DeliverEvent(c) \/ RemoveHandle(c)
      <4>1. UNCHANGED pc \/ NextDelivery(c)
        BY <3>5, Zenon DEF DeliverEvent, RemoveHandle
      <4>2. PICK l : l = IF Len(deliveries[c]) = 1 THEN "loop" ELSE "deliver"
        BY Zenon
      <4>3. l \in Labels \ {"flush"}
        BY <4>2 DEF Labels
      <4> QED
        BY <4>1, <4>2, <4>3, Zenon DEF NextDelivery, Goto
    <3> QED
      BY <1>2, <3>1, <3>2, <3>3, <3>4, <3>5, Zenon DEF Task, Socket, Quiet
  <2>2. pc'[d] = "flush" => pc[d] = "flush" \/ RouteAccepted(d)
    <3>1. CASE d = c
      BY <1>0, <2>1, <3>1, Zenon
    <3>2. CASE d # c
      BY <1>0, <2>1, <3>2, Zenon DEF RouteAccepted, Goto
    <3> QED
      BY <3>1, <3>2, Zenon
  <2>3. event' \in {event, [event EXCEPT ![c] = {}]} \/ ReceiveEvent(c)
    BY <1>2, Zenon DEF Task, Socket, Authorize, RefuseDuplicate, Register, InsertHandle, OnConnect,
       RouteAccepted, RouteRejected, ReportError, DrainTargets, DeliverEvent, DeliveryFails,
       RemoveHandle, Unregister, Disconnect, OnDisconnect, LeaveLoop, ReadHello, NoHello, Reject,
       SocketEnds, Write, WriterEnds, Return, taskVars
  <2>4. CASE event' \in {event, [event EXCEPT ![c] = {}]}
    BY <1>0, <2>2, <2>4, Zenon
  <2>5. CASE ReceiveEvent(c)
    <3>1. pc' = [pc EXCEPT ![c] = "route"] /\ \E S : event' = [event EXCEPT ![c] = S]
      BY <2>5, Zenon DEF ReceiveEvent, Goto
    <3> QED
      BY <1>0, <2>2, <2>5, <3>1, Zenon
  <2> QED
    BY <2>3, <2>4, <2>5, Zenon
<1> QED
  BY <1>1, <1>2, Zenon DEF Next

\* An Ack is made for an envelope that a task has in hand.
LEMMA AcksAreMade ==
  ASSUME PlaceInv, NEW c \in Connections, RouteAccepted(c)
  PROVE  /\ accepted \subseteq accepted'
         /\ \A a \in accepted' : a.event.type = "Ack" =>
              a \in accepted \/ (/\ \E e \in event[c] : e.type = "EncryptedMessage"
                                 /\ a.event.tag = <<c, received[c]>>)
         /\ \E e \in event[c] : e.type # "PeerKey" => ~Silent(c)'
<1>1. PICK e \in event[c] :
        /\ accepted' = accepted \cup Addressed(c, e)
        /\ e.tag = <<c, received[c]>> /\ e.type \in {"PeerKey", "EncryptedMessage"}
  BY RoutingFacts, Zenon
<1>2. Ack(e).tag = e.tag /\ Ack(e).type = "Ack"
  BY DEF Ack
<1>3. ASSUME NEW a \in Addressed(c, e), a.event.type = "Ack"
      PROVE  e.type = "EncryptedMessage" /\ a.event.tag = <<c, received[c]>>
  <2>0. PICK v : v = (connections[e.to] # {})
    BY Zenon
  <2>1. PICK w : w = (connections[HelloId[c]] # {})
    BY Zenon
  <2>2. \/ \E r \in Owner(e.to) : a = [event |-> e, for |-> r, reachable |-> v]
        \/ \E k \in Range(AckFor(e)) : a = [event |-> k, for |-> c, reachable |-> w]
    BY <1>3, <2>0, <2>1, Zenon DEF Addressed
  <2>3. a.event = e \/ a.event \in Range(AckFor(e))
    <3>1. ASSUME NEW r \in Owner(e.to), a = [event |-> e, for |-> r, reachable |-> v]
          PROVE  a.event = e
      BY <3>1, Zenon
    <3>2. ASSUME NEW k \in Range(AckFor(e)), a = [event |-> k, for |-> c, reachable |-> w]
          PROVE  a.event \in Range(AckFor(e))
      BY <3>2, Zenon
    <3> QED
      BY <2>2, <3>1, <3>2, Zenon
  <2>4. a.event \in Range(AckFor(e))
    BY <1>1, <1>3, <2>3, Zenon
  <2>5. e.type = "EncryptedMessage" /\ a.event = Ack(e)
    BY <2>4 DEF AckFor, Range
  <2> QED
    BY <1>1, <1>2, <2>5, Zenon
<1>4. ASSUME e.type # "PeerKey" PROVE ~Silent(c)'
  <2>1. Ack(e) \in Range(AckFor(e))
    BY <1>1, <1>4 DEF AckFor, Range
  <2>2. PICK w : w = (connections[HelloId[c]] # {})
    BY Zenon
  <2>3. PICK a : a = [event |-> Ack(e), for |-> c, reachable |-> w]
    BY Zenon
  <2>4. a \in Addressed(c, e) /\ a.event = Ack(e)
    BY <2>1, <2>2, <2>3, Zenon DEF Addressed
  <2>5. e.tag[1] = c
    BY <1>1
  <2> QED
    BY <1>1, <1>2, <2>4, <2>5, Zenon DEF Silent
<1> QED
  BY <1>1, <1>3, <1>4, Zenon

\* A step moves nothing, or it is one of four.
LEMMA WhatMoves ==
  ASSUME PlaceInv, [Next]_vars
  PROVE  \/ Staying
         \/ \E c \in Connections :
              RouteAccepted(c) \/ DrainTargets(c) \/ DeliverEvent(c) \/ RemoveHandle(c)
<1>0. MailInv
  BY Zenon DEF PlaceInv
<1>1. CASE UNCHANGED vars
  <2>1. UNCHANGED <<outboxes, deliveries, queue, accepted, written>>
    BY <1>1, Zenon DEF vars, taskVars, channelVars, historyVars
  <2>2. \A d \in Connections : Stream(d)' = Stream(d)
    BY <2>1, Zenon DEF Stream
  <2> QED
    BY <2>1, <2>2, NothingMoves, Zenon
<1>2. ASSUME NEW c \in Connections, Quiet(c) \/ ReceiveEvent(c) \/ DeliveryFails(c)
      PROVE  Staying
  <2>1. CASE Quiet(c)
    <3>1. UNCHANGED <<outboxes, deliveries, queue, accepted, written>>
      BY <1>0, <2>1, QuietFacts, Zenon
    <3>2. \A d \in Connections : Stream(d)' = Stream(d)
      BY <3>1, Zenon DEF Stream
    <3> QED
      BY <3>1, <3>2, NothingMoves, Zenon
  <2>2. CASE ReceiveEvent(c) \/ DeliveryFails(c)
    <3>1. UNCHANGED <<outboxes, deliveries, queue, accepted, written>>
      BY <2>2, Zenon DEF ReceiveEvent, DeliveryFails, taskVars, channelVars, historyVars
    <3>2. \A d \in Connections : Stream(d)' = Stream(d)
      BY <3>1, Zenon DEF Stream
    <3> QED
      BY <3>1, <3>2, NothingMoves, Zenon
  <2> QED
    BY <1>2, <2>1, <2>2, Zenon
<1>3. ASSUME NEW c \in Connections,
             \/ ReportError(c) \/ Write(c) \/ WriterEnds(c) \/ Register(c) \/ Disconnect(c)
      PROVE  Staying
  BY <1>0, <1>3, ChannelStepsMoveNothing, RegistrationMovesNothing, Zenon
<1> QED
  BY <1>1, <1>2, <1>3, Zenon DEF Next, Task, Socket, Quiet

\* Every step keeps the order, as long as there are two clients who write to each other.
LEMMA OrderInvNext ==
  ASSUME PlaceInv, OrderInv, TwoClients, NoneToSelf, [Next]_vars
  PROVE  OrderInv'
<1>1. FlushInv /\ accepted \subseteq accepted'
  BY OnlyRoutingAccepts, AcksAreMade, Zenon DEF OrderInv
<1>2. \A c : Silent(c)' => Silent(c)
  BY <1>1, Zenon DEF Silent
<1>3. ASSUME NEW d \in Connections, Silent(d)' PROVE Orderly(d)'
  <2>1. Silent(d) /\ Orderly(d)
    BY <1>2, <1>3, Zenon DEF OrderInv
  <2>2. CASE Staying
    BY <2>1, <2>2, StayingKeepsOrder, Zenon
  <2>3. ASSUME NEW c \in Connections,
               RouteAccepted(c) \/ DrainTargets(c) \/ DeliverEvent(c) \/ RemoveHandle(c)
        PROVE  Orderly(d)'
    BY <1>1, <2>1, <2>3, RoutingKeepsOrder, DrainingKeepsOrder, DeliveringKeepsOrder,
       RemovingKeepsOrder, Zenon
  <2> QED
    BY <2>2, <2>3, WhatMoves, Zenon
<1>4. ASSUME NEW c \in Connections PROVE \A e, f \in event'[c] : e = f
  <2>1. CASE event'[c] \subseteq event[c]
    BY <1>1, <2>1, Zenon DEF FlushInv
  <2>2. CASE ReceiveEvent(c)
    <3>1. event \in [Connections -> SUBSET Requests]
      BY Zenon DEF PlaceInv, MailInv, RestInv
    <3>2. \E x : event' = [event EXCEPT ![c] = {x}]
      BY <2>2, Zenon DEF ReceiveEvent
    <3> QED
      BY <3>1, <3>2, Zenon
  <2> QED
    BY <2>1, <2>2, OnlyRoutingFlushes, Zenon
<1>5. ASSUME NEW c \in Connections, pc'[c] = "flush", NEW e \in event'[c], e.type # "PeerKey"
      PROVE  ~Silent(c)'
  <2>1. event'[c] \subseteq event[c]
    BY <1>5, OnlyRoutingFlushes, Zenon
  <2>2. CASE pc[c] = "flush"
    BY <1>1, <1>2, <1>5, <2>1, <2>2, Zenon DEF FlushInv
  <2>3. CASE RouteAccepted(c)
    <3>1. PICK f \in event[c] : f.type # "PeerKey" => ~Silent(c)'
      BY <2>3, AcksAreMade, Zenon
    <3>2. f = e
      BY <1>1, <2>1, Zenon DEF FlushInv
    <3> QED
      BY <1>5, <3>1, <3>2, Zenon
  <2> QED
    BY <1>5, <2>2, <2>3, OnlyRoutingFlushes, Zenon
<1>6. FlushInv'
  BY <1>4, <1>5, Zenon DEF FlushInv
<1> QED
  BY <1>3, <1>6, Zenon DEF OrderInv

\* The frames of a stream are in the order of their tags, until its client is owed an Ack.
LEMMA StreamInOrder ==
  ASSUME PlaceInv, OrderInv, NEW c \in Connections, Silent(c),
         NEW i \in 1..Len(Stream(c)), NEW j \in 1..Len(Stream(c)), i < j,
         CarriesEvent(Stream(c)[i]), CarriesEvent(Stream(c)[j])
  PROVE  Later(Stream(c)[i], Stream(c)[j])
<1>1. Stream(c) \in Seq(Mail(c))
  BY DEF PlaceInv, MailInv, QueueInv, Stream
<1>2. PICK e : e = Stream(c)[i]
  BY Zenon
<1>3. PICK f : f = Stream(c)[j]
  BY Zenon
<1>4. e \in Mail(c) /\ f \in Mail(c)
  BY <1>1, <1>2, <1>3
<1>5. Meant(e, c) /\ Meant(f, c)
  BY <1>2, <1>3, <1>4, Zenon DEF Meant, Mail, CarriesEvent
<1>6. Ahead(e, f)
  <2>1. InStream(e, c, i) /\ InStream(f, c, j)
    BY <1>2, <1>3, Zenon DEF InStream
  <2> QED
    BY <2>1, Zenon DEF Ahead
<1>7. InOrder(c)
  BY Zenon DEF OrderInv, Orderly
<1> QED
  BY <1>2, <1>3, <1>5, <1>6, <1>7, Zenon DEF InOrder
=============================================================================
