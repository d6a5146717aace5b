--------------------------- MODULE DeliveryProofs ---------------------------
(***************************************************************************)
(* The relay implements the abstract one of module Delivery, for any       *)
(* number of clients, connections and events.                              *)
(***************************************************************************)
EXTENDS PlaceProofs

-----------------------------------------------------------------------------
(* The relay keeps the promise of module Delivery.                         *)

InLoop == {"loop", "route", "report", "flush", "deliver", "remove"}
Gone == {"unregister", "disconnect", "on_disconnect", "closed"}

\* A connection on its way out does not come back: only the owner of an id puts a handle
\* into the map, before its loop starts (register_client).
LEMMA LeavingGrows == OwnerInv /\ RestInv /\ [Next]_vars => Leaving \subseteq Leaving'
<1> SUFFICES ASSUME OwnerInv, RestInv, [Next]_vars, NEW d \in Connections, Ending(d)
             PROVE  Ending(d)'
  BY Zenon DEF Leaving
<1>0. /\ pc \in [Connections -> Labels] /\ connections \in [ClientIds -> SUBSET Connections]
      /\ receiver \in [Connections -> BOOLEAN] /\ close \in [Connections -> BOOLEAN]
      /\ HelloId[d] \in ClientIds
  BY HelloIdIsClient, Zenon DEF OwnerInv, RestInv
<1>1. CASE UNCHANGED vars
  BY <1>1, Zenon DEF vars, channelVars, Ending
<1>2. ASSUME NEW c \in Connections, Task(c) \/ LeaveLoop(c) \/ Socket(c) PROVE Ending(d)'
  <2>1. close' = close \/ \E h : close' = [close EXCEPT ![h] = TRUE]
    BY <1>2, Zenon DEF Task, Socket, Authorize, RefuseDuplicate, Register, InsertHandle, OnConnect,
       RouteAccepted, RouteRejected, ReportError, DrainTargets, DeliverEvent, DeliveryFails,
       RemoveHandle, Unregister, Disconnect, OnDisconnect, ReadHello, NoHello, Reject, ReceiveEvent,
       SocketEnds, Write, WriterEnds, LeaveLoop, Return, channelVars
  <2>2. receiver' = receiver \/ receiver' = [receiver EXCEPT ![c] = FALSE]
    BY <1>2, Zenon DEF Task, Socket, Authorize, RefuseDuplicate, Register, InsertHandle, OnConnect,
       RouteAccepted, RouteRejected, ReportError, DrainTargets, DeliverEvent, DeliveryFails,
       RemoveHandle, Unregister, Disconnect, OnDisconnect, ReadHello, NoHello, Reject, ReceiveEvent,
       SocketEnds, Write, WriterEnds, LeaveLoop, Return, channelVars
  <2>3. \/ connections' = connections
        \/ \E id : connections' = [connections EXCEPT ![id] = {}]
        \/ pc[c] = "insert" /\ connections' = [connections EXCEPT ![HelloId[c]] = {c}]
    BY <1>2, Zenon DEF Task, Socket, Authorize, RefuseDuplicate, Register, InsertHandle, OnConnect,
       RouteAccepted, RouteRejected, ReportError, DrainTargets, DeliverEvent, DeliveryFails,
       RemoveHandle, Unregister, Disconnect, OnDisconnect, ReadHello, NoHello, Reject, ReceiveEvent,
       SocketEnds, Write, WriterEnds, LeaveLoop, Return
  <2>4. \/ pc' = pc
        \/ /\ pc[c] \notin InLoop \cup Gone
           /\ \E l : pc' = [pc EXCEPT ![c] = l]
        \/ /\ pc[c] \in InLoop
           /\ \E l \in InLoop \cup Gone : pc' = [pc EXCEPT ![c] = l]
        \/ \E l \in Gone : pc' = [pc EXCEPT ![c] = l]
    BY <1>2 DEF Task, Socket, Authorize, RefuseDuplicate, Register, InsertHandle, OnConnect,
       RouteAccepted, RouteRejected, ReportError, DrainTargets, DeliverEvent, DeliveryFails,
       RemoveHandle, Unregister, Disconnect, OnDisconnect, ReadHello, NoHello, Reject, ReceiveEvent,
       SocketEnds, Write, WriterEnds, LeaveLoop, Return, NextDelivery, Goto, InLoop, Gone
  <2>5. close[d] => close'[d]
    BY <1>0, <2>1, Zenon
  <2>6. ~receiver[d] => ~receiver'[d]
    BY <1>0, <2>2, Zenon
  <2>7. pc[d] \in Gone => pc'[d] \in Gone
    BY <1>0, <2>4 DEF InLoop, Gone
  <2>8. pc[d] \in InLoop => pc'[d] \in InLoop \cup Gone
    BY <1>0, <2>4, Zenon
  <2>9. pc[d] \in InLoop /\ connections[HelloId[d]] # {d} => connections'[HelloId[d]] # {d}
    <3> SUFFICES ASSUME pc[d] \in InLoop, connections[HelloId[d]] # {d}
                 PROVE  connections'[HelloId[d]] # {d}
      BY Zenon
    <3>1. CASE pc[c] = "insert" /\ connections' = [connections EXCEPT ![HelloId[c]] = {c}]
      <4>1. c # d /\ Registered(c) /\ Registered(d)
        BY <3>1, Zenon DEF InLoop, Registered
      <4>2. HelloId[c] # HelloId[d]
        BY <4>1, Zenon DEF OwnerInv
      <4> QED
        BY <1>0, <3>1, <4>2, Zenon
    <3>2. CASE \E id : connections' = [connections EXCEPT ![id] = {}]
      <4>1. connections'[HelloId[d]] \in {{}, connections[HelloId[d]]}
        BY <1>0, <3>2, Zenon
      <4> QED
        BY <4>1, Zenon
    <3> QED
      BY <2>3, <3>1, <3>2, Zenon
  <2> QED
    BY <2>5, <2>6, <2>7, <2>8, <2>9, Zenon DEF Ending, InLoop, Gone
<1> QED
  BY <1>1, <1>2, Zenon DEF Next

\* What is due, by place.
DueAt ==
    \A p : p \in Due <=>
             \E a \in accepted : /\ p = [event |-> a.event, for |-> a.for]
                                 /\ OnWay(a.event, a.for)

\* What is due to a connection is what is on its way to it.
LEMMA DuePlaces == MailInv => DueAt
<1> SUFFICES ASSUME MailInv, NEW p
             PROVE  p \in Due <=>
                      \E a \in accepted : /\ p = [event |-> a.event, for |-> a.for]
                                          /\ OnWay(a.event, a.for)
  BY Zenon DEF DueAt
<1>1. \A a \in accepted : a.for \in Connections
  BY DEF MailInv, RestInv
<1>2. \A a \in accepted : a.event \in InTransit(a.for) <=> OnWay(a.event, a.for)
  BY <1>1, TransitPlaces, Zenon DEF TransitAt
<1> QED
  BY <1>2, Zenon DEF Due

\* The same after a step.
LEMMA DuePlacesNext == (MailInv => DueAt)'
  BY DuePlaces, PTL

\* A step that puts no event on its way, and loses one only with its connection.
TransitKept ==
    \A y \in Connections : \A e : e.type # "Error" =>
        /\ OnWay(e, y)' => OnWay(e, y)
        /\ OnWay(e, y) => OnWay(e, y)' \/ Ending(y)'

\* Such a step is a Leave of the abstract relay.
LEMMA KeepingLeaves ==
  ASSUME PlaceInv, MailInv', Leaving \subseteq Leaving', UNCHANGED <<accepted, written>>, TransitKept
  PROVE  Promise!Leave
<1>1. \A a \in accepted : a.for \in Connections /\ a.event.type # "Error"
  <2>1. \A a \in accepted : a.for \in Connections
    BY DEF PlaceInv, MailInv, RestInv
  <2> QED
    BY <2>1, Zenon DEF PlaceInv, TagInv
<1>2. DueAt /\ DueAt'
  BY DuePlaces, DuePlacesNext, Zenon DEF PlaceInv
<1>3. Due' \subseteq Due
  <2> SUFFICES ASSUME NEW p \in Due' PROVE p \in Due
    BY Zenon
  <2>1. PICK a \in accepted : p = [event |-> a.event, for |-> a.for] /\ OnWay(a.event, a.for)'
    BY <1>2, Zenon DEF DueAt
  <2>2. OnWay(a.event, a.for)
    BY <1>1, <2>1, Zenon DEF TransitKept
  <2> QED
    BY <1>2, <2>1, <2>2, Zenon DEF DueAt
<1>4. ASSUME NEW p \in Due \ Due' PROVE p.for \in Leaving'
  <2>1. PICK a \in accepted : p = [event |-> a.event, for |-> a.for] /\ OnWay(a.event, a.for)
    BY <1>2, Zenon DEF DueAt
  <2>2. ~OnWay(a.event, a.for)'
    BY <1>2, <2>1, Zenon DEF DueAt
  <2>3. Ending(a.for)' /\ a.for \in Connections /\ p.for = a.for
    BY <1>1, <2>1, <2>2, Zenon DEF TransitKept
  <2> QED
    BY <2>3, Zenon DEF Leaving
<1> QED
  BY <1>3, <1>4, Zenon DEF Promise!Leave

\* A step that touches neither the outboxes, nor the deliveries, nor the channels.
LEMMA NothingInTransitMoves ==
  ASSUME UNCHANGED <<outboxes, deliveries, queue>>,
         \A d \in Connections : Registered(d)' <=> Registered(d)
  PROVE  TransitKept
<1> SUFFICES ASSUME NEW y \in Connections, NEW e PROVE OnWay(e, y)' <=> OnWay(e, y)
  BY Zenon DEF TransitKept
<1>1. Carried(e, y)' <=> Carried(e, y)
  BY Zenon DEF Carried, InParcel
<1>2. Queued(e, y)' <=> Queued(e, y)
  BY Zenon DEF Queued
<1>3. Waiting(e, y)' <=> Waiting(e, y)
  BY Zenon DEF Waiting, InBox
<1> QED
  BY <1>1, <1>2, <1>3, Zenon DEF OnWay

\* The steps on the channel of c other than a delivery or a write.
LEMMA ChannelStepsKeepTransit ==
  ASSUME PlaceInv, NEW c \in Connections, ReportError(c) \/ WriterEnds(c)
  PROVE  TransitKept
<1>0. /\ UNCHANGED <<outboxes, deliveries>> /\ queue \in [Connections -> Seq(Events)]
      /\ receiver \in [Connections -> BOOLEAN] /\ pc \in [Connections -> Labels]
  BY Zenon DEF ReportError, WriterEnds, taskVars, PlaceInv, MailInv, QueueInv, RestInv, OwnerInv
<1>1. \A d \in Connections : Registered(d)' <=> Registered(d)
  <2>1. UNCHANGED pc \/ (pc[c] = "report" /\ pc' = [pc EXCEPT ![c] = "loop"])
    BY Zenon DEF ReportError, WriterEnds, Goto
  <2> QED
    BY <1>0, <2>1 DEF Registered
<1> SUFFICES ASSUME NEW y \in Connections, NEW e, e.type # "Error"
             PROVE  /\ OnWay(e, y)' => OnWay(e, y)
                    /\ OnWay(e, y) => OnWay(e, y)' \/ Ending(y)'
  BY Zenon DEF TransitKept
<1>2. Carried(e, y)' <=> Carried(e, y)
  BY <1>0, Zenon DEF Carried, InParcel
<1>3. Waiting(e, y)' <=> Waiting(e, y)
  BY <1>0, <1>1, Zenon DEF Waiting, InBox
<1>4. CASE queue'[y] = queue[y]
  BY <1>2, <1>3, <1>4, Zenon DEF OnWay, Queued
<1>5. CASE ReportError(c) /\ queue'[y] # queue[y]
  <2>1. PICK x \in event[c] :
          queue' = IF Accepting(c)
                   THEN [queue EXCEPT ![c] = Append(@, [type |-> "Error", tag |-> x.tag])]
                   ELSE queue
    BY <1>5, ZenonT(60) DEF ReportError
  <2> DEFINE error == [type |-> "Error", tag |-> x.tag]
  <2>2. error \in Events /\ error.type = "Error"
    BY DEF PlaceInv, MailInv, RestInv, Requests, Events
  <2>3. queue'[y] = Append(queue[y], error)
    BY <1>0, <1>5, <2>1, Zenon
  <2> HIDE DEF error
  <2>4. Grown(queue'[y], queue[y], error)
    BY <1>0, <2>2, <2>3, AppendGrows, Zenon
  <2>5. Queued(e, y)' <=> Queued(e, y)
    BY <2>2, <2>4, Zenon DEF Queued, Grown, Extends
  <2> QED
    BY <1>2, <1>3, <2>5, Zenon DEF OnWay
<1>6. CASE WriterEnds(c) /\ queue'[y] # queue[y]
  <2>1. queue' = [queue EXCEPT ![c] = <<>>] /\ receiver' = [receiver EXCEPT ![c] = FALSE]
    BY <1>6, Zenon DEF WriterEnds
  <2>2. queue'[y] = <<>> /\ ~receiver'[y]
    BY <1>0, <1>6, <2>1, Zenon
  <2>3. ~Queued(e, y)'
    <3>1. ASSUME NEW i \in 1..Len(<<>>) PROVE FALSE
      OBVIOUS
    <3> QED
      BY <2>2, <3>1, Zenon DEF Queued
  <2> QED
    BY <1>2, <1>3, <2>2, <2>3, Zenon DEF OnWay, Ending
<1> QED
  BY <1>4, <1>5, <1>6, Zenon

\* An id is given away with an empty outbox.
LEMMA RegisterKeepsTransit ==
  ASSUME PlaceInv, NEW c \in Connections, Register(c)
  PROVE  TransitKept
<1>1. /\ pc[c] = "register" /\ pc' = [pc EXCEPT ![c] = "insert"] /\ ~Connected(HelloId[c])
      /\ UNCHANGED <<deliveries, queue>>
      /\ outboxes' = [k \in DOMAIN outboxes \cup {HelloId[c]} |->
                        IF k = HelloId[c] THEN <<>> ELSE outboxes[k]]
  BY Zenon DEF Register, ConnectId, Goto, taskVars, channelVars
<1>2. pc \in [Connections -> Labels] /\ OwnerInv
  BY Zenon DEF PlaceInv, MailInv, OwnerInv
<1>3. ~Registered(c) /\ \A d \in Connections : d # c => (Registered(d)' <=> Registered(d))
  BY <1>1, <1>2 DEF Registered
<1>4. \A d \in Connections : Registered(d) => HelloId[d] # HelloId[c]
  BY <1>1, <1>2, HelloIdIsClient, Zenon DEF OwnerInv
<1> SUFFICES ASSUME NEW y \in Connections, NEW e PROVE OnWay(e, y)' <=> OnWay(e, y)
  BY Zenon DEF TransitKept
<1>5. Carried(e, y)' <=> Carried(e, y)
  BY <1>1, Zenon DEF Carried, InParcel
<1>6. Queued(e, y)' <=> Queued(e, y)
  BY <1>1, Zenon DEF Queued
<1>7. Waiting(e, y)' <=> Waiting(e, y)
  <2>1. CASE y = c
    <3>1. ASSUME NEW i, InBox(e, HelloId[c], i)' PROVE FALSE
      <4>1. outboxes'[HelloId[c]] = <<>>
        BY <1>1, Zenon
      <4>2. i \in 1..Len(<<>>)
        BY <3>1, <4>1, Zenon DEF InBox
      <4> QED
        BY <4>2
    <3> QED
      BY <1>3, <2>1, <3>1, Zenon DEF Waiting
  <2>2. CASE y # c
    <3>1. Registered(y) => \A i : InBox(e, HelloId[y], i)' <=> InBox(e, HelloId[y], i)
      BY <1>1, <1>4, Zenon DEF InBox
    <3> QED
      BY <1>3, <2>2, <3>1, Zenon DEF Waiting
  <2> QED
    BY <2>1, <2>2, Zenon
<1> QED
  BY <1>5, <1>6, <1>7, Zenon DEF OnWay

\* An outbox is lost with the connection that owned it.
LEMMA DisconnectKeepsTransit ==
  ASSUME PlaceInv, NEW c \in Connections, Disconnect(c)
  PROVE  TransitKept
<1>1. /\ pc[c] = "disconnect" /\ UNCHANGED <<deliveries, queue>>
      /\ outboxes' = [k \in DOMAIN outboxes \ {HelloId[c]} |-> outboxes[k]]
  BY Zenon DEF Disconnect, DisconnectId, Restrict, taskVars, channelVars
<1>2. PICK l \in {"on_disconnect", "closed"} : pc' = [pc EXCEPT ![c] = l]
  BY Zenon DEF Disconnect, Goto
<1>3. pc \in [Connections -> Labels] /\ OwnerInv
  BY Zenon DEF PlaceInv, MailInv, OwnerInv
<1>4. /\ Registered(c) /\ ~Registered(c)' /\ Ending(c)'
      /\ \A d \in Connections : d # c => (Registered(d)' <=> Registered(d))
  BY <1>1, <1>2, <1>3 DEF Registered, Ending
<1>5. \A d \in Connections : d # c /\ Registered(d) => HelloId[d] # HelloId[c]
  BY <1>3, <1>4, Zenon DEF OwnerInv
<1> SUFFICES ASSUME NEW y \in Connections, NEW e
             PROVE  /\ OnWay(e, y)' => OnWay(e, y)
                    /\ OnWay(e, y) => OnWay(e, y)' \/ Ending(y)'
  BY Zenon DEF TransitKept
<1>6. Carried(e, y)' <=> Carried(e, y)
  BY <1>1, Zenon DEF Carried, InParcel
<1>7. Queued(e, y)' <=> Queued(e, y)
  BY <1>1, Zenon DEF Queued
<1>8. CASE y = c
  BY <1>4, <1>6, <1>7, <1>8, Zenon DEF OnWay, Waiting
<1>9. CASE y # c
  <2>1. Registered(y) => \A i : InBox(e, HelloId[y], i)' <=> InBox(e, HelloId[y], i)
    BY <1>1, <1>5, <1>9, Zenon DEF InBox
  <2>2. Waiting(e, y)' <=> Waiting(e, y)
    BY <1>4, <1>9, <2>1, Zenon DEF Waiting
  <2> QED
    BY <1>6, <1>7, <2>2, Zenon DEF OnWay
<1> QED
  BY <1>8, <1>9, Zenon

\* What is taken out of an outbox is carried to the owner of that outbox.
LEMMA DrainingKeepsTransit ==
  ASSUME PlaceInv, NEW c \in Connections, DrainTargets(c)
  PROVE  TransitKept
<1>1. PICK taken : Drained(c, taken)
  BY DrainFacts, Zenon DEF PlaceInv
<1>2. pc[c] = "flush" /\ UNCHANGED queue
  BY Zenon DEF DrainTargets, channelVars
<1>3. /\ pc \in [Connections -> Labels] /\ deliveries \in [Connections -> Seq(Parcels)] /\ OwnerInv
      /\ BoxInv
  BY Zenon DEF PlaceInv, MailInv, OwnerInv, ParcelInv
<1>4. deliveries[c] = <<>>
  BY <1>2, Zenon DEF PlaceInv, HandInv
<1>5. deliveries'[c] = taken /\ \A t \in Connections : t # c => deliveries'[t] = deliveries[t]
  BY <1>1, <1>3, Zenon DEF Drained
<1>6. \A d \in Connections : Registered(d)' <=> Registered(d)
  <2>1. \E l \in {"loop", "deliver"} : pc' = [pc EXCEPT ![c] = l]
    BY <1>1, Zenon DEF Drained
  <2> QED
    BY <1>2, <1>3, <2>1 DEF Registered
<1>7. ASSUME NEW j \in 1..Len(taken), NEW y \in Connections
      PROVE  taken[j].handle = y <=> Registered(y) /\ HelloId[y] = taken[j].client_id
  <2>1. Whole(taken[j])
    BY <1>1, Zenon DEF Drained
  <2> DEFINE id == taken[j].client_id
             h == taken[j].handle
  <2>2. id \in ClientIds /\ h \in connections[id]
    BY <1>3, <2>1, Zenon DEF Whole, BoxInv
  <2> HIDE DEF id, h
  <2>3. h \in Connections /\ InMap(h) /\ HelloId[h] = id
    BY <1>3, <2>2, SMT DEF OwnerInv
  <2>4. Registered(h)
    BY <2>3, Zenon DEF InMap, Registered
  <2> USE DEF id, h
  <2> QED
    BY <1>3, <2>3, <2>4, Zenon DEF OwnerInv
<1> SUFFICES ASSUME NEW y \in Connections, NEW e PROVE OnWay(e, y)' <=> OnWay(e, y)
  BY Zenon DEF TransitKept
<1>8. Queued(e, y)' <=> Queued(e, y)
  BY <1>2, Zenon DEF Queued
<1>9. ASSUME Waiting(e, y)' PROVE OnWay(e, y)
  BY <1>1, <1>2, <1>6, <1>9, DrainingMoves, ZenonT(60) DEF Waiting, OnWay
<1>10. ASSUME NEW t, NEW j, NEW i, InParcel(e, t, j, i)', deliveries'[t][j].handle = y
       PROVE  OnWay(e, y)
  <2>1. CASE t # c /\ InParcel(e, t, j, i)
    <3>1. deliveries[t][j].handle = y
      BY <1>5, <1>10, <2>1, Zenon DEF InParcel
    <3> QED
      BY <2>1, <3>1, Zenon DEF Carried, OnWay
  <2>2. CASE t = c /\ j \in 1..Len(taken) /\ InBox(e, taken[j].client_id, i)
    <3>1. Registered(y) /\ HelloId[y] = taken[j].client_id
      BY <1>5, <1>7, <1>10, <2>2, Zenon
    <3> QED
      BY <2>2, <3>1, Zenon DEF Waiting, OnWay
  <2>3. \A u, k, l : InParcel(e, u, k, l)' =>
          \/ u # c /\ InParcel(e, u, k, l)
          \/ u = c /\ k \in 1..Len(taken) /\ InBox(e, taken[k].client_id, l)
    BY <1>1, <1>2, DrainingMoves, Zenon
  <2> QED
    BY <1>10, <2>1, <2>2, <2>3, Zenon
<1>11. ASSUME NEW i, Registered(y), InBox(e, HelloId[y], i)
       PROVE  OnWay(e, y)'
  <2> DEFINE id == HelloId[y]
  <2>1. id \in DOMAIN outboxes /\ i \in 1..Len(outboxes[id]) /\ outboxes[id][i] = e
    BY <1>11, Zenon DEF InBox
  <2>2. CASE \E j \in 1..Len(taken) : taken[j].client_id = id
    <3>1. PICK j \in 1..Len(taken) : taken[j].client_id = id
      BY <2>2, Zenon
    <3>2. Whole(taken[j]) /\ taken[j].handle = y
      BY <1>1, <1>7, <1>11, <3>1, Zenon DEF Drained
    <3>3. InParcel(e, c, j, i)' /\ deliveries'[c][j].handle = y
      BY <1>5, <2>1, <3>1, <3>2, Zenon DEF InParcel, Whole
    <3> QED
      BY <3>3, Zenon DEF OnWay, Carried
  <2>3. CASE ~\E j \in 1..Len(taken) : taken[j].client_id = id
    <3>1. id \in DOMAIN outboxes' /\ outboxes'[id] = outboxes[id]
      BY <1>1, <2>1, <2>3, Zenon DEF Drained
    <3>2. InBox(e, id, i)'
      BY <2>1, <3>1, Zenon DEF InBox
    <3> QED
      BY <1>6, <1>11, <3>2, Zenon DEF OnWay, Waiting
  <2> QED
    BY <2>2, <2>3, Zenon
<1>12. ASSUME NEW t, NEW j, NEW i, InParcel(e, t, j, i), deliveries[t][j].handle = y
       PROVE  OnWay(e, y)'
  <2>1. t # c
    <3>1. ASSUME t = c PROVE FALSE
      <4>1. j \in 1..Len(<<>>)
        BY <1>4, <1>12, <3>1, Zenon DEF InParcel
      <4> QED
        BY <4>1
    <3> QED
      BY <3>1, Zenon
  <2>2. InParcel(e, t, j, i)' /\ deliveries'[t][j].handle = y
    BY <1>5, <1>12, <2>1, Zenon DEF InParcel
  <2> QED
    BY <2>2, Zenon DEF OnWay, Carried
<1>13. OnWay(e, y)' => OnWay(e, y)
  BY <1>8, <1>9, <1>10, Zenon DEF OnWay, Carried
<1>14. OnWay(e, y) => OnWay(e, y)'
  BY <1>8, <1>11, <1>12, Zenon DEF OnWay, Carried, Waiting
<1> QED
  BY <1>13, <1>14, Zenon

\* Dropping the first delivery of c takes only what is in it from those who carry.
LEMMA NextDeliveryCarries ==
  ASSUME PlaceInv, NEW c \in Connections, pc[c] \in {"deliver", "remove"}, NextDelivery(c),
         NEW e, NEW y
  PROVE  /\ Carried(e, y)' => Carried(e, y)
         /\ Carried(e, y) => \/ Carried(e, y)'
                             \/ y = deliveries[c][1].handle /\ \E i : InParcel(e, c, 1, i)
<1>1. /\ deliveries \in [Connections -> Seq(Parcels)]
      /\ deliveries' = [deliveries EXCEPT ![c] = Tail(deliveries[c])]
  BY Zenon DEF PlaceInv, MailInv, ParcelInv, NextDelivery
<1>2. deliveries[c] \in Seq(Parcels) /\ deliveries[c] # <<>> /\ Len(deliveries[c]) \in Nat \ {0}
  BY FirstDelivery, Zenon DEF PlaceInv
<1>3. /\ Len(Tail(deliveries[c])) = Len(deliveries[c]) - 1
      /\ \A j \in 1..Len(Tail(deliveries[c])) : Tail(deliveries[c])[j] = deliveries[c][j + 1]
  BY <1>2, HeadTailProperties
<1>4. deliveries'[c] = Tail(deliveries[c]) /\ \A t \in Connections : t # c => deliveries'[t] = deliveries[t]
  BY <1>1, Zenon
<1>5. ASSUME NEW t, NEW j, NEW i, InParcel(e, t, j, i)', deliveries'[t][j].handle = y
      PROVE  Carried(e, y)
  <2>1. CASE t = c
    <3>1. j + 1 \in 1..Len(deliveries[c]) /\ deliveries'[c][j] = deliveries[c][j + 1]
      <4>1. j \in 1..Len(Tail(deliveries[c]))
        BY <1>4, <1>5, <2>1, Zenon DEF InParcel
      <4> QED
        BY <1>2, <1>3, <1>4, <4>1
    <3>2. InParcel(e, c, j + 1, i) /\ deliveries[c][j + 1].handle = y
      BY <1>5, <2>1, <3>1, Zenon DEF InParcel
    <3> QED
      BY <3>2, Zenon DEF Carried
  <2>2. CASE t # c
    BY <1>4, <1>5, <2>2, Zenon DEF InParcel, Carried
  <2> QED
    BY <2>1, <2>2, Zenon
<1>6. ASSUME NEW t, NEW j, NEW i, InParcel(e, t, j, i), deliveries[t][j].handle = y
      PROVE  Carried(e, y)' \/ (y = deliveries[c][1].handle /\ \E k : InParcel(e, c, 1, k))
  <2>1. CASE t = c /\ j # 1
    <3>1. PICK k \in 1..Len(Tail(deliveries[c])) : k + 1 = j
      <4>1. j \in 1..Len(deliveries[c])
        BY <1>6, <2>1, Zenon DEF InParcel
      <4>2. j - 1 \in 1..Len(Tail(deliveries[c])) /\ (j - 1) + 1 = j
        BY <1>2, <1>3, <2>1, <4>1
      <4> QED
        BY <4>2, Zenon
    <3>2. deliveries'[c][k] = deliveries[c][j] /\ k \in 1..Len(deliveries'[c])
      BY <1>3, <1>4, <3>1, Zenon
    <3>3. InParcel(e, c, k, i)' /\ deliveries'[c][k].handle = y
      BY <1>6, <2>1, <3>2, Zenon DEF InParcel
    <3> QED
      BY <3>3, Zenon DEF Carried
  <2>2. CASE t = c /\ j = 1
    BY <1>6, <2>2, Zenon
  <2>3. CASE t # c
    <3>1. InParcel(e, t, j, i)' /\ deliveries'[t][j].handle = y
      BY <1>4, <1>6, <2>3, Zenon DEF InParcel
    <3> QED
      BY <3>1, Zenon DEF Carried
  <2> QED
    BY <2>1, <2>2, <2>3, Zenon
<1>7. Carried(e, y)' => Carried(e, y)
  BY <1>5, Zenon DEF Carried
<1>8. Carried(e, y) => \/ Carried(e, y)'
                       \/ y = deliveries[c][1].handle /\ \E i : InParcel(e, c, 1, i)
  <2> SUFFICES ASSUME NEW t, NEW j, NEW i, InParcel(e, t, j, i), deliveries[t][j].handle = y
               PROVE  Carried(e, y)' \/ (y = deliveries[c][1].handle /\ \E k : InParcel(e, c, 1, k))
    BY Zenon DEF Carried
  <2> QED
    BY <1>6, Zenon
<1> QED
  BY <1>7, <1>8, Zenon

\* A delivery that is given up was for a connection told to close.
LEMMA RemovingKeepsTransit ==
  ASSUME PlaceInv, NEW c \in Connections, RemoveHandle(c)
  PROVE  TransitKept
<1>1. /\ pc[c] = "remove" /\ NextDelivery(c) /\ UNCHANGED <<outboxes, queue, close>>
  BY Zenon DEF RemoveHandle, channelVars
<1>2. pc \in [Connections -> Labels] /\ MailInv
  BY Zenon DEF PlaceInv, MailInv, OwnerInv
<1>3. \A d \in Connections : Registered(d)' <=> Registered(d)
  <2>1. \E l \in {"loop", "deliver"} : pc' = [pc EXCEPT ![c] = l]
    BY <1>1, Zenon DEF NextDelivery, Goto
  <2> QED
    BY <1>1, <1>2, <2>1 DEF Registered
<1>4. close[deliveries[c][1].handle]
  <2>1. Head(deliveries[c]) = deliveries[c][1]
    BY <1>1, <1>2, FirstDelivery, Zenon
  <2> QED
    BY <1>1, <2>1, Zenon DEF PlaceInv, HandInv
<1> SUFFICES ASSUME NEW y \in Connections, NEW e
             PROVE  /\ OnWay(e, y)' => OnWay(e, y)
                    /\ OnWay(e, y) => OnWay(e, y)' \/ Ending(y)'
  BY Zenon DEF TransitKept
<1>5. Queued(e, y)' <=> Queued(e, y)
  BY <1>1, Zenon DEF Queued
<1>6. Waiting(e, y)' <=> Waiting(e, y)
  BY <1>1, <1>3, Zenon DEF Waiting, InBox
<1>7. Carried(e, y)' => Carried(e, y)
  BY <1>1, NextDeliveryCarries, Zenon
<1>8. Carried(e, y) => Carried(e, y)' \/ y = deliveries[c][1].handle
  BY <1>1, NextDeliveryCarries, Zenon
<1>9. y = deliveries[c][1].handle => Ending(y)'
  BY <1>1, <1>4, Zenon DEF Ending
<1> QED
  BY <1>5, <1>6, <1>7, <1>8, <1>9, Zenon DEF OnWay

\* The event at a place of a delivery to y.
CarriedAt(e, y, t, j, i) == InParcel(e, t, j, i) /\ deliveries[t][j].handle = y

\* Taking the first event out of the first delivery of c.
LEMMA ShorterDeliveryCarries ==
  ASSUME PlaceInv, NEW c \in Connections, pc[c] = "deliver",
         deliveries' = [deliveries EXCEPT ![c][1].events = Tail(@)], NEW e, NEW y
  PROVE  /\ Carried(e, y)' => Carried(e, y)
         /\ Carried(e, y) => \/ Carried(e, y)'
                             \/ y = deliveries[c][1].handle /\ InParcel(e, c, 1, 1)
<1> DEFINE d == deliveries[c][1]
           rest == [d EXCEPT !.events = Tail(d.events)]
<1>1. /\ deliveries \in [Connections -> Seq(Parcels)]
      /\ deliveries[c] \in Seq(Parcels) /\ Len(deliveries[c]) \in Nat \ {0}
      /\ d \in Parcels /\ d.events \in Seq(Events) /\ d.events # <<>>
      /\ Len(d.events) \in Nat \ {0}
  BY FirstDelivery, Zenon DEF PlaceInv, MailInv, ParcelInv
<1>2. 1 \in 1..Len(deliveries[c]) /\ DOMAIN deliveries[c] = 1..Len(deliveries[c])
  BY <1>1
<1>3. deliveries' = [deliveries EXCEPT ![c] = [deliveries[c] EXCEPT ![1] = rest]]
  BY <1>1, <1>2, Zenon
<1>4. rest.events = Tail(d.events) /\ rest.handle = d.handle
  <2>1. d \in [handle : Connections, client_id : ClientIds, events : Seq(Events)]
    BY <1>1, Zenon DEF Parcels
  <2> QED
    BY <2>1, Zenon
<1>5. /\ Len(Tail(d.events)) = Len(d.events) - 1
      /\ \A i \in 1..Len(Tail(d.events)) : Tail(d.events)[i] = d.events[i + 1]
  BY <1>1, HeadTailProperties
<1> HIDE DEF rest
<1>6. /\ deliveries'[c] = [deliveries[c] EXCEPT ![1] = rest]
      /\ \A t \in Connections : t # c => deliveries'[t] = deliveries[t]
  BY <1>1, <1>3, Zenon
<1>7. /\ Len(deliveries'[c]) = Len(deliveries[c]) /\ deliveries'[c][1] = rest
      /\ \A j \in 1..Len(deliveries[c]) : j # 1 => deliveries'[c][j] = deliveries[c][j]
  BY <1>1, <1>2, <1>6, SMTT(30)
<1>8. \A t, j, i : t # c \/ j # 1 => (CarriedAt(e, y, t, j, i)' <=> CarriedAt(e, y, t, j, i))
  <2> SUFFICES ASSUME NEW t, NEW j, NEW i, t # c \/ j # 1
               PROVE  CarriedAt(e, y, t, j, i)' <=> CarriedAt(e, y, t, j, i)
    BY Zenon
  <2>0. CASE t \notin Connections
    BY <2>0, Zenon DEF CarriedAt, InParcel
  <2>1. CASE t \in Connections /\ t # c
    <3>1. deliveries'[t] = deliveries[t]
      BY <1>6, <2>1, Zenon
    <3> QED
      BY <3>1, Zenon DEF CarriedAt, InParcel
  <2>2. CASE t = c /\ j \in 1..Len(deliveries[c])
    <3>1. deliveries'[c][j] = deliveries[c][j]
      BY <1>7, <2>2, Zenon
    <3> QED
      BY <1>7, <2>2, <3>1, Zenon DEF CarriedAt, InParcel
  <2>3. CASE t = c /\ j \notin 1..Len(deliveries[c])
    BY <1>7, <2>3, Zenon DEF CarriedAt, InParcel
  <2> QED
    BY <2>0, <2>1, <2>2, <2>3, Zenon
<1>9. ASSUME NEW i, InParcel(e, c, 1, i)' PROVE InParcel(e, c, 1, i + 1)
  <2>1. i \in 1..Len(Tail(d.events)) /\ Tail(d.events)[i] = e
    BY <1>4, <1>7, <1>9, Zenon DEF InParcel
  <2>2. i + 1 \in 1..Len(d.events) /\ d.events[i + 1] = e
    BY <1>1, <1>5, <2>1
  <2> QED
    BY <1>2, <2>2, Zenon DEF InParcel
<1>10. ASSUME NEW i, InParcel(e, c, 1, i), i # 1 PROVE \E k : InParcel(e, c, 1, k)'
  <2>1. i \in 1..Len(d.events) /\ d.events[i] = e
    BY <1>10, Zenon DEF InParcel
  <2>2. i - 1 \in 1..Len(Tail(d.events)) /\ (i - 1) + 1 = i
    BY <1>1, <1>5, <1>10, <2>1, SMTT(30)
  <2>3. PICK k : k \in 1..Len(Tail(d.events)) /\ k + 1 = i
    BY <2>2, Zenon
  <2>4. Tail(d.events)[k] = e
    BY <1>5, <2>1, <2>3, Zenon
  <2>5. InParcel(e, c, 1, k)'
    BY <1>2, <1>4, <1>7, <2>3, <2>4, Zenon DEF InParcel
  <2> QED
    BY <2>5, Zenon
<1>11. deliveries'[c][1].handle = deliveries[c][1].handle
  BY <1>4, <1>7, Zenon
<1> HIDE DEF d
<1>12. Carried(e, y)' => Carried(e, y)
  <2> SUFFICES ASSUME NEW t, NEW j, NEW i, InParcel(e, t, j, i)', deliveries'[t][j].handle = y
               PROVE  Carried(e, y)
    BY Zenon DEF Carried
  <2>1. CASE t = c /\ j = 1
    BY <1>9, <1>11, <2>1, Zenon DEF Carried
  <2>2. CASE t # c \/ j # 1
    <3>1. CarriedAt(e, y, t, j, i)'
      BY Zenon DEF CarriedAt
    <3>2. CarriedAt(e, y, t, j, i)
      BY <1>8, <2>2, <3>1, Zenon
    <3> QED
      BY <3>2, Zenon DEF Carried, CarriedAt
  <2> QED
    BY <2>1, <2>2, Zenon
<1>13. Carried(e, y) => Carried(e, y)' \/ (y = deliveries[c][1].handle /\ InParcel(e, c, 1, 1))
  <2> SUFFICES ASSUME NEW t, NEW j, NEW i, InParcel(e, t, j, i), deliveries[t][j].handle = y
               PROVE  Carried(e, y)' \/ (y = deliveries[c][1].handle /\ InParcel(e, c, 1, 1))
    BY Zenon DEF Carried
  <2>1. CASE t = c /\ j = 1 /\ i # 1
    <3>1. PICK k : InParcel(e, c, 1, k)'
      BY <1>10, <2>1, Zenon
    <3> QED
      BY <1>11, <2>1, <3>1, Zenon DEF Carried
  <2>2. CASE t = c /\ j = 1 /\ i = 1
    BY <2>2, Zenon
  <2>3. CASE t # c \/ j # 1
    <3>1. CarriedAt(e, y, t, j, i)
      BY Zenon DEF CarriedAt
    <3>2. CarriedAt(e, y, t, j, i)'
      BY <1>8, <2>3, <3>1, Zenon
    <3> QED
      BY <3>2, Zenon DEF Carried, CarriedAt
  <2> QED
    BY <2>1, <2>2, <2>3, Zenon
<1> QED
  BY <1>12, <1>13, Zenon

\* What a task carries to a connection goes into that connection's channel.
LEMMA DeliveringKeepsTransit ==
  ASSUME PlaceInv, NEW c \in Connections, DeliverEvent(c)
  PROVE  TransitKept
<1>1. PICK h \in Connections, x \in Events :
        /\ h = deliveries[c][1].handle /\ InParcel(x, c, 1, 1)
        /\ queue' = [queue EXCEPT ![h] = Append(queue[h], x)]
  BY DeliveringMoves, SMT
<1>2. pc[c] = "deliver" /\ UNCHANGED outboxes
  BY Zenon DEF DeliverEvent
<1>3. /\ pc \in [Connections -> Labels] /\ MailInv /\ queue \in [Connections -> Seq(Events)]
  BY Zenon DEF PlaceInv, MailInv, OwnerInv, QueueInv
<1>4. \A d \in Connections : Registered(d)' <=> Registered(d)
  <2>1. UNCHANGED pc \/ \E l \in {"loop", "deliver"} : pc' = [pc EXCEPT ![c] = l]
    BY Zenon DEF DeliverEvent, NextDelivery, Goto
  <2> QED
    BY <1>2, <1>3, <2>1 DEF Registered
<1>5. Grown(queue'[h], queue[h], x)
  BY <1>1, <1>3, AppendGrows, Zenon
<1> SUFFICES ASSUME NEW y \in Connections, NEW e PROVE OnWay(e, y)' <=> OnWay(e, y)
  BY Zenon DEF TransitKept
<1>6. Waiting(e, y)' <=> Waiting(e, y)
  BY <1>2, <1>4, Zenon DEF Waiting, InBox
<1>7. /\ Queued(e, y)' => Queued(e, y) \/ (e = x /\ y = h)
      /\ Queued(e, y) => Queued(e, y)'
      /\ e = x /\ y = h => Queued(e, y)'
  <2>1. CASE y = h
    BY <1>5, <2>1, Zenon DEF Queued, Grown, Extends
  <2>2. CASE y # h
    BY <1>1, <1>3, <2>2, Zenon DEF Queued
  <2> QED
    BY <2>1, <2>2, Zenon
<1>8. /\ Carried(e, y)' => Carried(e, y)
      /\ Carried(e, y) => Carried(e, y)' \/ (y = h /\ e = x)
  <2>1. InParcel(e, c, 1, 1) => e = x
    BY <1>1, Zenon DEF InParcel
  <2>2. CASE deliveries' = [deliveries EXCEPT ![c][1].events = Tail(@)]
    <3>1. /\ Carried(e, y)' => Carried(e, y)
          /\ Carried(e, y) => Carried(e, y)' \/ (y = deliveries[c][1].handle /\ InParcel(e, c, 1, 1))
      BY <1>2, <2>2, ShorterDeliveryCarries, Zenon
    <3> QED
      BY <1>1, <2>1, <3>1, Zenon
  <2>3. CASE Len(Head(deliveries[c]).events) = 1 /\ NextDelivery(c)
    <3>1. Carried(e, y)' => Carried(e, y)
      BY <1>2, <2>3, NextDeliveryCarries, Zenon
    <3>2. Carried(e, y) => Carried(e, y)' \/ (y = deliveries[c][1].handle /\ \E i : InParcel(e, c, 1, i))
      BY <1>2, <2>3, NextDeliveryCarries, Zenon
    <3>3. ASSUME NEW i, InParcel(e, c, 1, i) PROVE e = x
      <4>1. Head(deliveries[c]) = deliveries[c][1]
        BY <1>2, <1>3, FirstDelivery, Zenon
      <4>2. i \in 1..1
        BY <2>3, <3>3, <4>1, Zenon DEF InParcel
      <4>3. i = 1
        BY <4>2
      <4> QED
        BY <2>1, <3>3, <4>3, Zenon
    <3> QED
      BY <1>1, <3>1, <3>2, <3>3, Zenon
  <2> QED
    BY <2>2, <2>3, Zenon DEF DeliverEvent
<1>9. y = h /\ e = x => OnWay(e, y)
  BY <1>1, Zenon DEF OnWay, Carried
<1> QED
  BY <1>6, <1>7, <1>8, <1>9, Zenon DEF OnWay

\* A step whose connections all stay where they are.
LEMMA LeavingSteady ==
  ASSUME UNCHANGED <<close, receiver, connections>>,
         \A d \in Connections : /\ pc'[d] \in Gone <=> pc[d] \in Gone
                                /\ pc'[d] \in InLoop <=> pc[d] \in InLoop
  PROVE  Leaving' = Leaving
<1>1. \A d \in Connections : Ending(d)' <=> Ending(d)
  BY Zenon DEF Ending, Gone, InLoop
<1> QED
  BY <1>1, Zenon DEF Leaving

\* Routing accepts an event that the relay has never seen, and perhaps its Ack.
LEMMA RoutingAccepts ==
  ASSUME PlaceInv, PlaceInv', NEW c \in Connections, RouteAccepted(c)
  PROVE  Promise!Accept
<1>1. PICK e \in event[c] :
        /\ RouteEvent(HelloId[c], e) /\ accepted' = accepted \cup Addressed(c, e)
        /\ e \in Requests /\ e.type \in {"PeerKey", "EncryptedMessage"}
        /\ Connected(HelloId[c]) /\ Connected(e.to)
        /\ \A a \in accepted : a.event.tag # e.tag
        /\ \A a \in Addressed(c, e) : a.event = e \/ a.event = Ack(e)
  BY RoutingFacts, SMT
<1>2. /\ UNCHANGED <<deliveries, queue, written, close, receiver, connections>>
      /\ pc[c] = "route" /\ pc' = [pc EXCEPT ![c] = "flush"]
      /\ MailInv /\ MailInv' /\ pc \in [Connections -> Labels]
  BY Zenon DEF RouteAccepted, Goto, taskVars, channelVars, PlaceInv, MailInv, OwnerInv
<1>3. Ack(e).tag = e.tag /\ Ack(e).type = "Ack"
  BY DEF Ack
<1>4. e # Ack(e) /\ e.type # "Error" /\ Ack(e).type # "Error"
  BY <1>1, <1>3, Zenon
<1>5. \A a \in accepted : a.event # e /\ a.event # Ack(e)
  BY <1>1, <1>3, Zenon
<1>6. PICK n, m : BoxesGrow(c, e, n, m)
  BY <1>1, <1>2, RoutingMoves, Zenon
<1>7. \A d \in Connections : Registered(d)' <=> Registered(d)
  BY <1>2 DEF Registered
<1>8. DueAt /\ DueAt'
  BY <1>2, DuePlaces, DuePlacesNext, Zenon
<1>9. ASSUME NEW y, NEW x
      PROVE  (Carried(x, y)' <=> Carried(x, y)) /\ (Queued(x, y)' <=> Queued(x, y))
  <2>1. Carried(x, y)' <=> Carried(x, y)
    BY <1>2, Zenon DEF Carried, InParcel
  <2>2. Queued(x, y)' <=> Queued(x, y)
    BY <1>2, Zenon DEF Queued
  <2> QED
    BY <2>1, <2>2, Zenon
<1>10. ASSUME NEW a \in accepted PROVE OnWay(a.event, a.for)' <=> OnWay(a.event, a.for)
  <2>1. a.for \in Connections
    BY <1>2 DEF MailInv, RestInv
  <2>2. \A id, i : InBox(a.event, id, i)' => InBox(a.event, id, i)
    BY <1>5, <1>6, SMT DEF BoxesGrow
  <2>3. \A id, i : InBox(a.event, id, i) => InBox(a.event, id, i)'
    BY <1>6, SMT DEF BoxesGrow
  <2>4. Waiting(a.event, a.for)' <=> Waiting(a.event, a.for)
    BY <1>7, <2>1, <2>2, <2>3, Zenon DEF Waiting
  <2> QED
    BY <1>9, <2>4, Zenon DEF OnWay
<1>11. Due \subseteq Due'
  <2> SUFFICES ASSUME NEW p \in Due PROVE p \in Due'
    BY Zenon
  <2>1. PICK a \in accepted : p = [event |-> a.event, for |-> a.for] /\ OnWay(a.event, a.for)
    BY <1>8, Zenon DEF DueAt
  <2>2. a \in accepted' /\ OnWay(a.event, a.for)'
    BY <1>1, <1>10, <2>1, Zenon
  <2> QED
    BY <1>8, <2>1, <2>2, Zenon DEF DueAt
<1>12. ASSUME NEW p \in Due' \ Due PROVE p.event \in {e, Ack(e)}
  <2>1. PICK a \in accepted' : p = [event |-> a.event, for |-> a.for] /\ OnWay(a.event, a.for)'
    BY <1>8, Zenon DEF DueAt
  <2>2. a \notin accepted
    BY <1>8, <1>10, <2>1, Zenon DEF DueAt
  <2> QED
    BY <1>1, <2>1, <2>2, Zenon
<1>13. ASSUME NEW x \in {e, Ack(e)} PROVE ~Promise!Known(x)
  <2>1. x.type # "Error" /\ \A a \in accepted : a.event # x
    BY <1>4, <1>5, <1>13, Zenon
  <2>2. ASSUME NEW p \in Due, p.event = x PROVE FALSE
    <3>1. PICK a \in accepted : p = [event |-> a.event, for |-> a.for]
      BY <1>8, Zenon DEF DueAt
    <3>2. a.event = x
      BY <2>2, <3>1, Zenon
    <3> QED
      BY <2>1, <3>2, Zenon
  <2>3. ASSUME NEW y \in Connections, x \in Range(written[y]) PROVE FALSE
    <3>1. written[y] \in Seq(Mail(y))
      BY <1>2, Zenon DEF MailInv, QueueInv
    <3>2. x \in Mail(y)
      BY <2>3, <3>1, ElementsOfSeq, Zenon
    <3> QED
      BY <2>1, <3>2, Zenon DEF Mail
  <2> QED
    BY <2>2, <2>3, Zenon DEF Promise!Known, Promise!Range, Range
<1>14. ASSUME NEW p \in Due', NEW q \in Due', p.event = q.event PROVE p = q
  <2>1. PICK a \in accepted' : p = [event |-> a.event, for |-> a.for]
    BY <1>8, Zenon DEF DueAt
  <2>2. PICK b \in accepted' : q = [event |-> b.event, for |-> b.for]
    BY <1>8, Zenon DEF DueAt
  <2>3. a.event = b.event
    BY <1>14, <2>1, <2>2, Zenon
  <2>4. a.for = b.for
    BY <2>3, Zenon DEF PlaceInv, TagInv
  <2> QED
    BY <2>1, <2>2, <2>3, <2>4, Zenon
<1>15. Leaving' = Leaving
  <2>1. \A d \in Connections : /\ pc'[d] \in Gone <=> pc[d] \in Gone
                               /\ pc'[d] \in InLoop <=> pc[d] \in InLoop
    BY <1>2 DEF Gone, InLoop
  <2> QED
    BY <1>2, <2>1, LeavingSteady, Zenon
<1>16. \A p \in Due' \ Due : ~Promise!Known(p.event)
  BY <1>12, <1>13, Zenon
<1>17. \A p, q \in Due' \ Due : p.event = q.event => p = q
  BY <1>14, Zenon
<1> QED
  BY <1>2, <1>11, <1>15, <1>16, <1>17, Zenon DEF Promise!Accept

\* The writer delivers what was routed, and it is due no more; or it notifies of an error.
LEMMA WritingDelivers ==
  ASSUME PlaceInv, PlaceInv', NEW c \in Connections, Write(c)
  PROVE  Promise!Deliver \/ Promise!Notify
<1>0. PICK e : e = Head(queue[c])
  BY Zenon
<1>1. /\ queue[c] # <<>> /\ queue' = [queue EXCEPT ![c] = Tail(queue[c])]
      /\ written' = [written EXCEPT ![c] = Append(written[c], e)]
      /\ UNCHANGED <<outboxes, pc, deliveries, accepted, close, receiver, connections>>
  BY <1>0, Zenon DEF Write, taskVars
<1>2. /\ queue \in [Connections -> Seq(Events)] /\ written \in [Connections -> Seq(Events)]
      /\ queue[c] \in Seq(Mail(c)) /\ queue[c] \in Seq(Events) /\ MailInv /\ MailInv'
  BY Zenon DEF PlaceInv, MailInv, QueueInv
<1>3. /\ e \in Events /\ e \in Mail(c) /\ e = queue[c][1] /\ Len(queue[c]) \in Nat \ {0}
      /\ Len(Tail(queue[c])) = Len(queue[c]) - 1
      /\ \A i \in 1..Len(Tail(queue[c])) : Tail(queue[c])[i] = queue[c][i + 1]
  BY <1>0, <1>1, <1>2, HeadTailProperties, EmptySeq, LenProperties
<1>4. /\ queue'[c] = Tail(queue[c]) /\ \A y \in Connections : y # c => queue'[y] = queue[y]
  BY <1>1, <1>2, Zenon
<1>5. Leaving' = Leaving
  BY <1>1, LeavingSteady, Zenon
<1>6. DueAt /\ DueAt'
  BY <1>2, DuePlaces, DuePlacesNext, Zenon
<1>7. ASSUME NEW x, NEW y \in Connections
      PROVE  /\ OnWay(x, y)' => OnWay(x, y)
             /\ OnWay(x, y) => OnWay(x, y)' \/ (x = e /\ y = c)
  <2>1. Carried(x, y)' <=> Carried(x, y)
    BY <1>1, Zenon DEF Carried, InParcel
  <2>2. Waiting(x, y)' <=> Waiting(x, y)
    BY <1>1, Zenon DEF Waiting, InBox, Registered
  <2>3. CASE y # c
    BY <1>4, <2>1, <2>2, <2>3, Zenon DEF OnWay, Queued
  <2>4. CASE y = c
    <3>1. ASSUME NEW i \in 1..Len(Tail(queue[c])), Tail(queue[c])[i] = x PROVE Queued(x, c)
      <4>1. i + 1 \in 1..Len(queue[c]) /\ queue[c][i + 1] = x
        BY <1>3, <3>1
      <4> QED
        BY <4>1, Zenon DEF Queued
    <3>2. ASSUME NEW i \in 1..Len(queue[c]), queue[c][i] = x, x # e PROVE Queued(x, c)'
      <4>1. i # 1
        BY <1>3, <3>2, Zenon
      <4>2. i - 1 \in 1..Len(Tail(queue[c])) /\ (i - 1) + 1 = i
        BY <1>3, <4>1
      <4>3. PICK k \in 1..Len(Tail(queue[c])) : k + 1 = i
        BY <4>2, Zenon
      <4>4. Tail(queue[c])[k] = x
        BY <1>3, <3>2, <4>3, Zenon
      <4> QED
        BY <1>4, <4>3, <4>4, Zenon DEF Queued
    <3>3. Queued(x, c)' => Queued(x, c)
      BY <1>4, <3>1, Zenon DEF Queued
    <3>4. Queued(x, c) => Queued(x, c)' \/ x = e
      BY <3>2, Zenon DEF Queued
    <3> QED
      BY <2>1, <2>2, <2>4, <3>3, <3>4, Zenon DEF OnWay
  <2> QED
    BY <2>3, <2>4, Zenon
<1>8. \A a \in accepted : a.for \in Connections /\ a.event.type # "Error"
  <2>1. \A a \in accepted : a.for \in Connections
    BY <1>2 DEF MailInv, RestInv
  <2> QED
    BY <2>1, Zenon DEF PlaceInv, TagInv
<1>9. CASE e.type = "Error"
  <2>1. e \in [type : {"Error"}, tag : Tags]
    BY <1>3, <1>9 DEF Events
  <2>2. ASSUME NEW a \in accepted PROVE OnWay(a.event, a.for)' <=> OnWay(a.event, a.for)
    <3>1. a.for \in Connections /\ a.event # e
      BY <1>8, <1>9, Zenon
    <3> QED
      BY <1>7, <3>1, Zenon
  <2>3. ASSUME NEW p PROVE p \in Due' <=> p \in Due
    BY <1>1, <1>6, <2>2, Zenon DEF DueAt
  <2>4. Due' = Due
    BY <2>3, Zenon
  <2>5. Promise!Notify
    BY <1>1, <1>5, <2>1, <2>4, Zenon DEF Promise!Notify
  <2> QED
    BY <2>5, Zenon
<1>10. CASE e.type # "Error"
  <2> DEFINE d == [event |-> e, for |-> c]
  <2>1. PICK b \in accepted : b.event = e /\ b.for = c
    BY <1>3, <1>10, Zenon DEF Mail
  <2>2. OnWay(e, c)
    <3>1. 1 \in 1..Len(queue[c])
      BY <1>3
    <3> QED
      BY <1>3, <3>1, Zenon DEF OnWay, Queued
  <2>3. d \in Due
    BY <1>6, <2>1, <2>2, Zenon DEF DueAt
  <2>4. ~OnWay(e, c)'
    <3>1. Once(e)
      BY <2>1, Zenon DEF PlaceInv, OnceInv
    <3> DEFINE w == Len(written[c])
    <3>2. /\ w \in Nat /\ Len(Stream(c)) = w + Len(queue[c])
          /\ \A i \in 1..(w + Len(queue[c])) :
               Stream(c)[i] = IF i <= w THEN written[c][i] ELSE queue[c][i - w]
      <4>1. written[c] \in Seq(Events)
        BY <1>2, Zenon
      <4> QED
        BY <1>2, <4>1, ConcatProperties, LenProperties DEF Stream
    <3> HIDE DEF w
    <3>3. ASSUME NEW i \in 1..Len(queue[c]), queue[c][i] = e PROVE InStream(e, c, w + i)
      <4>1. /\ w + i \in 1..(w + Len(queue[c])) /\ ~(w + i <= w) /\ (w + i) - w = i
        BY <1>3, <3>2
      <4>2. Stream(c)[w + i] = e
        BY <3>2, <3>3, <4>1, Zenon
      <4> QED
        BY <3>2, <4>1, <4>2, Zenon DEF InStream
    <3>4. InStream(e, c, w + 1)
      <4>1. 1 \in 1..Len(queue[c])
        BY <1>3
      <4> QED
        BY <1>3, <3>3, <4>1, Zenon
    <3>a. Streamed(e)
      BY <3>4, Zenon DEF Streamed
    <3>b. ~Parcelled(e) /\ ~Boxed(e)
      BY <3>1, <3>a, Zenon DEF Once
    <3>5. ~Carried(e, c)'
      <4>1. \A t, j, i : InParcel(e, t, j, i)' => InParcel(e, t, j, i)
        BY <1>1, Zenon DEF InParcel
      <4> QED
        BY <3>b, <4>1, Zenon DEF Carried, Parcelled
    <3>6. ~Waiting(e, c)'
      <4>1. \A id, i : InBox(e, id, i)' => InBox(e, id, i)
        BY <1>1, Zenon DEF InBox
      <4> QED
        BY <3>b, <4>1, Zenon DEF Waiting, Boxed
    <3>7. ASSUME NEW i \in 1..Len(Tail(queue[c])), Tail(queue[c])[i] = e PROVE FALSE
      <4>1. i + 1 \in 1..Len(queue[c]) /\ queue[c][i + 1] = e
        BY <1>3, <3>7
      <4>2. InStream(e, c, w + (i + 1))
        BY <3>3, <4>1, Zenon
      <4>3. w + (i + 1) = w + 1
        BY <3>1, <3>4, <4>2, Zenon DEF Once, OneStream
      <4> QED
        BY <1>3, <3>2, <4>3
    <3> QED
      BY <1>4, <3>5, <3>6, <3>7, Zenon DEF OnWay, Queued
  <2>5. ASSUME NEW p \in Due' PROVE p \in Due \ {d}
    <3>1. PICK a \in accepted : p = [event |-> a.event, for |-> a.for] /\ OnWay(a.event, a.for)'
      BY <1>1, <1>6, Zenon DEF DueAt
    <3>2. OnWay(a.event, a.for)
      BY <1>7, <1>8, <3>1, Zenon
    <3>3. p # d
      <4>1. ASSUME p = d PROVE FALSE
        <5>1. a.event = e /\ a.for = c
          BY <3>1, <4>1
        <5> QED
          BY <2>4, <3>1, <5>1, Zenon
      <4> QED
        BY <4>1, Zenon
    <3> QED
      BY <1>6, <3>1, <3>2, <3>3, Zenon DEF DueAt
  <2>6. ASSUME NEW p \in Due \ {d} PROVE p \in Due'
    <3>1. PICK a \in accepted : p = [event |-> a.event, for |-> a.for] /\ OnWay(a.event, a.for)
      BY <1>6, Zenon DEF DueAt
    <3>2. ~(a.event = e /\ a.for = c)
      BY <2>6, <3>1, Zenon
    <3>3. OnWay(a.event, a.for)'
      BY <1>7, <1>8, <3>1, <3>2, Zenon
    <3> QED
      BY <1>1, <1>6, <3>1, <3>3, Zenon DEF DueAt
  <2>7. Due' = Due \ {d}
    BY <2>5, <2>6, Zenon
  <2>8. d.for = c /\ d.event = e
    OBVIOUS
  <2> HIDE DEF d
  <2>9. Promise!Deliver
    BY <1>1, <1>5, <2>3, <2>7, <2>8, Zenon DEF Promise!Deliver
  <2> QED
    BY <2>9, Zenon
<1> QED
  BY <1>9, <1>10, Zenon

-----------------------------------------------------------------------------

\* The abstract relay starts empty.
LEMMA PromiseInit == Init => Promise!Init
  BY Zenon DEF Init, Promise!Init, Due, Leaving, Ending

\* Every step of a task is a step of the abstract relay.
LEMMA PromiseNext ==
  PlaceInv /\ PlaceInv' /\ [Next]_vars
    => [Promise!Accept \/ Promise!Deliver \/ Promise!Notify \/ Promise!Leave]_(Promise!deliveryVars)
<1> SUFFICES ASSUME PlaceInv, PlaceInv', [Next]_vars
             PROVE  Promise!Accept \/ Promise!Deliver \/ Promise!Notify \/ Promise!Leave
  BY Zenon
<1>0. /\ MailInv /\ MailInv' /\ pc \in [Connections -> Labels]
  BY Zenon DEF PlaceInv, MailInv, OwnerInv
<1>1. Leaving \subseteq Leaving'
  BY <1>0, LeavingGrows, Zenon DEF MailInv
<1>2. CASE UNCHANGED vars
  <2>1. UNCHANGED <<outboxes, deliveries, queue, pc, accepted, written>>
    BY <1>2, Zenon DEF vars, taskVars, channelVars, historyVars
  <2>2. TransitKept
    BY <2>1, NothingInTransitMoves, Zenon DEF Registered
  <2> QED
    BY <1>0, <1>1, <2>1, <2>2, KeepingLeaves, Zenon
<1>3. ASSUME NEW c \in Connections, Quiet(c) \/ ReceiveEvent(c) \/ DeliveryFails(c)
      PROVE  Promise!Leave
  <2>1. UNCHANGED <<outboxes, deliveries, queue, accepted, written>>
    BY <1>0, <1>3, QuietFacts, Zenon DEF ReceiveEvent, DeliveryFails, taskVars, channelVars,
       historyVars
  <2>2. \A d \in Connections : Registered(d)' <=> Registered(d)
    BY <1>0, <1>3, ZenonT(60) DEF Quiet, ReadHello, NoHello, Authorize, Reject,
       RefuseDuplicate, InsertHandle, OnConnect, LeaveLoop, SocketEnds, RouteRejected, Unregister, OnDisconnect, Return,
       ReceiveEvent, DeliveryFails, Goto, Registered
  <2>3. TransitKept
    BY <2>1, <2>2, NothingInTransitMoves, Zenon
  <2> QED
    BY <1>0, <1>1, <2>1, <2>3, KeepingLeaves, Zenon
<1>4. ASSUME NEW c \in Connections,
             \/ ReportError(c) \/ WriterEnds(c) \/ Register(c) \/ Disconnect(c)
             \/ DrainTargets(c) \/ DeliverEvent(c) \/ RemoveHandle(c)
      PROVE  Promise!Leave
  <2>1. UNCHANGED <<accepted, written>>
    BY <1>4, Zenon DEF ReportError, WriterEnds, Register, Disconnect, DrainTargets, DeliverEvent,
       RemoveHandle, historyVars
  <2>2. TransitKept
    BY <1>4, ChannelStepsKeepTransit, RegisterKeepsTransit, DisconnectKeepsTransit,
       DrainingKeepsTransit, DeliveringKeepsTransit, RemovingKeepsTransit, Zenon
  <2> QED
    BY <1>0, <1>1, <2>1, <2>2, KeepingLeaves, Zenon
<1>5. ASSUME NEW c \in Connections, RouteAccepted(c) PROVE Promise!Accept
  BY <1>5, RoutingAccepts, Zenon
<1>6. ASSUME NEW c \in Connections, Write(c) PROVE Promise!Deliver \/ Promise!Notify
  BY <1>6, WritingDelivers, Zenon
<1> QED
  BY <1>2, <1>3, <1>4, <1>5, <1>6, Zenon DEF Next, Task, Socket, Quiet

\* The relay implements the abstract one, for any number of clients, connections and
\* events and every interleaving of the tasks: what is routed is written once, to the
\* connection that owned the id, and is lost only with that connection (route,
\* flush_outboxes, unregister_client).  Inductive invariant: PlaceInv.
THEOREM DeliveryImplemented == Spec => ImplementsDelivery
<1>1. Spec => []PlaceInv
  BY PlaceInvInit, PlaceInvNext, PTL DEF Spec
<1> QED
  BY <1>1, PromiseInit, PromiseNext, PTL DEF Spec, ImplementsDelivery, Promise!Spec
=============================================================================
