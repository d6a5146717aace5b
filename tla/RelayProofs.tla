---------------------------- MODULE RelayProofs ----------------------------
(***************************************************************************)
(* Ownership of client ids in the relay, and the addressee of what it      *)
(* routes, for any number of clients, connections and events.              *)
(***************************************************************************)
EXTENDS Relay, TLAPS

\* The handle of c may be in the map: from insert to the remove of unregister_client.
InMap(c) ==
    pc[c] \in {"on_connect", "loop", "route", "report", "flush", "deliver", "remove",
               "unregister"}

\* A connection that has taken its handle out of the map, and not yet given up its id in
\* the router, leaves nothing behind there: this is what makes the two locks of
\* unregister_client safe in this order.
OwnerInv ==
    /\ pc \in [Connections -> Labels]
    /\ connections \in [ClientIds -> SUBSET Connections]
    /\ \A c, d \in Connections :
         Registered(c) /\ Registered(d) /\ HelloId[c] = HelloId[d] => c = d
    /\ \A id \in ClientIds :
         Connected(id) <=> \E c \in Connections : Registered(c) /\ HelloId[c] = id
    /\ \A id \in ClientIds : \A c \in connections[id] : InMap(c) /\ HelloId[c] = id

\* The invariant implies what is to be shown.
LEMMA OwnerInvSuffices == OwnerInv => OneOwner
  BY DEF OwnerInv, OneOwner, Owner, InMap, Registered

\* No connection is registered at the start.
LEMMA OwnerInvInit == Init => OwnerInv
  BY DEF Init, RouterInit, OwnerInv, Connected, Registered, Labels

\* A step that moves c between two labels of the same standing, and leaves the router's
\* ids and the map alone or only takes handles out of the map, keeps the invariant.
LEMMA KeepsOwners ==
  ASSUME OwnerInv, NEW c \in Connections, NEW label \in Labels,
         pc' = [pc EXCEPT ![c] = label],
         Registered(c) <=> Registered(c)', InMap(c) => InMap(c)',
         DOMAIN outboxes' = DOMAIN outboxes,
         connections' \in [ClientIds -> SUBSET Connections],
         \A id \in ClientIds : connections'[id] \subseteq connections[id]
  PROVE  OwnerInv'
<1>1. \A d \in Connections : d # c => pc'[d] = pc[d]
  BY DEF OwnerInv
<1>2. \A d \in Connections : Registered(d)' <=> Registered(d)
  BY <1>1 DEF Registered
<1>3. \A d \in Connections : InMap(d) => InMap(d)'
  BY <1>1 DEF InMap
<1>4. \A id \in ClientIds : Connected(id)' <=> Connected(id)
  BY DEF Connected
<1>5. pc' \in [Connections -> Labels]
  BY DEF OwnerInv
<1>6. \A id \in ClientIds : \A d \in connections'[id] : InMap(d)' /\ HelloId[d] = id
  BY <1>3 DEF OwnerInv
<1> QED
  BY <1>2, <1>4, <1>5, <1>6 DEF OwnerInv

\* Every step of a task keeps the invariant.
LEMMA OwnerInvNext == OwnerInv /\ [Next]_vars => OwnerInv'
<1> SUFFICES ASSUME OwnerInv, [Next]_vars
             PROVE  OwnerInv'
  OBVIOUS
<1>a. /\ pc \in [Connections -> Labels]
      /\ connections \in [ClientIds -> SUBSET Connections]
  BY DEF OwnerInv
<1>1. CASE UNCHANGED vars
  BY <1>1 DEF vars, OwnerInv, Connected, Registered, InMap
<1>2. ASSUME NEW c \in Connections,
             \/ ReadHello(c) \/ NoHello(c) \/ Authorize(c) \/ Reject(c) \/ RefuseDuplicate(c)
             \/ OnConnect(c) \/ ReceiveEvent(c) \/ LeaveLoop(c) \/ SocketEnds(c)
             \/ RouteRejected(c) \/ ReportError(c) \/ DeliveryFails(c) \/ OnDisconnect(c)
      PROVE  OwnerInv'
  <2>1. UNCHANGED <<outboxes, connections>>
    BY <1>2, Zenon
       DEF ReadHello, NoHello, Authorize, Reject, RefuseDuplicate, OnConnect, ReceiveEvent,
                LeaveLoop, SocketEnds, RouteRejected, ReportError, DeliveryFails, OnDisconnect,
                Return
  <2>2. PICK label \in Labels :
          /\ pc' = [pc EXCEPT ![c] = label]
          /\ \/ pc[c] \in {"hello", "authorize", "reject", "register", "on_disconnect"}
                /\ label \in {"authorize", "reject", "register", "closed"}
             \/ pc[c] \in {"on_connect", "loop", "route", "report", "deliver"}
                /\ label \in {"loop", "route", "report", "remove", "unregister"}
    BY <1>2 DEF ReadHello, NoHello, Authorize, Reject, RefuseDuplicate, OnConnect, ReceiveEvent,
                LeaveLoop, SocketEnds, RouteRejected, ReportError, DeliveryFails, OnDisconnect,
                Return, Goto, Labels
  <2>3. (Registered(c) <=> Registered(c)') /\ (InMap(c) => InMap(c)')
    BY <1>a, <2>2 DEF Registered, InMap
  <2> QED
    BY <1>a, <2>1, <2>2, <2>3, KeepsOwners, ZenonT(60)
<1>3. ASSUME NEW c \in Connections, RouteAccepted(c) \/ DrainTargets(c)
      PROVE  OwnerInv'
  <2>1. UNCHANGED connections /\ DOMAIN outboxes' = DOMAIN outboxes
    BY <1>3, ZenonT(60) DEF RouteAccepted, DrainTargets, RouteEvent, DrainOutboxes
  <2>2. PICK label \in Labels :
          /\ pc' = [pc EXCEPT ![c] = label]
          /\ pc[c] \in {"route", "flush"} /\ label \in {"flush", "deliver", "loop"}
    BY <1>3, ZenonT(60) DEF RouteAccepted, DrainTargets, Goto, Labels
  <2>3. (Registered(c) <=> Registered(c)') /\ (InMap(c) => InMap(c)')
    BY <1>a, <2>2 DEF Registered, InMap
  <2> QED
    BY <1>a, <2>1, <2>2, <2>3, KeepsOwners, ZenonT(60)
<1>4. ASSUME NEW c \in Connections, DeliverEvent(c) \/ RemoveHandle(c)
      PROVE  OwnerInv'
  <2>1. /\ UNCHANGED outboxes
        /\ connections' \in [ClientIds -> SUBSET Connections]
        /\ \A id \in ClientIds : connections'[id] \subseteq connections[id]
    BY <1>a, <1>4, ZenonT(60) DEF DeliverEvent, RemoveHandle
  <2>2. PICK label \in Labels :
          /\ pc' = [pc EXCEPT ![c] = label]
          /\ pc[c] \in {"deliver", "remove"} /\ label \in {"deliver", "loop"}
    BY <1>a, <1>4, ZenonT(60) DEF DeliverEvent, RemoveHandle, NextDelivery, Goto, Labels
  <2>3. (Registered(c) <=> Registered(c)') /\ (InMap(c) => InMap(c)')
    BY <1>a, <2>2 DEF Registered, InMap
  <2> QED
    BY <2>1, <2>2, <2>3, KeepsOwners, ZenonT(60)
<1>5. ASSUME NEW c \in Connections, Register(c)
      PROVE  OwnerInv'
  <2>1. /\ pc[c] = "register" /\ pc' = [pc EXCEPT ![c] = "insert"]
        /\ ~Connected(HelloId[c]) /\ UNCHANGED connections
        /\ DOMAIN outboxes' = DOMAIN outboxes \cup {HelloId[c]}
    BY <1>5 DEF Register, Goto, ConnectId
  <2>2. \A d \in Connections : Registered(d)' <=> Registered(d) \/ d = c
    BY <1>a, <2>1 DEF Registered
  <2>3. HelloId[c] \in ClientIds
    BY HelloIdIsClient
  <2>4. \A d \in Connections : Registered(d) => HelloId[d] # HelloId[c]
    BY <2>1, <2>3 DEF OwnerInv
  <2>5. \A d \in Connections : InMap(d) => InMap(d)'
    BY <1>a, <2>1 DEF InMap
  <2>6. pc' \in [Connections -> Labels] /\ connections' \in [ClientIds -> SUBSET Connections]
    BY <1>a, <2>1 DEF Labels
  <2>7. \A d, e \in Connections :
          Registered(d)' /\ Registered(e)' /\ HelloId[d] = HelloId[e] => d = e
    BY <2>2, <2>4 DEF OwnerInv
  <2>8. \A id \in ClientIds :
          Connected(id)' <=> \E d \in Connections : Registered(d)' /\ HelloId[d] = id
    BY <2>1, <2>2 DEF OwnerInv, Connected
  <2>9. \A id \in ClientIds : \A d \in connections'[id] : InMap(d)' /\ HelloId[d] = id
    BY <2>1, <2>5, Zenon DEF OwnerInv
  <2> QED
    BY <2>6, <2>7, <2>8, <2>9 DEF OwnerInv
<1>6. ASSUME NEW c \in Connections, InsertHandle(c)
      PROVE  OwnerInv'
  <2>1. /\ pc[c] = "insert" /\ pc' = [pc EXCEPT ![c] = "on_connect"]
        /\ connections' = [connections EXCEPT ![HelloId[c]] = {c}] /\ UNCHANGED outboxes
    BY <1>6 DEF InsertHandle, Goto
  <2>2. \A d \in Connections : (Registered(d)' <=> Registered(d)) /\ (InMap(d) => InMap(d)')
    BY <1>a, <2>1 DEF Registered, InMap
  <2>3. InMap(c)'
    BY <1>a, <2>1 DEF InMap
  <2>4. pc' \in [Connections -> Labels] /\ connections' \in [ClientIds -> SUBSET Connections]
    BY <1>a, <2>1, ZenonT(60) DEF Labels
  <2>5. \A id \in ClientIds : \A d \in connections'[id] : InMap(d)' /\ HelloId[d] = id
    BY <1>a, <2>1, <2>2, <2>3, Zenon DEF OwnerInv
  <2> QED
    BY <2>1, <2>2, <2>4, <2>5 DEF OwnerInv, Connected
<1>7. ASSUME NEW c \in Connections, Unregister(c)
      PROVE  OwnerInv'
  <2>1. /\ pc[c] = "unregister" /\ pc' = [pc EXCEPT ![c] = "disconnect"]
        /\ connections' = [connections EXCEPT ![HelloId[c]] = {}] /\ UNCHANGED outboxes
    BY <1>7 DEF Unregister, Goto
  <2>2. \A d \in Connections :
          (Registered(d)' <=> Registered(d)) /\ (d # c /\ InMap(d) => InMap(d)')
    BY <1>a, <2>1 DEF Registered, InMap
  <2>3. pc' \in [Connections -> Labels] /\ connections' \in [ClientIds -> SUBSET Connections]
    BY <1>a, <2>1, ZenonT(60) DEF Labels
  <2>4. \A id \in ClientIds : \A d \in connections'[id] : InMap(d)' /\ HelloId[d] = id
    BY <1>a, <2>1, <2>2 DEF OwnerInv
  <2> QED
    BY <2>1, <2>2, <2>3, <2>4 DEF OwnerInv, Connected
<1>8. ASSUME NEW c \in Connections, Disconnect(c)
      PROVE  OwnerInv'
  <2>1. /\ pc[c] = "disconnect"
        /\ DOMAIN outboxes' = DOMAIN outboxes \ {HelloId[c]} /\ UNCHANGED connections
    BY <1>8 DEF Disconnect, DisconnectId, Restrict
  <2>2. PICK label \in {"on_disconnect", "closed"} : pc' = [pc EXCEPT ![c] = label]
    BY <1>8, ZenonT(60) DEF Disconnect, Goto
  <2>3. \A d \in Connections :
          (Registered(d)' <=> Registered(d) /\ d # c) /\ (InMap(d) => InMap(d)')
    BY <1>a, <2>1, <2>2 DEF Registered, InMap
  <2>4. pc' \in [Connections -> Labels] /\ connections' \in [ClientIds -> SUBSET Connections]
    BY <1>a, <2>1, <2>2 DEF Labels
  <2>5. Registered(c)
    BY <2>1 DEF Registered
  <2>6. \A id \in ClientIds :
          Connected(id)' <=> \E d \in Connections : Registered(d)' /\ HelloId[d] = id
    BY <2>1, <2>3, <2>5 DEF OwnerInv, Connected
  <2>7. \A id \in ClientIds : \A d \in connections'[id] : InMap(d)' /\ HelloId[d] = id
    BY <2>1, <2>3, Zenon DEF OwnerInv
  <2> QED
    BY <2>3, <2>4, <2>6, <2>7 DEF OwnerInv
<1>9. ASSUME NEW c \in Connections, Write(c) \/ WriterEnds(c)
      PROVE  OwnerInv'
  <2>1. UNCHANGED <<pc, outboxes, connections>>
    BY <1>9, Zenon DEF Write, WriterEnds
  <2>2. \A d \in Connections : Registered(d)' = Registered(d) /\ InMap(d)' = InMap(d)
    BY <2>1, Zenon DEF Registered, InMap
  <2>3. \A id \in ClientIds : Connected(id)' = Connected(id)
    BY <2>1, Zenon DEF Connected
  <2> QED
    BY <2>1, <2>2, <2>3, Zenon DEF OwnerInv
<1> QED
  BY <1>1, <1>2, <1>3, <1>4, <1>5, <1>6, <1>7, <1>8, <1>9 DEF Next, Task, Socket

\* A client id has at most one connection, and the handle stored under it is that
\* connection's, for any number of clients, connections and events and every interleaving
\* of their tasks (register_client, unregister_client, flush_outboxes).
THEOREM SingleOwnership == Spec => []OneOwner
<1>1. Spec => []OwnerInv
  BY OwnerInvInit, OwnerInvNext, PTL DEF Spec
<1> QED
  BY <1>1, OwnerInvSuffices, PTL

-----------------------------------------------------------------------------
(* Routed events reach their addressee.                                    *)

\* What a client may send.
Requests ==
    [type : {"PeerKey", "EncryptedMessage", "ClientHello"}, from : ClientIds, to : ClientIds,
     tag : Tags]

\* The events that may be handed to c: errors, and what was routed to c.
Mail(c) == {e \in Events : e.type # "Error" => \E a \in accepted : a.event = e /\ a.for = c}

\* A delivery: some events, all for the connection whose handle it carries.
Parcels ==
    {d \in [handle : Connections, client_id : ClientIds, events : Seq(Events)] :
        d.events \in Seq(Mail(d.handle)) /\ d.events # <<>>}

\* The outbox of an id holds mail for the connection that owns the id now.
BoxInv ==
    /\ DOMAIN outboxes \subseteq ClientIds
    /\ outboxes \in [DOMAIN outboxes -> Seq(Events)]
    /\ \A d \in Connections : Registered(d) => outboxes[HelloId[d]] \in Seq(Mail(d))

ParcelInv ==
    /\ deliveries \in [Connections -> Seq(Parcels)]
    /\ \A c \in Connections : pc[c] \in {"deliver", "remove"} => deliveries[c] # <<>>

QueueInv ==
    /\ queue \in [Connections -> Seq(Events)]
    /\ written \in [Connections -> Seq(Events)]
    /\ \A c \in Connections : /\ queue[c] \in Seq(Mail(c)) /\ Len(queue[c]) <= OutboxCapacity
                              /\ written[c] \in Seq(Mail(c))

RestInv ==
    /\ event \in [Connections -> SUBSET Requests]
    /\ receiver \in [Connections -> BOOLEAN]
    /\ close \in [Connections -> BOOLEAN]
    /\ received \in [Connections -> 0..MaxReceived]
    /\ online \in [ClientIds -> Int]
    /\ accepted \subseteq [event : Events, for : Connections, reachable : BOOLEAN]

MailInv == OwnerInv /\ BoxInv /\ ParcelInv /\ QueueInv /\ RestInv

\* The elements of a sequence are in the set it is over.
LEMMA ElementsOfSeq == ASSUME NEW S, NEW s \in Seq(S) PROVE Range(s) \subseteq S
  BY DEF Range

\* A larger set has more sequences.
LEMMA SeqGrows == ASSUME NEW S, NEW T, S \subseteq T PROVE Seq(S) \subseteq Seq(T)
  OBVIOUS

\* What follows the head of a sequence of two or more.
LEMMA TailRemains ==
  ASSUME NEW S, NEW s \in Seq(S), s # <<>>, Len(s) # 1
  PROVE  Tail(s) \in Seq(S) /\ Tail(s) # <<>>
<1>1. Len(s) \in Nat /\ Len(s) # 0
  OBVIOUS
<1>2. Tail(s) \in Seq(S) /\ Len(Tail(s)) = Len(s) - 1
  BY <1>1
<1>3. Len(Tail(s)) # 0
  BY <1>1, <1>2
<1>4. Len(<<>>) = 0
  OBVIOUS
<1> QED
  BY <1>2, <1>3, <1>4

\* A client's request is an event.
LEMMA RequestsAreEvents == Requests \subseteq Events
  BY DEF Requests, Events

\* The invariant implies both properties.
LEMMA MailInvImpliesType == MailInv => TypeOK
<1> SUFFICES ASSUME MailInv PROVE TypeOK
  OBVIOUS
<1>1. Parcels \subseteq [handle : Connections, client_id : ClientIds, events : Seq(Events)]
  BY DEF Parcels
<1>2. deliveries \in [Connections -> Seq([handle : Connections, client_id : ClientIds,
                                          events : Seq(Events)])]
  <2>1. Seq(Parcels) \subseteq Seq([handle : Connections, client_id : ClientIds,
                                     events : Seq(Events)])
    BY <1>1, SeqGrows, ZenonT(60)
  <2> QED
    BY <2>1, ZenonT(60) DEF MailInv, ParcelInv
<1>3. event \in [Connections -> SUBSET Events]
  BY RequestsAreEvents DEF MailInv, RestInv
<1> QED
  BY <1>2, <1>3, ZenonT(60) DEF MailInv, OwnerInv, BoxInv, QueueInv, RestInv, TypeOK

\* The invariant suffices.
LEMMA MailInvImpliesAddressee == MailInv => ReachesAddressee
<1> SUFFICES ASSUME MailInv, NEW c \in Connections, NEW e \in HeldFor(c) PROVE e \in Mail(c)
  BY DEF ReachesAddressee, Mail
<1>1. CASE e \in Range(queue[c]) \cup Range(written[c])
  BY <1>1, ElementsOfSeq DEF MailInv, QueueInv
<1>2. CASE e \in Taking(c)
  <2>1. PICK t \in Connections :
          e \in UNION {Range(d.events) : d \in {x \in Range(deliveries[t]) : x.handle = c}}
    BY <1>2 DEF Taking
  <2>2. PICK d \in Range(deliveries[t]) : d.handle = c /\ e \in Range(d.events)
    BY <2>1
  <2>3. d \in Parcels
    BY <2>2, ElementsOfSeq DEF MailInv, ParcelInv
  <2>4. d.events \in Seq(Mail(c))
    BY <2>2, <2>3 DEF Parcels
  <2> QED
    BY <2>2, <2>4, ElementsOfSeq
<1> QED
  BY <1>1, <1>2 DEF HeldFor

\* Nothing is there at the start.
LEMMA MailInvInit == Init => MailInv
<1> SUFFICES ASSUME Init PROVE MailInv
  OBVIOUS
<1>1. OwnerInv
  BY OwnerInvInit
<1>2. BoxInv
  BY DEF Init, RouterInit, BoxInv, Registered
<1>3. ParcelInv
  BY DEF Init, ParcelInv
<1>4. QueueInv
  BY CapacityIsNat DEF Init, QueueInv
<1>5. RestInv
  BY BoundIsNat DEF Init, RestInv
<1> QED
  BY <1>1, <1>2, <1>3, <1>4, <1>5 DEF MailInv

-----------------------------------------------------------------------------
(* What a step that does not touch them keeps.                             *)

\* The mail in the outboxes.
LEMMA BoxKept ==
  ASSUME BoxInv, UNCHANGED <<outboxes, accepted>>,
         \A d \in Connections : Registered(d)' => Registered(d)
  PROVE  BoxInv'
  BY DEF BoxInv, Mail

\* The deliveries that a task has collected.
LEMMA ParcelKept ==
  ASSUME ParcelInv, UNCHANGED <<deliveries, accepted>>,
         \A c \in Connections : pc'[c] \in {"deliver", "remove"} => pc[c] \in {"deliver", "remove"}
  PROVE  ParcelInv'
  BY ZenonT(60) DEF ParcelInv, Parcels, Mail

\* The mail on its way to a socket.
LEMMA QueueKept ==
  ASSUME QueueInv, UNCHANGED <<queue, written, accepted>>
  PROVE  QueueInv'
  BY Zenon DEF QueueInv, Mail

\* More events routed, more mail.
LEMMA MailGrows ==
  ASSUME accepted \subseteq accepted'
  PROVE  /\ \A c : Mail(c) \subseteq Mail(c)'
         /\ \A c : Seq(Mail(c)) \subseteq Seq(Mail(c)')
         /\ Seq(Parcels) \subseteq Seq(Parcels')
<1>1. \A c : Mail(c) \subseteq Mail(c)'
  BY DEF Mail
<1>2. \A c : Seq(Mail(c)) \subseteq Seq(Mail(c)')
  BY <1>1, SeqGrows
<1>3. Parcels \subseteq Parcels'
  BY <1>2 DEF Parcels
<1> QED
  BY <1>1, <1>2, <1>3, SeqGrows

-----------------------------------------------------------------------------
(* The steps that move events.                                             *)

\* The event goes to whoever owns the recipient's id, the Ack to the sender (route).
LEMMA RoutingKeepsBoxes ==
  ASSUME MailInv, NEW c \in Connections, RouteAccepted(c)
  PROVE  BoxInv' /\ RestInv' /\ accepted \subseteq accepted'
<1>1. PICK e \in event[c] :
        /\ RouteError(HelloId[c], e) = {}
        /\ RouteEvent(HelloId[c], e)
        /\ accepted' = accepted \cup Addressed(c, e)
  BY DEF RouteAccepted
<1>2. /\ e \in Requests /\ e \in Events /\ e.to \in ClientIds /\ e.tag \in Tags
      /\ HelloId[c] \in ClientIds
  BY HelloIdIsClient, RequestsAreEvents DEF MailInv, RestInv, Requests
<1>3. Connected(HelloId[c]) /\ Connected(e.to)
  BY <1>1 DEF RouteError
<1>4. /\ pc[c] = "route" /\ pc \in [Connections -> Labels]
      /\ pc' = [pc EXCEPT ![c] = "flush"]
  BY DEF RouteAccepted, Goto, MailInv, OwnerInv
<1>5. Registered(c) /\ \A d \in Connections : Registered(d)' <=> Registered(d)
  BY <1>4 DEF Registered
<1>6. AckFor(e) \in Seq(Events) /\ Range(AckFor(e)) \subseteq Events
  <2>1. Ack(e) \in Events
    BY <1>2 DEF Ack, Events
  <2>2. AckFor(e) \in Seq(Events)
    BY <2>1 DEF AckFor
  <2> QED
    BY <2>2, ElementsOfSeq
<1>7. AckFor(e) \in Seq(Mail(c)')
  <2>1. CASE e.type # "EncryptedMessage"
    BY <2>1 DEF AckFor
  <2>2. CASE e.type = "EncryptedMessage"
    <3>1. AckFor(e) = <<Ack(e)>>
      BY <2>2 DEF AckFor
    <3>2. Ack(e) \in Range(AckFor(e))
      BY <3>1 DEF Range
    <3>3. [event |-> Ack(e), for |-> c, reachable |-> connections[HelloId[c]] # {}] \in accepted'
      BY <1>1, <3>2 DEF Addressed
    <3>4. Ack(e) \in Mail(c)'
      BY <1>6, <3>2, <3>3 DEF Mail
    <3> QED
      BY <3>1, <3>4
  <2> QED
    BY <2>1, <2>2
<1>8. \A d \in Connections : Registered(d) /\ HelloId[d] = e.to => e \in Mail(d)'
  <2> SUFFICES ASSUME NEW d \in Connections, Registered(d), HelloId[d] = e.to
               PROVE  e \in Mail(d)'
    OBVIOUS
  <2>1. d \in Owner(e.to)
    BY DEF Owner
  <2>2. [event |-> e, for |-> d, reachable |-> connections[e.to] # {}] \in accepted'
    BY <1>1, <2>1 DEF Addressed
  <2> QED
    BY <1>2, <2>2 DEF Mail
<1>9. accepted \subseteq accepted'
  BY <1>1
<1>10. RestInv'
  <2>1. Owner(e.to) \subseteq Connections
    BY DEF Owner
  <2>2. Addressed(c, e) \subseteq [event : Events, for : Connections, reachable : BOOLEAN]
    <3> DEFINE there == connections[e.to] # {}
               here == connections[HelloId[c]] # {}
    <3>1. there \in BOOLEAN /\ here \in BOOLEAN
      OBVIOUS
    <3>2. Addressed(c, e) = {[event |-> e, for |-> r, reachable |-> there] : r \in Owner(e.to)}
            \cup {[event |-> a, for |-> c, reachable |-> here] : a \in Range(AckFor(e))}
      BY DEF Addressed
    <3> HIDE DEF there, here
    <3> QED
      BY <1>2, <1>6, <2>1, <3>1, <3>2, SMTT(30)
  <2>3. UNCHANGED <<event, receiver, close, received, online>>
    BY DEF RouteAccepted, taskVars, channelVars
  <2> QED
    BY <1>1, <2>2, <2>3 DEF MailInv, RestInv
<1>11. BoxInv'
  <2> DEFINE pushed == [outboxes EXCEPT ![e.to] = Append(@, e)]
  <2>0. /\ DOMAIN outboxes \subseteq ClientIds /\ outboxes \in [DOMAIN outboxes -> Seq(Events)]
        /\ e.to \in DOMAIN outboxes /\ HelloId[c] \in DOMAIN outboxes
    BY <1>3, Zenon DEF MailInv, BoxInv, Connected
  <2>1. outboxes' = [pushed EXCEPT ![HelloId[c]] = pushed[HelloId[c]] \o AckFor(e)]
    BY <1>1 DEF RouteEvent
  <2>2. pushed \in [DOMAIN outboxes -> Seq(Events)]
    BY <1>2, <2>0
  <2>3. outboxes' \in [DOMAIN outboxes -> Seq(Events)]
    <3> HIDE DEF pushed
    <3> QED
      BY <1>6, <2>0, <2>1, <2>2
  <2>4. ASSUME NEW d \in Connections, Registered(d)'
        PROVE  outboxes'[HelloId[d]] \in Seq(Mail(d)')
    <3>1. Registered(d) /\ outboxes[HelloId[d]] \in Seq(Mail(d)') /\ HelloId[d] \in DOMAIN outboxes
      <4>1. Registered(d) /\ HelloId[d] \in ClientIds
        BY <1>5, <2>4, HelloIdIsClient
      <4>2. Connected(HelloId[d])
        BY <4>1 DEF MailInv, OwnerInv
      <4> QED
        BY <4>1, <4>2, <1>9, MailGrows DEF MailInv, BoxInv, Connected
    <3>2. pushed[HelloId[d]] \in Seq(Mail(d)')
      <4>1. CASE HelloId[d] = e.to
        <5>1. pushed[HelloId[d]] = Append(outboxes[HelloId[d]], e)
          BY <2>0, <4>1
        <5>2. e \in Mail(d)'
          BY <1>8, <3>1, <4>1
        <5> HIDE DEF pushed
        <5> QED
          BY <3>1, <5>1, <5>2, SMTT(30)
      <4>2. CASE HelloId[d] # e.to
        BY <2>0, <3>1, <4>2
      <4> QED
        BY <4>1, <4>2
    <3>3. CASE HelloId[d] = HelloId[c]
      <4>1. d = c
        BY <1>5, <3>1, <3>3 DEF MailInv, OwnerInv
      <4>2. outboxes'[HelloId[d]] = pushed[HelloId[c]] \o AckFor(e)
        <5> HIDE DEF pushed
        <5> QED
          BY <2>0, <2>1, <2>2, <3>3, Zenon
      <4> HIDE DEF pushed
      <4> QED
        BY <1>7, <3>2, <4>1, <4>2, SMTT(60)
    <3>4. CASE HelloId[d] # HelloId[c]
      <4>1. outboxes'[HelloId[d]] = pushed[HelloId[d]]
        <5> HIDE DEF pushed
        <5> QED
          BY <2>1, <2>2, <3>1, <3>4
      <4> QED
        BY <3>2, <4>1
    <3> QED
      BY <3>3, <3>4
  <2> QED
    BY <2>0, <2>3, <2>4 DEF BoxInv
<1> QED
  BY <1>9, <1>10, <1>11

\* What is taken for one target is mail for the connection whose handle is in the map.
LEMMA TakenIsMail ==
  ASSUME MailInv, NEW id \in ClientIds
  PROVE  Taken(id) \subseteq Parcels /\ AsSequence(Taken(id)) \in Seq(Parcels)
<1>1. ASSUME NEW d \in Taken(id) PROVE d \in Parcels
  <2>1. PICK h \in connections[id] : d = [handle |-> h, client_id |-> id, events |-> outboxes[id]]
    BY <1>1 DEF Taken
  <2>2. Connected(id) /\ outboxes[id] # <<>>
    BY <1>1 DEF Taken
  <2>3. h \in Connections /\ Registered(h) /\ HelloId[h] = id
    BY DEF MailInv, OwnerInv, InMap, Registered
  <2>4. outboxes[id] \in Seq(Events) /\ outboxes[id] \in Seq(Mail(h))
    BY <2>2, <2>3 DEF MailInv, BoxInv, Connected
  <2> QED
    BY <2>1, <2>2, <2>3, <2>4 DEF Parcels
<1>2. AsSequence(Taken(id)) \in Seq(Parcels)
  <2>1. CASE Taken(id) = {}
    BY <2>1 DEF AsSequence
  <2>2. CASE Taken(id) # {}
    <3>1. (CHOOSE d \in Taken(id) : TRUE) \in Parcels
      BY <1>1, <2>2
    <3> QED
      BY <2>2, <3>1 DEF AsSequence
  <2> QED
    BY <2>1, <2>2
<1> QED
  BY <1>1, <1>2

\* Draining moves mail from the outboxes into parcels (flush_outboxes, first half).
LEMMA DrainingKeepsMail ==
  ASSUME MailInv, NEW c \in Connections, DrainTargets(c)
  PROVE  BoxInv' /\ ParcelInv'
<1>0. /\ pc \in [Connections -> Labels] /\ deliveries \in [Connections -> Seq(Parcels)]
      /\ pc[c] = "flush"
  BY Zenon DEF MailInv, OwnerInv, ParcelInv, DrainTargets
<1>1. PICK e \in event[c] :
        LET targets == DeliveryTargets(c, e)
            first == AsSequence(Taken(targets[1]))
            second == IF Len(targets) = 2 /\ targets[2] # targets[1]
                      THEN AsSequence(Taken(targets[2])) ELSE <<>>
            taken == first \o second
        IN  /\ deliveries' = [deliveries EXCEPT ![c] = taken]
            /\ DrainOutboxes({taken[i].client_id : i \in 1..Len(taken)})
            /\ Goto(c, IF taken = <<>> THEN "loop" ELSE "deliver")
  BY ZenonT(60) DEF DrainTargets
<1> DEFINE targets == DeliveryTargets(c, e)
           first == AsSequence(Taken(targets[1]))
           second == IF Len(targets) = 2 /\ targets[2] # targets[1]
                     THEN AsSequence(Taken(targets[2])) ELSE <<>>
           taken == first \o second
           ids == {taken[i].client_id : i \in 1..Len(taken)}
<1>2. /\ deliveries' = [deliveries EXCEPT ![c] = taken]
      /\ DrainOutboxes(ids)
      /\ pc' = [pc EXCEPT ![c] = IF taken = <<>> THEN "loop" ELSE "deliver"]
  BY <1>1, ZenonT(60) DEF Goto
<1>3. targets[1] \in ClientIds /\ (Len(targets) = 2 => targets[2] \in ClientIds)
  <2>1. e.to \in ClientIds /\ HelloId[c] \in ClientIds
    BY HelloIdIsClient DEF MailInv, RestInv, Requests
  <2> QED
    BY <2>1 DEF DeliveryTargets
<1> HIDE DEF targets
<1>4. taken \in Seq(Parcels)
  <2>1. first \in Seq(Parcels)
    BY <1>3, TakenIsMail
  <2>2. second \in Seq(Parcels)
    BY <1>3, TakenIsMail, SMTT(60)
  <2> QED
    BY <2>1, <2>2
<1> HIDE DEF taken, first, second, ids
<1>5. UNCHANGED accepted
  BY DEF DrainTargets, historyVars
<1>6. \A d \in Connections : Registered(d)' => Registered(d)
  BY <1>0, <1>2 DEF Registered
<1>7. BoxInv'
  <2>1. /\ DOMAIN outboxes \subseteq ClientIds /\ outboxes \in [DOMAIN outboxes -> Seq(Events)]
        /\ \A d \in Connections : Registered(d) => outboxes[HelloId[d]] \in Seq(Mail(d))
    BY DEF MailInv, BoxInv
  <2>2. /\ DOMAIN outboxes' = DOMAIN outboxes
        /\ \A i \in DOMAIN outboxes : outboxes'[i] = IF i \in ids THEN <<>> ELSE outboxes[i]
        /\ outboxes' \in [DOMAIN outboxes -> Seq(Events)]
    BY <1>2, <2>1 DEF DrainOutboxes
  <2>3. ASSUME NEW d \in Connections, Registered(d)'
        PROVE  outboxes'[HelloId[d]] \in Seq(Mail(d)')
    <3>1. Registered(d) /\ HelloId[d] \in ClientIds
      BY <1>6, <2>3, HelloIdIsClient
    <3>2. HelloId[d] \in DOMAIN outboxes
      BY <3>1 DEF MailInv, OwnerInv, Connected
    <3>3. Mail(d)' = Mail(d)
      BY <1>5 DEF Mail
    <3>4. <<>> \in Seq(Mail(d))
      OBVIOUS
    <3> QED
      BY <2>1, <2>2, <3>1, <3>2, <3>3, <3>4
  <2> QED
    BY <2>1, <2>2, <2>3 DEF BoxInv
<1>8. ParcelInv'
  <2>1. Parcels' = Parcels
    BY <1>5 DEF Parcels, Mail
  <2>2. deliveries' \in [Connections -> Seq(Parcels)]
    BY <1>0, <1>2, <1>4
  <2>3. \A d \in Connections : pc'[d] \in {"deliver", "remove"} => deliveries'[d] # <<>>
    BY <1>0, <1>2 DEF MailInv, ParcelInv
  <2> QED
    BY <2>1, <2>2, <2>3 DEF ParcelInv
<1> QED
  BY <1>7, <1>8, Zenon

\* Dropping the first parcel keeps the others.
LEMMA NextDeliveryKeepsParcels ==
  ASSUME MailInv, NEW c \in Connections, pc[c] \in {"deliver", "remove"}, NextDelivery(c),
         UNCHANGED accepted
  PROVE  ParcelInv'
<1>1. /\ deliveries \in [Connections -> Seq(Parcels)] /\ pc \in [Connections -> Labels]
      /\ \A d \in Connections : pc[d] \in {"deliver", "remove"} => deliveries[d] # <<>>
  BY DEF MailInv, OwnerInv, ParcelInv
<1>2. /\ deliveries' = [deliveries EXCEPT ![c] = Tail(deliveries[c])]
      /\ pc' = [pc EXCEPT ![c] = IF Len(deliveries[c]) = 1 THEN "loop" ELSE "deliver"]
  BY DEF NextDelivery, Goto
<1>3. deliveries[c] \in Seq(Parcels) /\ deliveries[c] # <<>>
  BY <1>1
<1>4. Tail(deliveries[c]) \in Seq(Parcels)
  BY <1>3
<1>5. Len(deliveries[c]) # 1 => Tail(deliveries[c]) # <<>>
  BY <1>3, TailRemains
<1>6. deliveries' \in [Connections -> Seq(Parcels)]
  BY <1>1, <1>2, <1>4
<1>7. \A d \in Connections : pc'[d] \in {"deliver", "remove"} => deliveries'[d] # <<>>
  <2> SUFFICES ASSUME NEW d \in Connections, pc'[d] \in {"deliver", "remove"}
               PROVE  deliveries'[d] # <<>>
    OBVIOUS
  <2>1. CASE d = c
    BY <1>1, <1>2, <1>5, <2>1, Zenon
  <2>2. CASE d # c
    BY <1>1, <1>2, <2>2
  <2> QED
    BY <2>1, <2>2
<1>8. Parcels' = Parcels
  BY DEF Parcels, Mail
<1> QED
  BY <1>6, <1>7, <1>8 DEF ParcelInv

\* An event goes from a parcel into the channel of the connection it is for
\* (flush_outboxes, second half).
LEMMA DeliveringKeepsMail ==
  ASSUME MailInv, NEW c \in Connections, DeliverEvent(c)
  PROVE  ParcelInv' /\ QueueInv'
<1> DEFINE d == Head(deliveries[c])
<1>1. /\ pc[c] = "deliver" /\ Accepting(d.handle)
      /\ queue' = [queue EXCEPT ![d.handle] = Append(@, Head(d.events))]
      /\ UNCHANGED <<accepted, written>>
  BY Zenon DEF DeliverEvent, historyVars
<1>2. \/ Len(d.events) = 1 /\ NextDelivery(c)
      \/ /\ Len(d.events) # 1 /\ UNCHANGED pc
         /\ deliveries' = [deliveries EXCEPT ![c][1].events = Tail(@)]
  BY Zenon DEF DeliverEvent
<1>3. deliveries[c] \in Seq(Parcels) /\ deliveries[c] # <<>>
  BY <1>1 DEF MailInv, ParcelInv
<1>4. d \in Parcels /\ d = deliveries[c][1] /\ 1 \in DOMAIN deliveries[c]
  BY <1>3
<1>5. /\ d \in [handle : Connections, client_id : ClientIds, events : Seq(Events)]
      /\ d.handle \in Connections /\ d.events \in Seq(Mail(d.handle)) /\ d.events # <<>>
  BY <1>4 DEF Parcels
<1> HIDE DEF d
<1>6. Parcels' = Parcels /\ \A x : Mail(x)' = Mail(x)
  BY <1>1 DEF Parcels, Mail
<1>7. ParcelInv'
  <2>1. CASE NextDelivery(c)
    BY <1>1, <2>1, NextDeliveryKeepsParcels
  <2>2. CASE /\ Len(d.events) # 1 /\ UNCHANGED pc
             /\ deliveries' = [deliveries EXCEPT ![c][1].events = Tail(@)]
    <3> DEFINE rest == [d EXCEPT !.events = Tail(d.events)]
    <3>1. Tail(d.events) \in Seq(Mail(d.handle)) /\ Tail(d.events) # <<>>
      BY <1>5, <2>2, TailRemains
    <3>2. Tail(d.events) \in Seq(Events)
      BY <1>5
    <3>3. rest \in Parcels
      <4>1. /\ rest \in [handle : Connections, client_id : ClientIds, events : Seq(Events)]
            /\ rest.events = Tail(d.events) /\ rest.handle = d.handle
        BY <1>5, <3>2, Zenon
      <4> HIDE DEF rest
      <4> QED
        BY <3>1, <4>1, ZenonT(60) DEF Parcels
    <3>4. deliveries' = [deliveries EXCEPT ![c] = [deliveries[c] EXCEPT ![1] = rest]]
      BY <1>4, <2>2
    <3> HIDE DEF rest
    <3>5. /\ [deliveries[c] EXCEPT ![1] = rest] \in Seq(Parcels)
          /\ [deliveries[c] EXCEPT ![1] = rest] # <<>>
      BY <1>3, <1>4, <3>3
    <3>6. deliveries \in [Connections -> Seq(Parcels)]
      BY DEF MailInv, ParcelInv
    <3>7. deliveries' \in [Connections -> Seq(Parcels)]
      BY <3>4, <3>5, <3>6
    <3>8. \A x \in Connections : pc'[x] \in {"deliver", "remove"} => deliveries'[x] # <<>>
      BY <2>2, <3>4, <3>5, <3>6, Zenon DEF MailInv, ParcelInv
    <3> QED
      BY <1>6, <3>7, <3>8 DEF ParcelInv
  <2> QED
    BY <1>2, <2>1, <2>2
<1>8. QueueInv'
  <2>1. Head(d.events) \in Mail(d.handle) /\ Head(d.events) \in Events
    BY <1>5
  <2>2. /\ queue \in [Connections -> Seq(Events)] /\ written \in [Connections -> Seq(Events)]
        /\ \A x \in Connections : /\ queue[x] \in Seq(Mail(x)) /\ Len(queue[x]) <= OutboxCapacity
                                  /\ written[x] \in Seq(Mail(x))
    BY DEF MailInv, QueueInv
  <2>3. Len(queue[d.handle]) < OutboxCapacity
    BY <1>1 DEF Accepting
  <2>4. /\ Append(queue[d.handle], Head(d.events)) \in Seq(Mail(d.handle))
        /\ Append(queue[d.handle], Head(d.events)) \in Seq(Events)
        /\ Len(Append(queue[d.handle], Head(d.events))) <= OutboxCapacity
    BY <1>5, <2>1, <2>2, <2>3, CapacityIsNat
  <2> QED
    BY <1>1, <1>5, <1>6, <2>2, <2>4 DEF QueueInv
<1> QED
  BY <1>7, <1>8, Zenon

\* The steps on a channel other than a delivery.
LEMMA ChannelStepsKeepMail ==
  ASSUME MailInv, NEW c \in Connections, ReportError(c) \/ Write(c) \/ WriterEnds(c)
  PROVE  QueueInv'
<1>1. /\ queue \in [Connections -> Seq(Events)] /\ written \in [Connections -> Seq(Events)]
      /\ \A x \in Connections : /\ queue[x] \in Seq(Mail(x)) /\ Len(queue[x]) <= OutboxCapacity
                                /\ written[x] \in Seq(Mail(x))
  BY Zenon DEF MailInv, QueueInv
<1>2. UNCHANGED accepted /\ \A x : Mail(x)' = Mail(x)
  BY Zenon DEF ReportError, Write, WriterEnds, historyVars, Mail
<1>3. CASE ReportError(c)
  <2>1. PICK e \in event[c] :
          queue' = IF Accepting(c)
                   THEN [queue EXCEPT ![c] = Append(@, [type |-> "Error", tag |-> e.tag])]
                   ELSE queue
    BY <1>3, ZenonT(60) DEF ReportError
  <2>2. [type |-> "Error", tag |-> e.tag] \in Mail(c) \cap Events
    BY DEF MailInv, RestInv, Requests, Mail, Events
  <2> DEFINE error == [type |-> "Error", tag |-> e.tag]
  <2>3. error \in Mail(c) /\ error \in Events
    BY <2>2
  <2>4. queue' = IF Accepting(c) THEN [queue EXCEPT ![c] = Append(@, error)] ELSE queue
    BY <2>1
  <2> HIDE DEF error
  <2>5. UNCHANGED written
    BY <1>3 DEF ReportError, historyVars
  <2>6. Accepting(c) => Len(queue[c]) < OutboxCapacity
    BY DEF Accepting
  <2>7. /\ Append(queue[c], error) \in Seq(Mail(c)) /\ Append(queue[c], error) \in Seq(Events)
        /\ Accepting(c) => Len(Append(queue[c], error)) <= OutboxCapacity
    BY <1>1, <2>3, <2>6, CapacityIsNat
  <2> QED
    BY <1>1, <1>2, <2>4, <2>5, <2>7, Zenon DEF QueueInv
<1>4. CASE Write(c)
  <2>1. /\ queue[c] # <<>> /\ queue' = [queue EXCEPT ![c] = Tail(queue[c])]
        /\ written' = [written EXCEPT ![c] = Append(written[c], Head(queue[c]))]
    BY <1>4 DEF Write
  <2>2. /\ Tail(queue[c]) \in Seq(Mail(c)) /\ Tail(queue[c]) \in Seq(Events)
        /\ Len(Tail(queue[c])) <= OutboxCapacity
        /\ Head(queue[c]) \in Mail(c) /\ Head(queue[c]) \in Events
    BY <1>1, <2>1, CapacityIsNat
  <2>3. /\ Append(written[c], Head(queue[c])) \in Seq(Mail(c))
        /\ Append(written[c], Head(queue[c])) \in Seq(Events)
    BY <1>1, <2>2
  <2> QED
    BY <1>1, <1>2, <2>1, <2>2, <2>3, Zenon DEF QueueInv
<1>5. CASE WriterEnds(c)
  <2>1. queue' = [queue EXCEPT ![c] = <<>>] /\ UNCHANGED written
    BY <1>5 DEF WriterEnds, historyVars
  <2> QED
    BY <1>1, <1>2, <2>1, CapacityIsNat DEF QueueInv
<1> QED
  BY <1>3, <1>4, <1>5

-----------------------------------------------------------------------------
(* The steps that give an id away or take it back.                         *)

\* A new connection finds an empty outbox (connect).
LEMMA RegisterKeepsBoxes ==
  ASSUME MailInv, NEW c \in Connections, Register(c)
  PROVE  BoxInv'
<1>1. /\ pc[c] = "register" /\ pc' = [pc EXCEPT ![c] = "insert"] /\ pc \in [Connections -> Labels]
      /\ ~Connected(HelloId[c]) /\ UNCHANGED accepted /\ HelloId[c] \in ClientIds
      /\ outboxes' = [i \in DOMAIN outboxes \cup {HelloId[c]} |->
                        IF i = HelloId[c] THEN <<>> ELSE outboxes[i]]
  BY HelloIdIsClient, ZenonT(60) DEF Register, Goto, ConnectId, historyVars, MailInv, OwnerInv
<1>2. /\ DOMAIN outboxes \subseteq ClientIds /\ outboxes \in [DOMAIN outboxes -> Seq(Events)]
      /\ \A d \in Connections : Registered(d) => outboxes[HelloId[d]] \in Seq(Mail(d))
  BY DEF MailInv, BoxInv
<1>3. DOMAIN outboxes' = DOMAIN outboxes \cup {HelloId[c]}
  BY <1>1
<1>4. outboxes' \in [DOMAIN outboxes' -> Seq(Events)] /\ DOMAIN outboxes' \subseteq ClientIds
  BY <1>1, <1>2, <1>3, SMTT(30)
<1>5. ASSUME NEW d \in Connections, Registered(d)'
      PROVE  outboxes'[HelloId[d]] \in Seq(Mail(d)')
  <2>1. Mail(d)' = Mail(d) /\ <<>> \in Seq(Mail(d))
    BY <1>1 DEF Mail
  <2>2. CASE d = c
    BY <1>1, <2>1, <2>2
  <2>3. CASE d # c
    <3>1. Registered(d) /\ HelloId[d] \in ClientIds
      BY <1>1, <1>5, <2>3, HelloIdIsClient, ZenonT(60) DEF Registered
    <3>2. HelloId[d] \in DOMAIN outboxes
      BY <3>1 DEF MailInv, OwnerInv, Connected
    <3>3. outboxes'[HelloId[d]] = outboxes[HelloId[d]]
      BY <1>1, <3>2 DEF Connected
    <3> QED
      BY <1>2, <2>1, <3>1, <3>3, Zenon
  <2> QED
    BY <2>2, <2>3
<1> QED
  BY <1>4, <1>5, Zenon DEF BoxInv

\* The outbox goes with the connection that owned it (disconnect).
LEMMA DisconnectKeepsBoxes ==
  ASSUME MailInv, NEW c \in Connections, Disconnect(c)
  PROVE  BoxInv'
<1>1. /\ pc[c] = "disconnect" /\ pc \in [Connections -> Labels] /\ UNCHANGED accepted
      /\ \E label \in {"on_disconnect", "closed"} : pc' = [pc EXCEPT ![c] = label]
      /\ outboxes' = [i \in (DOMAIN outboxes) \cap (DOMAIN outboxes \ {HelloId[c]}) |-> outboxes[i]]
  BY ZenonT(60) DEF Disconnect, DisconnectId, Restrict, Goto, historyVars, MailInv, OwnerInv
<1>2. /\ DOMAIN outboxes \subseteq ClientIds /\ outboxes \in [DOMAIN outboxes -> Seq(Events)]
      /\ \A d \in Connections : Registered(d) => outboxes[HelloId[d]] \in Seq(Mail(d))
  BY DEF MailInv, BoxInv
<1>3. DOMAIN outboxes' = DOMAIN outboxes \ {HelloId[c]}
  BY <1>1
<1>4. outboxes' \in [DOMAIN outboxes' -> Seq(Events)] /\ DOMAIN outboxes' \subseteq ClientIds
  BY <1>1, <1>2, <1>3
<1>5. ASSUME NEW d \in Connections, Registered(d)'
      PROVE  outboxes'[HelloId[d]] \in Seq(Mail(d)')
  <2>1. d # c /\ Registered(d) /\ Registered(c) /\ HelloId[d] \in ClientIds
    BY <1>1, <1>5, HelloIdIsClient, ZenonT(60) DEF Registered
  <2>2. HelloId[d] # HelloId[c] /\ HelloId[d] \in DOMAIN outboxes
    BY <2>1 DEF MailInv, OwnerInv, Connected
  <2>3. outboxes'[HelloId[d]] = outboxes[HelloId[d]]
    BY <1>1, <2>2
  <2>4. Mail(d)' = Mail(d)
    BY <1>1 DEF Mail
  <2> QED
    BY <1>2, <2>1, <2>3, <2>4
<1> QED
  BY <1>4, <1>5 DEF BoxInv

-----------------------------------------------------------------------------
\* Every step keeps the mail where it belongs.
LEMMA MailInvNext == MailInv /\ [Next]_vars => MailInv'
<1> SUFFICES ASSUME MailInv, [Next]_vars PROVE MailInv'
  BY Zenon
<1>0. /\ OwnerInv' /\ OwnerInv /\ BoxInv /\ ParcelInv /\ QueueInv /\ RestInv
      /\ pc \in [Connections -> Labels]
  BY OwnerInvNext DEF MailInv, OwnerInv
<1>1. CASE UNCHANGED vars
  <2>1. /\ UNCHANGED <<outboxes, pc, connections, event, deliveries, received, queue, receiver,
                        close, online, accepted, written>>
    BY <1>1 DEF vars, taskVars, channelVars, historyVars
  <2>2. BoxInv' /\ ParcelInv' /\ QueueInv'
    BY <1>0, <2>1, BoxKept, ParcelKept, QueueKept DEF Registered
  <2>3. RestInv'
    BY <1>0, <2>1 DEF RestInv
  <2> QED
    BY <1>0, <2>2, <2>3 DEF MailInv
<1>2. ASSUME NEW c \in Connections,
             \/ ReadHello(c) \/ NoHello(c) \/ Authorize(c) \/ Reject(c) \/ RefuseDuplicate(c)
             \/ InsertHandle(c) \/ OnConnect(c) \/ ReceiveEvent(c) \/ LeaveLoop(c) \/ SocketEnds(c)
             \/ RouteRejected(c) \/ DeliveryFails(c) \/ Unregister(c) \/ OnDisconnect(c)
      PROVE  MailInv'
  <2>1. UNCHANGED <<outboxes, deliveries, queue, accepted, written>>
    BY <1>2, ZenonT(60)
       DEF ReadHello, NoHello, Authorize, Reject, RefuseDuplicate, InsertHandle, OnConnect,
                ReceiveEvent, LeaveLoop, SocketEnds, RouteRejected, DeliveryFails, Unregister,
                OnDisconnect, Return, taskVars, channelVars, historyVars
  <2>2. PICK label \in Labels :
          /\ pc' = [pc EXCEPT ![c] = label]
          /\ \/ /\ pc[c] \in {"hello", "authorize", "reject", "register", "on_disconnect"}
                /\ label \in {"authorize", "reject", "register", "closed"}
             \/ /\ pc[c] \in {"insert", "on_connect", "loop", "route", "unregister"}
                /\ label \in {"on_connect", "loop", "route", "report", "unregister", "disconnect"}
             \/ pc[c] = "deliver" /\ label = "remove"
    BY <1>2, ZenonT(60)
       DEF ReadHello, NoHello, Authorize, Reject, RefuseDuplicate, InsertHandle, OnConnect,
                ReceiveEvent, LeaveLoop, SocketEnds, RouteRejected, DeliveryFails, Unregister,
                OnDisconnect, Return, Goto, Labels
  <2>3. \A d \in Connections : Registered(d)' => Registered(d)
    BY <1>0, <2>2 DEF Registered
  <2>4. \A d \in Connections : pc'[d] \in {"deliver", "remove"} => pc[d] \in {"deliver", "remove"}
    BY <1>0, <2>2, Zenon
  <2>5. BoxInv' /\ ParcelInv' /\ QueueInv'
    BY <1>0, <2>1, <2>3, <2>4, BoxKept, ParcelKept, QueueKept, Zenon
  <2>6. CASE ReceiveEvent(c)
    <3>1. /\ received[c] < MaxReceived /\ received' = [received EXCEPT ![c] = @ + 1]
          /\ UNCHANGED <<receiver, close, online>>
      BY <2>6, Zenon DEF ReceiveEvent, channelVars
    <3>2. PICK t \in Traffic[c] :
            event' = [event EXCEPT ![c] = {[type |-> t.type, from |-> t.from, to |-> t.to,
                                           tag |-> <<c, received[c] + 1>>]}]
      BY <2>6, ZenonT(60) DEF ReceiveEvent
    <3>3. received[c] \in 0..MaxReceived /\ received \in [Connections -> 0..MaxReceived]
      BY <1>0 DEF RestInv
    <3>4. received[c] + 1 \in 0..MaxReceived /\ <<c, received[c] + 1>> \in Tags
      BY <3>1, <3>3, BoundIsNat DEF Tags
    <3>5. /\ t.type \in {"PeerKey", "EncryptedMessage", "ClientHello"}
          /\ t.from \in ClientIds /\ t.to \in ClientIds
      BY TrafficIsParsed, SMTT(60)
    <3>6. [type |-> t.type, from |-> t.from, to |-> t.to, tag |-> <<c, received[c] + 1>>]
            \in Requests
      BY <3>4, <3>5 DEF Requests
    <3>7. event' \in [Connections -> SUBSET Requests]
      BY <1>0, <3>2, <3>6, Zenon DEF RestInv
    <3> QED
      BY <1>0, <2>1, <2>5, <3>1, <3>3, <3>4, <3>7, Zenon DEF MailInv, RestInv
  <2>7. CASE ~ReceiveEvent(c)
    <3>0. /\ event' \in {event, [event EXCEPT ![c] = {}]}
          /\ receiver' \in {receiver, [receiver EXCEPT ![c] = FALSE]}
          /\ close' \in {close, [close EXCEPT ![Head(deliveries[c]).handle] = TRUE]}
          /\ online' \in {online, [online EXCEPT ![HelloId[c]] = @ + 1],
                         [online EXCEPT ![HelloId[c]] = @ - 1]}
          /\ UNCHANGED received
      BY <1>2, <2>7, ZenonT(60)
         DEF ReadHello, NoHello, Authorize, Reject, RefuseDuplicate, InsertHandle, OnConnect,
             LeaveLoop, SocketEnds, RouteRejected, DeliveryFails, Unregister,
             OnDisconnect, Return, taskVars, channelVars
    <3>a. event' \in [Connections -> SUBSET Requests] /\ receiver' \in [Connections -> BOOLEAN]
      BY <1>0, <3>0, ZenonT(60) DEF RestInv
    <3>b. close' \in [Connections -> BOOLEAN]
      BY <1>0, <3>0, ZenonT(60) DEF RestInv
    <3>c. online' \in [ClientIds -> Int]
      BY <1>0, <3>0, HelloIdIsClient, SMTT(60) DEF RestInv
    <3>1. RestInv'
      BY <1>0, <2>1, <3>0, <3>a, <3>b, <3>c, Zenon DEF RestInv
    <3> QED
      BY <1>0, <2>5, <3>1, Zenon DEF MailInv
  <2> QED
    BY <2>6, <2>7, Zenon
<1>3. ASSUME NEW c \in Connections, RouteAccepted(c) PROVE MailInv'
  <2>1. BoxInv' /\ RestInv' /\ accepted \subseteq accepted'
    BY <1>3, RoutingKeepsBoxes, Zenon
  <2>2. UNCHANGED <<deliveries, queue, written>> /\ pc[c] = "route" /\ pc' = [pc EXCEPT ![c] = "flush"]
    BY <1>3, Zenon DEF RouteAccepted, Goto, taskVars, channelVars
  <2>3. ParcelInv'
    BY <1>0, <2>1, <2>2, MailGrows, Zenon DEF ParcelInv
  <2>4. QueueInv'
    BY <1>0, <2>1, <2>2, MailGrows DEF QueueInv
  <2> QED
    BY <1>0, <2>1, <2>3, <2>4 DEF MailInv
<1>4. ASSUME NEW c \in Connections, DrainTargets(c) PROVE MailInv'
  <2>1. BoxInv' /\ ParcelInv'
    BY <1>4, DrainingKeepsMail, Zenon
  <2>2. /\ UNCHANGED <<queue, receiver, close, received, online, accepted, written>>
        /\ event' = [event EXCEPT ![c] = {}]
    BY <1>4 DEF DrainTargets, channelVars, historyVars
  <2>3. QueueInv' /\ RestInv'
    BY <1>0, <2>2, QueueKept DEF RestInv
  <2> QED
    BY <1>0, <2>1, <2>3 DEF MailInv
<1>5. ASSUME NEW c \in Connections, DeliverEvent(c) PROVE MailInv'
  <2>1. ParcelInv' /\ QueueInv'
    BY <1>5, DeliveringKeepsMail
  <2>2. /\ UNCHANGED <<outboxes, event, receiver, close, received, online, accepted>>
        /\ pc[c] = "deliver" /\ (UNCHANGED pc \/ \E l \in {"loop", "deliver"} : pc' = [pc EXCEPT ![c] = l])
    BY <1>5 DEF DeliverEvent, NextDelivery, Goto, historyVars
  <2>3. \A d \in Connections : Registered(d)' => Registered(d)
    BY <1>0, <2>2, Zenon DEF Registered
  <2>4. BoxInv' /\ RestInv'
    BY <1>0, <2>2, <2>3, BoxKept, Zenon DEF RestInv
  <2> QED
    BY <1>0, <2>1, <2>4, Zenon DEF MailInv
<1>6. ASSUME NEW c \in Connections, RemoveHandle(c) PROVE MailInv'
  <2>1. /\ UNCHANGED <<outboxes, event, receiver, close, received, online, accepted, queue, written>>
        /\ pc[c] = "remove" /\ NextDelivery(c)
        /\ \E l \in {"loop", "deliver"} : pc' = [pc EXCEPT ![c] = l]
    BY <1>6, ZenonT(60) DEF RemoveHandle, NextDelivery, Goto, channelVars, historyVars
  <2>2. ParcelInv'
    BY <2>1, NextDeliveryKeepsParcels
  <2>3. \A d \in Connections : Registered(d)' => Registered(d)
    BY <1>0, <2>1 DEF Registered
  <2>4. BoxInv' /\ QueueInv' /\ RestInv'
    BY <1>0, <2>1, <2>3, BoxKept, QueueKept DEF RestInv
  <2> QED
    BY <1>0, <2>2, <2>4, Zenon DEF MailInv
<1>7. ASSUME NEW c \in Connections, ReportError(c) \/ Write(c) \/ WriterEnds(c) PROVE MailInv'
  <2>1. QueueInv'
    BY <1>7, ChannelStepsKeepMail, Zenon
  <2>2. /\ UNCHANGED <<outboxes, deliveries, close, received, online, accepted>>
        /\ event' \in {event, [event EXCEPT ![c] = {}]}
        /\ receiver' \in {receiver, [receiver EXCEPT ![c] = FALSE]}
        /\ UNCHANGED pc \/ (pc[c] = "report" /\ pc' = [pc EXCEPT ![c] = "loop"])
    BY <1>7 DEF ReportError, Write, WriterEnds, Goto, taskVars, historyVars
  <2>3. /\ \A d \in Connections : Registered(d)' => Registered(d)
        /\ \A d \in Connections : pc'[d] \in {"deliver", "remove"} => pc[d] \in {"deliver", "remove"}
    BY <1>0, <2>2, Zenon DEF Registered
  <2>4. BoxInv' /\ ParcelInv'
    BY <1>0, <2>2, <2>3, BoxKept, ParcelKept, Zenon
  <2>5. RestInv'
    BY <1>0, <2>2, ZenonT(60) DEF RestInv
  <2> QED
    BY <1>0, <2>1, <2>4, <2>5 DEF MailInv
<1>8. ASSUME NEW c \in Connections, Register(c) \/ Disconnect(c) PROVE MailInv'
  <2>1. BoxInv'
    BY <1>8, RegisterKeepsBoxes, DisconnectKeepsBoxes
  <2>2. /\ UNCHANGED <<deliveries, event, receiver, close, received, online, accepted, queue, written>>
        /\ \E l \in {"insert", "on_disconnect", "closed"} : pc' = [pc EXCEPT ![c] = l]
    BY <1>8 DEF Register, Disconnect, Goto, taskVars, channelVars, historyVars
  <2>3. \A d \in Connections : pc'[d] \in {"deliver", "remove"} => pc[d] \in {"deliver", "remove"}
    BY <1>0, <2>2
  <2>4. ParcelInv' /\ QueueInv' /\ RestInv'
    BY <1>0, <2>2, <2>3, ParcelKept, QueueKept DEF RestInv
  <2> QED
    BY <1>0, <2>1, <2>4 DEF MailInv
<1> QED
  BY <1>1, <1>2, <1>3, <1>4, <1>5, <1>6, <1>7, <1>8 DEF Next, Task, Socket

\* The relay's state is well formed whatever it is sent; in particular no channel exceeds
\* its capacity (mpsc::channel, try_send).
THEOREM RelayTypeCorrect == Spec => []TypeOK
<1>1. Spec => []MailInv
  BY MailInvInit, MailInvNext, PTL DEF Spec
<1> QED
  BY <1>1, MailInvImpliesType, PTL

\* Every event handed to a connection was routed to that very connection, for any number
\* of connections under one id and every interleaving (route, drain_outbox,
\* flush_outboxes, disconnect).  Inductive invariant: MailInv.
THEOREM AddresseeOnly == Spec => []ReachesAddressee
<1>1. Spec => []MailInv
  BY MailInvInit, MailInvNext, PTL DEF Spec
<1> QED
  BY <1>1, MailInvImpliesAddressee, PTL
=============================================================================
