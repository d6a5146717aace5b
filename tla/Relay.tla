------------------------------- MODULE Relay -------------------------------
(***************************************************************************)
(* The WebSocket relay, crates/chat-server/src/ws.rs.  Every connection is *)
(* a task (handle_socket) with its own writer task; the tasks share the    *)
(* router, the hook, the auth provider and the map of connections, each    *)
(* behind a mutex of its own.  A step of a task is what it does under one  *)
(* lock, or one try_send: the tasks interleave between the steps.          *)
(***************************************************************************)
EXTENDS InMemoryRouter, Integers, FiniteSets

CONSTANTS
    Connections,        \* the WebSocket connections ever made
    HelloId,            \* the id in each one's ClientHello
    Denied,             \* the connections the AuthProvider denies
    Traffic,            \* the events each client sends, up to their tags
    OutboxCapacity,     \* OUTBOX_CAPACITY
    MaxReceived         \* bound: how many events the relay reads per connection

ASSUME HelloIdIsClient == HelloId \in [Connections -> ClientIds]
ASSUME CapacityIsNat == OutboxCapacity \in Nat \ {0}
ASSUME BoundIsNat == MaxReceived \in Nat
ASSUME TrafficIsParsed ==
    Traffic \in [Connections -> SUBSET [type : {"PeerKey", "EncryptedMessage", "ClientHello"},
                                       from : ClientIds, to : ClientIds]]

VARIABLES
    pc,             \* where the task of a connection stands
    connections,    \* the connection whose ClientHandle is stored under an id, if any
    event,          \* the event a task is handling, if any
    deliveries,     \* what a task took out of the outboxes and still has to send
    queue,          \* the bounded event channel of a connection
    receiver,       \* whether the receiving end of that channel is alive
    close,          \* whether close.send(()) was called for a connection
    received,       \* number of events read from a connection
    online,         \* on_connect calls less on_disconnect calls, by id
    accepted,       \* history: what was routed, and for which connection
    written         \* history: what was written to the socket of a connection

taskVars == <<event, deliveries, received>>
channelVars == <<queue, receiver, close>>
historyVars == <<accepted, written>>
vars == <<outboxes, pc, connections, taskVars, channelVars, online, historyVars>>

Goto(c, label) == pc' = [pc EXCEPT ![c] = label]

\* The task returns before it has registered: its channels go with it.
Return(c) ==
    /\ Goto(c, "closed")
    /\ receiver' = [receiver EXCEPT ![c] = FALSE]
    /\ UNCHANGED <<outboxes, connections, taskVars, queue, close, online, historyVars>>

\* The id belongs to c in the router.
Registered(c) ==
    pc[c] \in {"insert", "on_connect", "loop", "route", "report", "flush", "deliver",
               "remove", "unregister", "disconnect"}

\* The connection that the router has under id, as a set of at most one element.
Owner(id) == {c \in Connections : Registered(c) /\ HelloId[c] = id}

Init ==
    /\ RouterInit
    /\ pc = [c \in Connections |-> "hello"]
    /\ connections = [id \in ClientIds |-> {}]
    /\ event = [c \in Connections |-> {}]
    /\ deliveries = [c \in Connections |-> <<>>]
    /\ queue = [c \in Connections |-> <<>>]
    /\ receiver = [c \in Connections |-> TRUE]
    /\ close = [c \in Connections |-> FALSE]
    /\ received = [c \in Connections |-> 0]
    /\ online = [id \in ClientIds |-> 0]
    /\ accepted = {}
    /\ written = [c \in Connections |-> <<>>]

-----------------------------------------------------------------------------
(* From the ClientHello to the event loop.                                 *)

\* read_client_hello returns an id.
ReadHello(c) ==
    /\ pc[c] = "hello"
    /\ Goto(c, "authorize")
    /\ UNCHANGED <<outboxes, connections, taskVars, channelVars, online, historyVars>>

\* read_client_hello returns None.
NoHello(c) ==
    /\ pc[c] = "hello"
    /\ Return(c)

\* Faulty variant: the guard of the auth mutex lives as long as the connection.
AuthorizeHolding(c) ==
    /\ pc[c] = "authorize"
    /\ \A d \in Connections : pc[d] \in {"hello", "authorize", "closed"}
    /\ Goto(c, IF c \in Denied THEN "reject" ELSE "register")
    /\ UNCHANGED <<outboxes, connections, taskVars, channelVars, online, historyVars>>

\* authorize_connect.  The guard of the auth mutex lives until the rejection is sent.
Authorize(c) ==
    /\ pc[c] = "authorize"
    /\ \A d \in Connections : pc[d] # "reject"
    /\ Goto(c, IF c \in Denied THEN "reject" ELSE "register")
    /\ UNCHANGED <<outboxes, connections, taskVars, channelVars, online, historyVars>>

\* reject_connection: the send ends, well or not.
Reject(c) ==
    /\ pc[c] = "reject"
    /\ Return(c)

\* register_client: the router refuses an id it has.
RefuseDuplicate(c) ==
    /\ pc[c] = "register" /\ Connected(HelloId[c])
    /\ Return(c)

\* register_client: router.connect.
Register(c) ==
    /\ pc[c] = "register" /\ ~Connected(HelloId[c])
    /\ ConnectId(HelloId[c])
    /\ Goto(c, "insert")
    /\ UNCHANGED <<connections, taskVars, channelVars, online, historyVars>>

\* register_client: connections.insert.
InsertHandle(c) ==
    /\ pc[c] = "insert"
    /\ connections' = [connections EXCEPT ![HelloId[c]] = {c}]
    /\ Goto(c, "on_connect")
    /\ UNCHANGED <<outboxes, taskVars, channelVars, online, historyVars>>

\* register_client: on_connect; then the writer is spawned and the loop starts.
OnConnect(c) ==
    /\ pc[c] = "on_connect"
    /\ online' = [online EXCEPT ![HelloId[c]] = @ + 1]
    /\ Goto(c, "loop")
    /\ UNCHANGED <<outboxes, connections, taskVars, channelVars, historyVars>>

-----------------------------------------------------------------------------
(* The event loop.                                                         *)

\* A text frame that parses as a WireEvent.
ReceiveEvent(c) ==
    /\ pc[c] = "loop" /\ received[c] < MaxReceived
    /\ \E t \in Traffic[c] :
         event' = [event EXCEPT ![c] =
            {[type |-> t.type, from |-> t.from, to |-> t.to, tag |-> <<c, received[c] + 1>>]}]
    /\ received' = [received EXCEPT ![c] = @ + 1]
    /\ Goto(c, "route")
    /\ UNCHANGED <<outboxes, connections, deliveries, channelVars, online, historyVars>>

\* A task holds a clone of c's handle in one of its deliveries.
HandleInUse(c) ==
    \E d \in Connections : \E i \in 1..Len(deliveries[d]) : deliveries[d][i].handle = c

\* Faulty variant: the loop does not watch the close channel.
NeverResolves(c) == FALSE

\* close_receiver.recv() resolves: a signal, or every ClientHandle of c was dropped.
CloseResolves(c) ==
    close[c] \/ (connections[HelloId[c]] # {c} /\ ~HandleInUse(c))

LeaveLoop(c) ==
    /\ pc[c] = "loop" /\ CloseResolves(c)
    /\ Goto(c, "unregister")
    /\ UNCHANGED <<outboxes, connections, taskVars, channelVars, online, historyVars>>

\* The socket ends or reports an error (an oversized frame, for one).
SocketEnds(c) ==
    /\ pc[c] = "loop"
    /\ Goto(c, "unregister")
    /\ UNCHANGED <<outboxes, connections, taskVars, channelVars, online, historyVars>>

\* The event and its Ack, with the connections they are meant for.
Addressed(c, e) ==
    {[event |-> e, for |-> r, reachable |-> connections[e.to] # {}] : r \in Owner(e.to)}
      \cup
    {[event |-> a, for |-> c, reachable |-> connections[HelloId[c]] # {}] : a \in Range(AckFor(e))}

\* route_and_flush: router.route accepts the event.
RouteAccepted(c) ==
    /\ pc[c] = "route"
    /\ \E e \in event[c] :
         /\ RouteError(HelloId[c], e) = {}
         /\ RouteEvent(HelloId[c], e)
         /\ accepted' = accepted \cup Addressed(c, e)
    /\ Goto(c, "flush")
    /\ UNCHANGED <<connections, taskVars, channelVars, online, written>>

\* should_report_routing_error.
ShouldReport(e, error) == ~(e.type = "PeerKey" /\ error = "UnknownRecipient")

\* route_and_flush: router.route returns an error.
RouteRejected(c) ==
    /\ pc[c] = "route"
    /\ \E e \in event[c] : \E error \in RouteError(HelloId[c], e) :
         Goto(c, IF ShouldReport(e, error) THEN "report" ELSE "loop")
    /\ event' = IF pc'[c] = "loop" THEN [event EXCEPT ![c] = {}] ELSE event
    /\ UNCHANGED <<outboxes, connections, deliveries, received, channelVars, online, historyVars>>

\* Faulty variant: an unbounded channel.
AcceptingAnything(c) == receiver[c]

\* try_send succeeds.
Accepting(c) == receiver[c] /\ Len(queue[c]) < OutboxCapacity

\* The Error event is queued, or dropped with a warning.
ReportError(c) ==
    /\ pc[c] = "report"
    /\ \E e \in event[c] :
         queue' = IF Accepting(c)
                  THEN [queue EXCEPT ![c] = Append(@, [type |-> "Error", tag |-> e.tag])]
                  ELSE queue
    /\ event' = [event EXCEPT ![c] = {}]
    /\ Goto(c, "loop")
    /\ UNCHANGED <<outboxes, connections, deliveries, received, receiver, close, online,
                   historyVars>>

-----------------------------------------------------------------------------
(* flush_outboxes.                                                         *)

\* Faulty variant: the sender's own outbox, where the Ack is, is forgotten.
RecipientOnly(c, e) == <<e.to>>

\* Faulty variant: the sender's outbox is flushed for a key too.
AlwaysBoth(c, e) == <<e.to, HelloId[c]>>

\* Faulty variant: an envelope is acknowledged and left in the recipient's outbox.
SenderOnly(c, e) == IF e.type = "PeerKey" THEN <<e.to>> ELSE <<HelloId[c]>>

\* delivery_targets, in order.
DeliveryTargets(c, e) ==
    IF e.type = "PeerKey" THEN <<e.to>> ELSE <<e.to, HelloId[c]>>

\* What is taken for one target: nothing without a handle or without events.
Taken(id) ==
    IF Connected(id) /\ outboxes[id] # <<>>
    THEN {[handle |-> h, client_id |-> id, events |-> outboxes[id]] : h \in connections[id]}
    ELSE {}

\* The deliveries of a set of at most one element, as a sequence.
AsSequence(S) == IF S = {} THEN <<>> ELSE <<CHOOSE d \in S : TRUE>>

\* The outboxes of the targets are drained under the router and connections locks.
DrainTargets(c) ==
    /\ pc[c] = "flush"
    /\ \E e \in event[c] :
         LET targets == DeliveryTargets(c, e)
             first == AsSequence(Taken(targets[1]))
             second == IF Len(targets) = 2 /\ targets[2] # targets[1]
                       THEN AsSequence(Taken(targets[2])) ELSE <<>>
             taken == first \o second
         IN  /\ deliveries' = [deliveries EXCEPT ![c] = taken]
             /\ DrainOutboxes({taken[i].client_id : i \in 1..Len(taken)})
             /\ Goto(c, IF taken = <<>> THEN "loop" ELSE "deliver")
    /\ event' = [event EXCEPT ![c] = {}]
    /\ UNCHANGED <<connections, received, channelVars, online, historyVars>>

\* The head of the deliveries of c is done, and its clone of the handle is dropped.
NextDelivery(c) ==
    /\ deliveries' = [deliveries EXCEPT ![c] = Tail(@)]
    /\ Goto(c, IF Len(deliveries[c]) = 1 THEN "loop" ELSE "deliver")

\* try_send of one event succeeds.
DeliverEvent(c) ==
    /\ pc[c] = "deliver"
    /\ LET d == Head(deliveries[c])
       IN  /\ Accepting(d.handle)
           /\ queue' = [queue EXCEPT ![d.handle] = Append(@, Head(d.events))]
           /\ IF Len(d.events) = 1
              THEN NextDelivery(c)
              ELSE /\ deliveries' = [deliveries EXCEPT ![c][1].events = Tail(@)]
                   /\ UNCHANGED pc
    /\ UNCHANGED <<outboxes, connections, event, received, receiver, close, online, historyVars>>

\* Faulty variant: a full queue loses the events and nothing is closed.
DropEvents(c) ==
    /\ pc[c] = "deliver"
    /\ ~Accepting(Head(deliveries[c]).handle)
    /\ NextDelivery(c)
    /\ UNCHANGED <<outboxes, connections, event, received, channelVars, online, historyVars>>

\* try_send of one event fails: the connection is told to close.
DeliveryFails(c) ==
    /\ pc[c] = "deliver"
    /\ ~Accepting(Head(deliveries[c]).handle)
    /\ close' = [close EXCEPT ![Head(deliveries[c]).handle] = TRUE]
    /\ Goto(c, "remove")
    /\ UNCHANGED <<outboxes, connections, taskVars, queue, receiver, online, historyVars>>

\* connections.remove(client_id), whatever handle is stored there by now.
RemoveHandle(c) ==
    /\ pc[c] = "remove"
    /\ connections' = [connections EXCEPT ![Head(deliveries[c]).client_id] = {}]
    /\ NextDelivery(c)
    /\ UNCHANGED <<outboxes, event, received, channelVars, online, historyVars>>

-----------------------------------------------------------------------------
(* unregister_client, and the writer task.                                 *)

\* Faulty variant: the handle stays in the map.
KeepHandle(c) ==
    /\ pc[c] = "unregister"
    /\ Goto(c, "disconnect")
    /\ UNCHANGED <<outboxes, connections, taskVars, channelVars, online, historyVars>>

\* connections.remove.
Unregister(c) ==
    /\ pc[c] = "unregister"
    /\ connections' = [connections EXCEPT ![HelloId[c]] = {}]
    /\ Goto(c, "disconnect")
    /\ UNCHANGED <<outboxes, taskVars, channelVars, online, historyVars>>

\* router.disconnect; the hook follows only if the id was connected.
Disconnect(c) ==
    /\ pc[c] = "disconnect"
    /\ DisconnectId(HelloId[c])
    /\ Goto(c, IF Connected(HelloId[c]) THEN "on_disconnect" ELSE "closed")
    /\ UNCHANGED <<connections, taskVars, channelVars, online, historyVars>>

OnDisconnect(c) ==
    /\ pc[c] = "on_disconnect"
    /\ online' = [online EXCEPT ![HelloId[c]] = @ - 1]
    /\ Goto(c, "closed")
    /\ UNCHANGED <<outboxes, connections, taskVars, channelVars, historyVars>>

\* The writer sends the next queued event.
Write(c) ==
    /\ pc[c] # "on_connect" /\ receiver[c] /\ queue[c] # <<>>
    /\ queue' = [queue EXCEPT ![c] = Tail(@)]
    /\ written' = [written EXCEPT ![c] = Append(@, Head(queue[c]))]
    /\ UNCHANGED <<outboxes, pc, connections, taskVars, receiver, close, online, accepted>>

\* Faulty variant: the writer is not aborted when the task returns.
OnlySendFails(c) ==
    /\ receiver[c] /\ pc[c] # "on_connect" /\ queue[c] # <<>>
    /\ receiver' = [receiver EXCEPT ![c] = FALSE]
    /\ queue' = [queue EXCEPT ![c] = <<>>]
    /\ UNCHANGED <<outboxes, pc, connections, taskVars, close, online, historyVars>>

\* The send fails, or the writer is aborted: the receiving end is dropped.
WriterEnds(c) ==
    /\ receiver[c] /\ pc[c] # "on_connect" /\ (queue[c] # <<>> \/ pc[c] = "closed")
    /\ receiver' = [receiver EXCEPT ![c] = FALSE]
    /\ queue' = [queue EXCEPT ![c] = <<>>]
    /\ UNCHANGED <<outboxes, pc, connections, taskVars, close, online, historyVars>>
-----------------------------------------------------------------------------
\* The steps a task takes by itself.
Task(c) ==
    \/ Authorize(c)
    \/ RefuseDuplicate(c)
    \/ Register(c)
    \/ InsertHandle(c)
    \/ OnConnect(c)
    \/ RouteAccepted(c)
    \/ RouteRejected(c)
    \/ ReportError(c)
    \/ DrainTargets(c)
    \/ DeliverEvent(c)
    \/ DeliveryFails(c)
    \/ RemoveHandle(c)
    \/ Unregister(c)
    \/ Disconnect(c)
    \/ OnDisconnect(c)

\* The steps that depend on the client or on its socket.
Socket(c) ==
    \/ ReadHello(c)
    \/ NoHello(c)
    \/ Reject(c)
    \/ ReceiveEvent(c)
    \/ SocketEnds(c)
    \/ Write(c)
    \/ WriterEnds(c)

Next == \E c \in Connections : Task(c) \/ LeaveLoop(c) \/ Socket(c)

Spec == Init /\ [][Next]_vars

\* The runtime polls every ready task, and select! polls its branches in random order.
\* Nothing is assumed of the clients: one may stop reading, even while it is rejected.
FairSpec ==
    Spec /\ \A c \in Connections : WF_vars(Task(c)) /\ SF_vars(LeaveLoop(c))

-----------------------------------------------------------------------------
(* Properties.                                                             *)

Labels ==
    {"hello", "authorize", "reject", "register", "insert", "on_connect", "loop", "route",
     "report", "flush", "deliver", "remove", "unregister", "disconnect", "on_disconnect",
     "closed"}
Tags == Connections \X (1..MaxReceived)
Events ==
    [type : {"PeerKey", "EncryptedMessage", "ClientHello"}, from : ClientIds, to : ClientIds,
     tag : Tags] \cup [type : {"Ack", "Error"}, tag : Tags]

\* Every variable has its type; in particular no channel holds more than OutboxCapacity
\* events (mpsc::channel and try_send).
TypeOK ==
    /\ DOMAIN outboxes \subseteq ClientIds
    /\ \A id \in DOMAIN outboxes : outboxes[id] \in Seq(Events)
    /\ pc \in [Connections -> Labels]
    /\ connections \in [ClientIds -> SUBSET Connections]
    /\ event \in [Connections -> SUBSET Events]
    /\ deliveries \in [Connections -> Seq([handle : Connections, client_id : ClientIds,
                                           events : Seq(Events)])]
    /\ queue \in [Connections -> Seq(Events)]
    /\ \A c \in Connections : Len(queue[c]) <= OutboxCapacity
    /\ receiver \in [Connections -> BOOLEAN]
    /\ close \in [Connections -> BOOLEAN]
    /\ received \in [Connections -> 0..MaxReceived]
    /\ online \in [ClientIds -> Int]
    /\ accepted \subseteq [event : Events, for : Connections, reachable : BOOLEAN]
    /\ written \in [Connections -> Seq(Events)]

\* A client id belongs to at most one connection at a time, the router knows exactly the
\* ids that belong to one, and the handle stored under an id is its owner's: no event is
\* handed to a connection that has left (register_client, unregister_client and the
\* removal in flush_outboxes, under two different locks).
OneOwner ==
    \A id \in ClientIds :
        /\ \A c, d \in Owner(id) : c = d
        /\ Connected(id) <=> Owner(id) # {}
        /\ connections[id] \subseteq Owner(id)

\* What the tasks hold for connection c.
Taking(c) ==
    UNION {UNION {Range(d.events) : d \in {x \in Range(deliveries[t]) : x.handle = c}} :
             t \in Connections}

\* The places of the relay where events for connection c wait or have gone.
HeldFor(c) == Taking(c) \cup Range(queue[c]) \cup Range(written[c])

\* Routed events reach the connection that owned the id when they were routed, never a
\* later connection under the same id (disconnect, drain_outbox, OutboxDelivery.handle).
ReachesAddressee ==
    \A c \in Connections : \A e \in HeldFor(c) :
        e.type # "Error" => \E a \in accepted : a.event = e /\ a.for = c

\* c is on its way out: told to close, cut off from its writer or from the map, or past
\* the event loop.
Ending(c) ==
    \/ close[c] \/ ~receiver[c]
    \/ pc[c] \in {"unregister", "disconnect", "on_disconnect", "closed"}
    \/ /\ pc[c] \in {"loop", "route", "report", "flush", "deliver", "remove"}
       /\ connections[HelloId[c]] # {c}

\* What the relay still has for c: in its outbox, in a task's hands or in its channel.
InTransit(c) ==
    Taking(c) \cup Range(queue[c])
      \cup (IF Registered(c) THEN Range(outboxes[HelloId[c]]) ELSE {})

\* What was accepted and is still on its way.
Due ==
    {[event |-> a.event, for |-> a.for] : a \in {x \in accepted : x.event \in InTransit(x.for)}}

Leaving == {c \in Connections : Ending(c)}

\* The abstract relay.
Promise == INSTANCE Delivery WITH
    due <- Due, delivered <- written, leaving <- Leaving,
    Notices <- [type : {"Error"}, tag : Tags]

\* The tasks together keep the promise of the relay: whatever their interleaving, every
\* routed event is written to the connection that owned the id when it was routed, once,
\* although several tasks flush one outbox, and is lost only with that connection; a full
\* queue closes the connection rather than lose an event silently, and a connection on its
\* way out never comes back (route, drain_outbox, flush_outboxes, unregister_client).
ImplementsDelivery == Promise!Spec

\* A connection that was told to close is unregistered, whatever its client does
\* (close channel, unregister_client).
CloseCompletes == \A c \in Connections : close[c] ~> pc[c] = "closed"

\* All that was routed to d while its handle was in the map is in its channel or written.
Settled(d) ==
    \A a \in accepted :
        (a.for = d /\ a.reachable) => a.event \in Range(queue[d]) \cup Range(written[d])

\* An event routed to a connection whose handle is registered reaches its channel or its
\* socket, unless that connection goes (route_and_flush flushes both targets).
RoutedIsQueued == \A d \in Connections : []<>(Settled(d) \/ Ending(d))

\* A client that said hello gets into the loop or is turned away, whatever the clients
\* already connected do: only a denied client that does not read its rejection keeps the
\* others waiting, because the auth mutex is held while it is sent (handle_socket).
HelloAnswered ==
    []<>(\A d \in Connections : pc[d] # "reject") =>
        \A c \in Connections : pc[c] = "authorize" ~> pc[c] \in {"loop", "closed"}

-----------------------------------------------------------------------------
(* Statements of the documentation that the code does not keep.            *)

\* When an outbox is full the relay closes THAT connection: a registered connection loses
\* its handle only after it was told to close.  RemoveHandle goes by id and may find the
\* next connection of the same client.
OnlySlowClientsClosed ==
    \A c \in Connections : pc[c] = "loop" /\ ~close[c] => connections[HelloId[c]] = {c}

\* The hook sees a client connect, disconnect, connect, in turn.  The on_disconnect of
\* the old connection may come after the on_connect of the new one.
HooksConsistent == \A id \in ClientIds : online[id] <= 1
=============================================================================
