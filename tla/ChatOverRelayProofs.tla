------------------------ MODULE ChatOverRelayProofs ------------------------
(* The whole system implements both of its parts.                          *)
EXTENDS SocketProofs, LockstepProofs

\* A client only handles an event that was sent (the relay makes up no PeerKey and no
\* envelope).
LEMMA HandledWasSent ==
    ASSUME NEW p \in Processes, NEW m, Handle(p, m)
    PROVE  Receive(p)
<1>1. m \in net
  BY ZenonT(60) DEF Handle, AcceptPeerKey, IgnorePeerKey, RejectEnvelope, ReceiveChat,
         ReceiveRekeyRequest, ResponseNotSent, RotateAsResponder, StageWithoutReply,
         ReceiveRekeyResponse, RefuseHandshake, OpensAs, Opens, Delivered
<1> QED
  BY <1>1, ZenonT(60) DEF Receive

\* Every step of the system is a step of the clients or leaves them alone.
LEMMA ClientSteps == [SystemNext]_systemVars => [Next]_vars
<1> SUFFICES ASSUME [SystemNext]_systemVars PROVE [Next]_vars
  BY ZenonT(60)
<1>1. CASE UNCHANGED systemVars
  BY <1>1, ZenonT(60) DEF systemVars
<1>2. ASSUME NEW p \in Processes, ClientActs(p) PROVE Next
  BY <1>2, ZenonT(60) DEF ClientActs, Next
<1>3. ASSUME NEW p \in Processes, ReadControl(p) PROVE UNCHANGED vars
  BY <1>3, ZenonT(60) DEF ReadControl
<1>4. ASSUME NEW p \in Processes, ReadEvent(p) PROVE Next
  <2>1. Handle(p, Carried(NextFrame(p)))
    BY <1>4, ZenonT(60) DEF ReadEvent
  <2> QED
    BY <2>1, HandledWasSent, ZenonT(60) DEF Next
<1>5. ASSUME NEW p \in Processes, SocketCloses(p) PROVE Next
  BY <1>5, ZenonT(60) DEF SocketCloses, Next
<1>6. ASSUME NEW p \in Processes, ConnectionBreaks(p) \/ ServerActs(p) PROVE UNCHANGED vars
  BY <1>6, ZenonT(60) DEF ConnectionBreaks, ServerActs
<1> QED
  BY <1>1, <1>2, <1>3, <1>4, <1>5, <1>6, ZenonT(60) DEF SystemNext, Turns

\* The clients connected by the relay behave like the clients over the network of
\* ClientSession, which may repeat and reorder (main.rs over ws.rs).
THEOREM ClientsImplemented == System => Spec
<1>1. SystemInit => Init
  BY Zenon DEF SystemInit
<1> QED
  BY <1>1, ClientSteps, PTL DEF System, Spec

\* The relay between these clients is the relay of module Relay: what holds of its tasks
\* for any traffic holds for the traffic of the clients (ws.rs under main.rs).
THEOREM RelayImplemented == System => Server!Spec
<1>1. SystemInit => Server!Init
  BY ZenonT(60) DEF SystemInit
<1>2. [SystemNext]_systemVars => [Server!Next]_(Server!vars)
  <2> SUFFICES ASSUME [SystemNext]_systemVars PROVE [Server!Next]_(Server!vars)
    OBVIOUS
  <2>0. UNCHANGED serverVars => UNCHANGED Server!vars
    BY Zenon
       DEF serverVars, Server!vars, Server!taskVars, Server!channelVars, Server!historyVars
  <2>1. CASE UNCHANGED systemVars
    BY <2>0, <2>1, ZenonT(60) DEF systemVars
  <2>2. ASSUME NEW p \in Processes, ClientActs(p) PROVE UNCHANGED serverVars
    BY <2>2, ZenonT(60) DEF ClientActs
  <2>3. ASSUME NEW p \in Processes, ReadControl(p) PROVE UNCHANGED serverVars
    BY <2>3, ZenonT(60) DEF ReadControl
  <2>4. ASSUME NEW p \in Processes, ReadEvent(p) PROVE UNCHANGED serverVars
    BY <2>4, ZenonT(60) DEF ReadEvent
  <2>5. ASSUME NEW p \in Processes, SocketCloses(p) PROVE UNCHANGED serverVars
    BY <2>5, ZenonT(60) DEF SocketCloses
  <2>6. ASSUME NEW p \in Processes, ServerActs(p) PROVE Server!Next
    BY <2>6, ZenonT(60) DEF ServerActs, ServerHello, ServerReceives, ServerLoses, Server!Next,
                Server!Socket
  <2>7. ASSUME NEW p \in Processes, ConnectionBreaks(p) PROVE Server!Next
    BY <2>7, ZenonT(60) DEF ConnectionBreaks, Server!Next, Server!Socket
  <2> QED
    BY <2>0, <2>1, <2>2, <2>3, <2>4, <2>5, <2>6, <2>7, ZenonT(60) DEF SystemNext, Turns
<1> QED
  BY <1>1, <1>2, PTL DEF System, Server!Spec

\* Over the relay no AEAD key is ever used twice with one nonce (encrypt, next_nonce).
THEOREM SystemNonceUniqueness == System => []NoNonceReuse
  BY ClientsImplemented, NonceUniqueness, PTL

\* Over the relay no established session is rebuilt (handle_event on a repeated PeerKey,
\* apply_next_master).
THEOREM SystemSessionIntegrity == System => SessionNeverRebuilt
  BY ClientsImplemented, SessionIntegrity, PTL

\* Over the relay no chat line is printed twice (decrypt, mark_seen, apply_next_master).
THEOREM SystemPrintedOnce == System => []AtMostOnce
  BY ClientsImplemented, PrintedOnce, PTL

\* Over the relay two paired ends never diverge (start_rekey, handle_session_payload,
\* commit_staged_rekey).
THEOREM SystemInStep == System => []InStep
  BY ClientsImplemented, EndsStayInStep, PTL

-----------------------------------------------------------------------------
(* What the clients read.  The clients keep their part of the invariant if *)
(* the relay keeps its own: FramesTagged and FramesStay.                   *)

SocketInv == StepInv /\ Labelled /\ Posted /\ Counts /\ SeenWasRead

\* At the start the sockets are empty.
LEMMA SocketInvInit == SystemInit => SocketInv
<1> SUFFICES ASSUME SystemInit PROVE SocketInv
  BY Zenon
<1>1. Init /\ Server!Init
  BY Zenon DEF SystemInit
<1>2. StepInv
  BY <1>1, StepInvInit, Zenon
<1>3. sent = {} /\ \A p \in Processes : inbound_nonces[p] = {}
  BY <1>1, Zenon DEF Init
<1>4. Labelled /\ SeenWasRead
  BY <1>3, Zenon DEF Labelled, SeenWasRead
<1>5. \A p \in Processes : posted[p] = <<>> /\ written[p] = <<>>
  BY <1>1, Zenon DEF SystemInit, Server!Init
<1>6. posted \in [Processes -> Seq(Envelopes \cup PeerKeys)]
  BY DEF SystemInit
<1>7. Posted
  <2>1. \A p \in Processes : 1..Len(posted[p]) = {}
    BY <1>5
  <2> QED
    BY <1>6, <2>1, Zenon DEF Posted, OwnKeys
<1>8. Counts
  <2>1. /\ read \in [Processes -> Nat] /\ received \in [Processes -> Nat]
        /\ \A p \in Processes : read[p] = 0 /\ received[p] = 0
    BY <1>1 DEF SystemInit, Server!Init
  <2>2. \A p \in Processes : Len(posted[p]) = 0 /\ Len(written[p]) = 0
    BY <1>5
  <2> QED
    BY <2>1, <2>2 DEF Counts
<1> QED
  BY <1>2, <1>4, <1>7, <1>8, Zenon DEF SocketInv

\* Every step keeps what is known of the sockets, given what the relay keeps.
LEMMA SocketInvNext ==
  ASSUME SocketInv, FramesTagged, FramesStay, [SystemNext]_systemVars
  PROVE  SocketInv'
<1>1. [Next]_vars
  BY ClientSteps, Zenon
<1>2. NonceInv /\ TypeOK /\ KeyOrigin /\ NetWasSent
  BY Zenon DEF SocketInv, StepInv, NonceInv, IdInv
<1>3. StepInv' /\ Labelled'
  BY <1>1, <1>2, StepInvNext, LabelledNext, Zenon DEF SocketInv
<1>4. Posted'
  <2>1. net \subseteq net' /\ TypeOK'
    BY <1>1, <1>3, NetGrows, Zenon DEF StepInv, NonceInv
  <2> QED
    BY <1>2, <2>1, StepPosts, PostingKeepsPosted, SilenceKeepsPosted, Zenon DEF SocketInv
<1>5. Counts'
  BY <1>2, CountsNext, Zenon DEF SocketInv
<1>6. SeenWasRead'
  <2>1. \A p \in Processes, m \in net : Opens(p, m) =>
            Author(m) \in Processes /\ Paired(p, Author(m))
    BY OpenedByPeer, Zenon DEF SocketInv
  <2> QED
    BY <1>1, <1>2, <2>1, SeenNext, Zenon DEF SocketInv
<1> QED
  BY <1>3, <1>4, <1>5, <1>6, Zenon DEF SocketInv

\* What it says of what was sent.
LEMMA SocketFacts == SocketInv => NonceInv /\ NetWasSent /\ ForPeer
  BY Zenon DEF SocketInv, StepInv, IdInv, Handshakes, SealedBy, ForPeer

\* At the start the relay has nothing in hand.
LEMMA HandsInit == SystemInit => InHand /\ AcksForEnvelopes
  BY Zenon DEF SystemInit, Server!Init, InHand, AcksForEnvelopes

\* What the relay has in hand, and what it acknowledges, after a step.
LEMMA HandsNext ==
  ASSUME SocketInv, SocketInv', NEW S, event \in [Processes -> SUBSET S], InHand,
         AcksForEnvelopes, AcksMade, [SystemNext]_systemVars
  PROVE  InHand' /\ AcksForEnvelopes'
<1>1. NonceInv /\ NetWasSent /\ ForPeer /\ Posted /\ Posted' /\ Counts
  BY SocketFacts, Zenon DEF SocketInv
<1> QED
  BY <1>1, InHandNext, AcksNext, Zenon

\* Frames with tags of their own bring no envelope a second time, so what is unread opens.
LEMMA SocketOpens == SocketInv /\ FramesTagged => CurrentEpochOpens
<1> SUFFICES ASSUME SocketInv, FramesTagged PROVE CurrentEpochOpens
  BY Zenon
<1>1. NonceInv /\ NetWasSent /\ CurrentEpochReadable
  BY ReadableNow, Zenon DEF SocketInv, StepInv, IdInv
<1>2. \A p, q, r \in Processes : Paired(p, q) /\ Paired(p, r) => q = r
  BY <1>1, PairedOnce, Zenon
<1> QED
  BY <1>1, <1>2, UnreadOpens, Zenon DEF SocketInv

-----------------------------------------------------------------------------
(* What the sockets carry.  The facts that module PlaceProofs has of any   *)
(* traffic are those of the relay between the clients.                     *)

Routing == INSTANCE PlaceProofs WITH
    ClientIds <- Clients, Connections <- Processes, HelloId <- LocalId, Denied <- {},
    Traffic <- [p \in Processes |-> Headers], MaxReceived <- MaxPosted

\* The relay's constants are as the relay assumes.
LEMMA RelayConstants ==
  /\ LocalId \in [Processes -> Clients]
  /\ OutboxCapacity \in Nat \ {0}
  /\ MaxPosted \in Nat
  /\ [p \in Processes |-> Headers] \in
       [Processes -> SUBSET [type : {"PeerKey", "EncryptedMessage", "ClientHello"},
                             from : Clients, to : Clients]]
  BY LocalIdIsClient, CapacityIsPositive, MaxPostedIsNat DEF Headers

\* The relay of the proofs is the relay of the system.
LEMMA SameTask ==
  ASSUME NEW p \in Processes
  PROVE  Server!Task(p) <=> Routing!Task(p)
  BY Zenon DEF
      Server!Task, Server!Authorize, Server!RefuseDuplicate, Server!Register,
      Server!InsertHandle, Server!OnConnect, Server!RouteAccepted, Server!RouteRejected,
      Server!ReportError, Server!DrainTargets, Server!DeliverEvent,
      Server!DeliveryFails, Server!RemoveHandle, Server!Unregister, Server!Disconnect,
      Server!OnDisconnect, Server!Goto, Server!Return, Server!NextDelivery,
      Server!Taken, Server!AsSequence, Server!DeliveryTargets, Server!Accepting,
      Server!ShouldReport, Server!Addressed, Server!Owner, Server!Registered,
      Server!taskVars, Server!channelVars, Server!historyVars, Server!Connected,
      Server!ConnectId, Server!DisconnectId, Server!RouteError, Server!RouteEvent,
      Server!AckFor, Server!Ack, Server!DrainOutboxes, Server!Restrict, Server!Range,
      Routing!Task, Routing!Authorize, Routing!RefuseDuplicate, Routing!Register,
      Routing!InsertHandle, Routing!OnConnect, Routing!RouteAccepted,
      Routing!RouteRejected, Routing!ReportError, Routing!DrainTargets,
      Routing!DeliverEvent, Routing!DeliveryFails, Routing!RemoveHandle,
      Routing!Unregister, Routing!Disconnect, Routing!OnDisconnect, Routing!Goto,
      Routing!Return, Routing!NextDelivery, Routing!Taken, Routing!AsSequence,
      Routing!DeliveryTargets, Routing!Accepting, Routing!ShouldReport,
      Routing!Addressed, Routing!Owner, Routing!Registered, Routing!taskVars,
      Routing!channelVars, Routing!historyVars, Routing!Connected, Routing!ConnectId,
      Routing!DisconnectId, Routing!RouteError, Routing!RouteEvent, Routing!AckFor,
      Routing!Ack, Routing!DrainOutboxes, Routing!Restrict, Routing!Range

\* So are its other steps.
LEMMA SameSocket ==
  \A p \in Processes :
    /\ Server!ReadHello(p) <=> Routing!ReadHello(p)
    /\ Server!NoHello(p) <=> Routing!NoHello(p)
    /\ Server!ReceiveEvent(p) <=> Routing!ReceiveEvent(p)
    /\ Server!SocketEnds(p) <=> Routing!SocketEnds(p)
    /\ Server!Write(p) <=> Routing!Write(p)
    /\ Server!WriterEnds(p) <=> Routing!WriterEnds(p)
    /\ Server!LeaveLoop(p) <=> Routing!LeaveLoop(p)
  BY Zenon DEF
      Server!Socket, Server!ReadHello, Server!NoHello, Server!Reject,
      Server!ReceiveEvent, Server!SocketEnds, Server!Write, Server!WriterEnds,
      Server!LeaveLoop, Server!CloseResolves, Server!HandleInUse, Server!Goto,
      Server!Return, Server!Registered, Server!taskVars, Server!channelVars,
      Server!historyVars, Routing!Socket, Routing!ReadHello, Routing!NoHello,
      Routing!Reject, Routing!ReceiveEvent, Routing!SocketEnds, Routing!Write,
      Routing!WriterEnds, Routing!LeaveLoop, Routing!CloseResolves, Routing!HandleInUse,
      Routing!Goto, Routing!Return, Routing!Registered, Routing!taskVars,
      Routing!channelVars, Routing!historyVars

\* Every step of the system is a step of the relay or leaves it alone.
LEMMA RelaySteps == [SystemNext]_systemVars => [Routing!Next]_(Routing!vars)
<1> SUFFICES ASSUME [SystemNext]_systemVars PROVE [Routing!Next]_(Routing!vars)
  BY Zenon
<1>1. UNCHANGED serverVars => UNCHANGED Routing!vars
  BY Zenon
     DEF serverVars, Routing!vars, Routing!taskVars, Routing!channelVars, Routing!historyVars
<1>2. CASE UNCHANGED systemVars
  BY <1>1, <1>2, Zenon DEF systemVars
<1>3. ASSUME NEW p \in Processes, ClientActs(p) \/ ReadControl(p) \/ ReadEvent(p) \/ SocketCloses(p)
      PROVE  UNCHANGED serverVars
  BY <1>3, Zenon DEF ClientActs, ReadControl, ReadEvent, SocketCloses
<1>4. ASSUME NEW p \in Processes, ConnectionBreaks(p) \/ ServerActs(p) PROVE Routing!Next
  <2>1. Routing!Task(p) \/ Routing!LeaveLoop(p) \/ Routing!Socket(p)
    BY <1>4, SameTask, SameSocket, Zenon
       DEF ConnectionBreaks, ServerActs, ServerHello, ServerReceives, ServerLoses, Routing!Socket
  <2> QED
    BY <2>1, Zenon DEF Routing!Next
<1> QED
  BY <1>1, <1>2, <1>3, <1>4, Zenon DEF SystemNext, Turns

\* At the start of the system the relay is at its start.
LEMMA RelayStarts == Server!Init => Routing!Init
  BY Zenon DEF Server!Init, Routing!Init, Server!RouterInit, Routing!RouterInit

\* A frame that carries an event is one of the relay's, with a tag of its own.
LEMMA RelayTags == Routing!PlaceInv /\ Routing!OneTag => FramesTagged
<1> SUFFICES ASSUME Routing!PlaceInv, Routing!OneTag, NEW p \in Processes
             PROVE  /\ \E S : written[p] \in Seq(S) /\ queue[p] \in Seq(S)
                    /\ \A i \in 1..Len(Frames(p)) : ~IsControl(Frames(p)[i]) =>
                         /\ Frames(p)[i].tag[1] \in Processes
                         /\ Frames(p)[i].tag[2] \in 1..received[Frames(p)[i].tag[1]]
                         /\ \A j \in 1..Len(Frames(p)) :
                              (/\ ~IsControl(Frames(p)[j])
                               /\ Frames(p)[j].tag[1] = Frames(p)[i].tag[1]
                               /\ Frames(p)[j].tag[2] = Frames(p)[i].tag[2]) => j = i
  BY Zenon DEF FramesTagged
<1>1. written[p] \in Seq(Routing!Events) /\ queue[p] \in Seq(Routing!Events)
  BY Zenon DEF Routing!PlaceInv, Routing!MailInv, Routing!QueueInv
<1>2. Routing!Stream(p) = Frames(p)
  BY Zenon DEF Routing!Stream, Frames
<1>3. \A f : ~IsControl(f) <=> Routing!CarriesEvent(f)
  BY Zenon DEF IsControl, Routing!CarriesEvent
<1>4. ASSUME NEW i \in 1..Len(Frames(p)), ~IsControl(Frames(p)[i])
      PROVE  /\ Frames(p)[i].tag[1] \in Processes
             /\ Frames(p)[i].tag[2] \in 1..received[Frames(p)[i].tag[1]]
             /\ \A j \in 1..Len(Frames(p)) :
                  (/\ ~IsControl(Frames(p)[j])
                   /\ Frames(p)[j].tag[1] = Frames(p)[i].tag[1]
                   /\ Frames(p)[j].tag[2] = Frames(p)[i].tag[2]) => j = i
  BY <1>2, <1>3, <1>4, RelayConstants, Routing!StreamTags, Zenon
<1> QED
  BY <1>1, <1>4, Zenon

\* The relay only adds to what it wrote.
LEMMA RelayStays ==
  ASSUME Routing!PlaceInv, [SystemNext]_systemVars
  PROVE  FramesStay
<1>1. [Routing!Next]_(Routing!vars) /\ Routing!PlaceInv'
  BY RelaySteps, RelayConstants, Routing!PlaceInvNext, Zenon
<1>2. Routing!MailInv /\ Routing!MailInv'
  BY <1>1, Zenon DEF Routing!PlaceInv
<1>3. \A p \in Processes : written[p] \in Seq(Routing!Events) /\ written'[p] \in Seq(Routing!Events)
  BY <1>2, Zenon DEF Routing!MailInv, Routing!QueueInv
<1>4. \A p \in Processes : Len(written[p]) \in Nat /\ Len(written'[p]) \in Nat
  BY <1>3
<1> QED
  BY <1>1, <1>2, <1>4, RelayConstants, Routing!WrittenGrows, Zenon DEF FramesStay

SystemInv == SocketInv /\ Routing!PlaceInv /\ Routing!OneTag

\* At the start nothing was sent.
LEMMA SystemInvInit == SystemInit => SystemInv
<1>1. SystemInit => SocketInv /\ Routing!Init
  BY SocketInvInit, RelayStarts, Zenon DEF SystemInit
<1> QED
  BY <1>1, RelayConstants, Routing!PlaceInvInit, Routing!OneTagInit, Zenon DEF SystemInv

\* Every step of the system keeps what the clients and the relay keep.
LEMMA SystemInvNext == SystemInv /\ [SystemNext]_systemVars => SystemInv'
<1> SUFFICES ASSUME SystemInv, [SystemNext]_systemVars PROVE SystemInv'
  BY Zenon
<1>1. Routing!PlaceInv' /\ Routing!OneTag'
  BY RelaySteps, RelayConstants, Routing!PlaceInvNext, Routing!OneTagNext, Zenon DEF SystemInv
<1>2. SocketInv'
  BY RelayTags, RelayStays, SocketInvNext, Zenon DEF SystemInv
<1> QED
  BY <1>1, <1>2, Zenon DEF SystemInv

\* Over the relay an envelope of the current epoch that reaches a paired client opens
\* (route_and_flush and decrypt together).
THEOREM SystemEpochOpens == System => []CurrentEpochOpens
<1>1. SystemInv => CurrentEpochOpens
  BY RelayTags, SocketOpens, Zenon DEF SystemInv
<1> QED
  BY <1>1, SystemInvInit, SystemInvNext, PTL DEF System

-----------------------------------------------------------------------------
(* The order in which the events of a client arrive.                       *)

\* The relay makes an Ack of an envelope that it has in hand.
LEMMA RelayAcks ==
  ASSUME Routing!PlaceInv, [SystemNext]_systemVars
  PROVE  AcksMade
<1>1. UNCHANGED accepted \/ \E p \in Processes : Routing!RouteAccepted(p)
  BY RelaySteps, RelayConstants, Routing!OnlyRoutingAccepts, Zenon
<1>2. ASSUME NEW p \in Processes, Routing!RouteAccepted(p) PROVE AcksMade
  BY <1>2, RelayConstants, Routing!AcksAreMade, Zenon DEF AcksMade
<1>3. CASE UNCHANGED accepted
  BY <1>3, Zenon DEF AcksMade
<1> QED
  BY <1>1, <1>2, <1>3, Zenon

\* The two clients write to each other.
LEMMA RelayPeers == InHand => Routing!TwoClients /\ Routing!NoneToSelf
<1>1. Routing!TwoClients
  BY Zenon DEF Routing!TwoClients, Clients
<1>2. InHand => Routing!NoneToSelf
  BY PeerIdType, Zenon DEF InHand, Routing!NoneToSelf
<1> QED
  BY <1>1, <1>2, Zenon

\* The frames of the stream of a client that is owed no Ack are in order.
LEMMA RelayInOrder ==
  ASSUME Routing!PlaceInv, Routing!OrderInv, AcksForEnvelopes
  PROVE  InOrderBeforeWriting
<1> SUFFICES ASSUME NEW p \in Processes, \A i \in 1..received[p] : posted[p][i].type = "PeerKey",
                    NEW i \in 1..Len(Frames(p)), NEW j \in 1..Len(Frames(p)),
                    i < j, ~IsControl(Frames(p)[i]), ~IsControl(Frames(p)[j]),
                    Frames(p)[i].tag[1] = Frames(p)[j].tag[1]
             PROVE  Frames(p)[i].tag[2] < Frames(p)[j].tag[2]
  BY Zenon DEF InOrderBeforeWriting, Frames
<1>1. Routing!Stream(p) = Frames(p)
  BY Zenon DEF Routing!Stream, Frames
<1>2. Routing!CarriesEvent(Frames(p)[i]) /\ Routing!CarriesEvent(Frames(p)[j])
  BY Zenon DEF IsControl, Routing!CarriesEvent
<1>3. Routing!Silent(p)
  BY NoneOwed, Zenon DEF Routing!Silent
<1>4. Routing!Later(Frames(p)[i], Frames(p)[j])
  BY <1>1, <1>2, <1>3, RelayConstants, Routing!StreamInOrder, Zenon
<1> QED
  BY <1>4, Zenon DEF Routing!Later

OrderedInv == SystemInv /\ InHand /\ AcksForEnvelopes /\ Routing!OrderInv

\* Over the relay a client that has sent no envelope gets the events of each sender in the
\* order they were sent (delivery_targets, flush_outboxes): only its own task, when it
\* flushes the outbox that its Ack is in, competes with the sender's.
THEOREM SystemInOrder == System => []InOrderBeforeWriting
<1>1. SystemInit => OrderedInv
  <2>1. SystemInit => Routing!OrderInv
    BY RelayStarts, RelayConstants, Routing!OrderInvInit, Zenon DEF SystemInit
  <2> QED
    BY <2>1, SystemInvInit, HandsInit, Zenon DEF OrderedInv
<1>2. OrderedInv /\ [SystemNext]_systemVars => OrderedInv'
  <2> SUFFICES ASSUME OrderedInv, [SystemNext]_systemVars PROVE OrderedInv'
    BY Zenon
  <2>1. /\ SystemInv /\ SystemInv' /\ SocketInv /\ SocketInv' /\ Routing!PlaceInv
        /\ InHand /\ AcksForEnvelopes /\ Routing!OrderInv
    BY SystemInvNext, Zenon DEF OrderedInv, SystemInv
  <2>2. event \in [Processes -> SUBSET Routing!Requests]
    BY <2>1, Zenon DEF Routing!PlaceInv, Routing!MailInv, Routing!RestInv
  <2>3. InHand' /\ AcksForEnvelopes'
    BY <2>1, <2>2, RelayAcks, HandsNext, Zenon
  <2>4. Routing!OrderInv'
    BY <2>1, RelaySteps, RelayPeers, RelayConstants, Routing!OrderInvNext, Zenon
  <2> QED
    BY <2>1, <2>3, <2>4, Zenon DEF OrderedInv
<1>3. OrderedInv => InOrderBeforeWriting
  BY RelayInOrder, Zenon DEF OrderedInv, SystemInv
<1> QED
  BY <1>1, <1>2, <1>3, PTL DEF System
=============================================================================
