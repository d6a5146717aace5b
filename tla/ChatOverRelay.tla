--------------------------- MODULE ChatOverRelay ---------------------------
(***************************************************************************)
(* The whole system: the clients of ClientSession connected to each other  *)
(* by the tasks of Relay.  Every process has one WebSocket connection, so  *)
(* processes are the connections of the relay.                             *)
(*                                                                         *)
(* A socket carries a sequence in each direction: posted[p] is all that    *)
(* process p sent after its hello, of which the relay has read received[p];*)
(* written[p] is all that the relay wrote, of which p has read read[p].    *)
(* The relay's tag <<p, n>> names posted[p][n].  The set net of            *)
(* ClientSession is no longer a network but the history of what was sent,  *)
(* which is why Replays has to be TRUE here: it bounds what clients may be *)
(* handed, and the relay decides what they are handed.                     *)
(***************************************************************************)
EXTENDS ClientSession, Functions

CONSTANTS
    OutboxCapacity,     \* OUTBOX_CAPACITY
    Budget,             \* bound: how many lines, retries and exits each process has
    MayEnd,             \* bound: the processes that may end
    MayRekey,           \* bound: the processes where a handshake is started
    MaxPosted           \* bound: how many events the relay reads per process

ASSUME NetIsHistory == Replays
ASSUME CapacityIsPositive == OutboxCapacity \in Nat \ {0}
ASSUME MaxPostedIsNat == MaxPosted \in Nat

VARIABLES
    posted, read, budget,
    outboxes, pc, connections, event, deliveries, queue, receiver, close, received,
    online, accepted, written

\* What the router sees of an event.
Header(m) ==
    IF m.type = "PeerKey"
    THEN [type |-> "PeerKey", from |-> m.from, to |-> m.to]
    ELSE [type |-> "EncryptedMessage", from |-> m.sender, to |-> m.recipient]

Headers == [type : {"PeerKey", "EncryptedMessage"}, from : Clients, to : Clients]

Server == INSTANCE Relay WITH
    ClientIds <- Clients, Connections <- Processes, HelloId <- LocalId, Denied <- {},
    Traffic <- [p \in Processes |-> Headers], MaxReceived <- MaxPosted

socketVars == <<posted, read, budget>>
serverVars ==
    <<outboxes, pc, connections, event, deliveries, queue, receiver, close, received, online,
      accepted, written>>
systemVars == <<vars, socketVars, serverVars>>

SystemInit ==
    /\ Init
    /\ Server!Init
    /\ posted = [p \in Processes |-> <<>>]
    /\ read = [p \in Processes |-> 0]
    /\ budget = Budget

-----------------------------------------------------------------------------
(* The clients, with what they send in the order they send it.             *)

\* p sends the events.
Post(p, events) == posted' = [posted EXCEPT ![p] = @ \o events]

\* The envelopes that p encrypts in a step, in the order of their counters, which is the
\* order they are sent in.
Outgoing(p) ==
    [i \in 1..Cardinality(sent' \ sent) |->
        CHOOSE m \in sent' \ sent : m.nonce[2] = next_outbound_nonce[p] + i]

Ended(p) == phase[p] \in {"exited", "failed"}

\* bound: a step that p takes by itself uses up its budget, and only the processes of
\* MayEnd and MayRekey end or start a handshake.
Spend(p) ==
    /\ budget[p] > 0
    /\ budget' = [budget EXCEPT ![p] = @ - 1]
    /\ Ended(p)' => p \in MayEnd
    /\ pending_rekey'[p] # {} => p \in MayRekey

\* The timer, stdin, and the end of the process.
ClientActs(p) ==
    /\ \/ (Start(p) \/ RetryPeerKey(p)) /\ Post(p, <<PeerKey(p)>>)
       \/ ReadLine(p) /\ Post(p, Outgoing(p))
       \/ Quit(p) /\ UNCHANGED posted
    /\ Spend(p)
    /\ UNCHANGED <<read, serverVars>>

\* The frame that p reads next, and the event it carries.
Unread(p) == Running(p) /\ read[p] < Len(written[p])
NextFrame(p) == written[p][read[p] + 1]
IsControl(frame) == frame.type \in {"Ack", "Error"}
Carried(frame) == posted[frame.tag[1]][frame.tag[2]]

\* handle_event on an Ack or an Error: a status line at most.
ReadControl(p) ==
    /\ Unread(p) /\ IsControl(NextFrame(p))
    /\ read' = [read EXCEPT ![p] = @ + 1]
    /\ UNCHANGED <<vars, posted, budget, serverVars>>

\* handle_event on a PeerKey or an envelope, and the sending of the reply.
ReadEvent(p) ==
    /\ Unread(p) /\ ~IsControl(NextFrame(p))
    /\ LET m == Carried(NextFrame(p))
       IN  /\ Handle(p, m)
           /\ Post(p, IF m.type = "PeerKey" /\ AcceptsKey(p, m)
                      THEN Server!AsSequence(PeerKeyReply(p, m)) ELSE Outgoing(p))
    /\ read' = [read EXCEPT ![p] = @ + 1]
    /\ UNCHANGED <<budget, serverVars>>

\* reader.next() returns None or an error: the client ends.  What was written last may be
\* lost with the connection.
SocketCloses(p) ==
    /\ pc[p] = "closed" /\ ~receiver[p]
    /\ Quit(p)
    /\ UNCHANGED <<socketVars, serverVars>>

-----------------------------------------------------------------------------
(* The relay, reading from and writing to the sockets of the clients.      *)

\* The hello arrives, or the client has gone before it did.
ServerHello(p) ==
    \/ phase[p] # "new" /\ Server!ReadHello(p)
    \/ Ended(p) /\ Server!NoHello(p)

\* The next event that p sent.
ServerReceives(p) ==
    /\ received[p] < Len(posted[p])
    /\ Server!ReceiveEvent(p)
    /\ \E e \in event'[p] :
         [type |-> e.type, from |-> e.from, to |-> e.to] = Header(posted[p][received[p] + 1])

\* The relay notices that the client has gone, or that a socket it cannot write to is dead.
ServerLoses(p) ==
    \/ (Ended(p) \/ ~receiver[p]) /\ Server!SocketEnds(p)
    \/ (Ended(p) \/ pc[p] = "closed") /\ Server!WriterEnds(p)

\* The socket of a running client fails at the relay: an error before the hello, an error
\* in the loop (a frame over MAX_EVENT_BYTES, for one), or a send of the writer that fails.
\* bound: it counts as a step of p and happens to the processes of MayEnd.
ConnectionBreaks(p) ==
    /\ Running(p) /\ p \in MayEnd
    /\ Server!NoHello(p) \/ Server!SocketEnds(p) \/ Server!WriterEnds(p)
    /\ UNCHANGED <<vars, posted, read>>
    /\ Spend(p)

ServerActs(p) ==
    /\ \/ ServerHello(p)
       \/ ServerReceives(p)
       \/ ServerLoses(p)
       \/ Server!Task(p)
       \/ Server!LeaveLoop(p)
       \/ Server!Write(p)
    /\ UNCHANGED <<vars, socketVars>>

\* The steps that follow from what was sent: the loops of the clients and the tasks of the
\* relay take them without anybody starting a client, typing a line or quitting, and
\* without a connection that breaks.
Turns(p) == ReadControl(p) \/ ReadEvent(p) \/ SocketCloses(p) \/ ServerActs(p)

SystemNext == \E p \in Processes : ClientActs(p) \/ ConnectionBreaks(p) \/ Turns(p)

System == SystemInit /\ [][SystemNext]_systemVars

\* Something takes a step as long as something can; no retry is needed.
KeepsTurning == WF_systemVars(\E p \in Processes : Turns(p))

-----------------------------------------------------------------------------
(* Properties.                                                             *)

\* The frames on their way from the relay to p, in order, and the events among them.
Incoming(p) == SubSeq(written[p], read[p] + 1, Len(written[p])) \o queue[p]
IncomingEvents(p) == {f \in Range(Incoming(p)) : ~IsControl(f)}

\* An envelope of the current epoch that reaches a paired client opens: the relay hands
\* over no envelope twice or to the wrong process, and so the only envelopes that a client
\* ever drops are those of another epoch (route_and_flush and decrypt together).
CurrentEpochOpens ==
    \A p, q \in Processes : \A f \in IncomingEvents(p) :
        LET m == Carried(f)
        IN  (Between(q, p, m) /\ m.epoch = epoch[p]) => Decrypts(p, m)

\* A client that has sent no envelope gets the events of each sender in the order they
\* were sent: only its own task, when it flushes the outbox that its Ack is in, competes
\* with the sender's for what waits there (delivery_targets, flush_outboxes).
InOrderBeforeWriting ==
    \A p \in Processes : (\A i \in 1..received[p] : posted[p][i].type = "PeerKey") =>
        LET frames == written[p] \o queue[p]
        IN  \A i, j \in 1..Len(frames) :
                (/\ i < j /\ ~IsControl(frames[i]) /\ ~IsControl(frames[j])
                 /\ frames[i].tag[1] = frames[j].tag[1])
                    => frames[i].tag[2] < frames[j].tag[2]

\* What the relay accepted for a process whose handle was in the map is read by that very
\* process, unless it ends or the relay gives its connection up: an envelope at the
\* recipient and its Ack at the sender, also when other processes of the same client come
\* and go (route_and_flush with the two delivery_targets of an envelope, the writer, run).
RoutedIsRead ==
    []<>(\A a \in accepted : a.reachable =>
            \/ a.event \in Range(SubSeq(written[a.for], 1, read[a.for]))
            \/ ~Running(a.for) \/ Server!Ending(a.for))

\* A client whose connection the relay gave up does not linger: refused, told to close,
\* dropped from the map or cut off by an error, it gets to see the end of its socket (the
\* returns of handle_socket, unregister_client, writer.abort, reader.next).
CutOffEnds == []<>(\A p \in Processes : ~(Running(p) /\ Server!Ending(p)))

\* Committing right after the response is sent is safe: the peer reads the response
\* before anything of the next epoch.  An envelope of the next epoch may overtake the
\* response, when the peer's own task has taken the response out of the outbox and not
\* yet queued it.
ResponseComesFirst ==
    \A p, q \in Processes : Unread(p) /\ ~IsControl(NextFrame(p)) =>
        LET m == Carried(NextFrame(p))
        IN  Between(q, p, m) => m.epoch <= epoch[p]
=============================================================================
