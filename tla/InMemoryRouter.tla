--------------------------- MODULE InMemoryRouter ---------------------------
(***************************************************************************)
(* The default MessageRouter, crates/chat-server/src/router.rs: one outbox *)
(* per connected client id.  Every operator here is one call of the trait, *)
(* made under the router mutex.                                            *)
(*                                                                         *)
(* An event keeps its type, its two ids and a tag that names it: the       *)
(* message id of an envelope, and a history value for a PeerKey, which     *)
(* carries no id.                                                          *)
(***************************************************************************)
EXTENDS Naturals, Sequences, Functions

CONSTANT ClientIds

VARIABLE outboxes       \* the outbox of each connected client id

Connected(id) == id \in DOMAIN outboxes

RouterInit == outboxes = [id \in {} |-> <<>>]

\* connect, when the id is free.
ConnectId(id) ==
    outboxes' = [i \in DOMAIN outboxes \cup {id} |-> IF i = id THEN <<>> ELSE outboxes[i]]

\* disconnect: what the outbox still holds is lost.
DisconnectId(id) == outboxes' = Restrict(outboxes, DOMAIN outboxes \ {id})

Ack(e) == [type |-> "Ack", tag |-> e.tag]

\* ack_for: only envelopes are acknowledged.
AckFor(e) == IF e.type = "EncryptedMessage" THEN <<Ack(e)>> ELSE <<>>

\* The error that route(id, e) returns, if any, in the order of its checks.
RouteError(id, e) ==
    IF ~Connected(id) THEN {"ClientNotConnected"}
    ELSE IF e.type \notin {"PeerKey", "EncryptedMessage"} THEN {"UnsupportedEvent"}
    ELSE IF e.from # id THEN {"SenderMismatch"}
    ELSE IF ~Connected(e.to) THEN {"UnknownRecipient"}
    ELSE {}

\* An accepted event goes to the recipient's outbox, then its Ack to the sender's.
RouteEvent(id, e) ==
    LET pushed == [outboxes EXCEPT ![e.to] = Append(@, e)]
    IN  outboxes' = [pushed EXCEPT ![id] = @ \o AckFor(e)]

\* Faulty variant: the events are read but left in the outbox.
CopyOutboxes(ids) == outboxes' = outboxes

\* drain_outbox of every id in ids.
DrainOutboxes(ids) ==
    outboxes' = [i \in DOMAIN outboxes |-> IF i \in ids THEN <<>> ELSE outboxes[i]]
=============================================================================
