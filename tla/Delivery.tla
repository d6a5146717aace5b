------------------------------ MODULE Delivery ------------------------------
(***************************************************************************)
(* What the relay promises of the events it accepts: each one is due to    *)
(* the connection that it is meant for, and is written to that connection  *)
(* and to no other, once, or lost with that connection when it leaves.     *)
(* Besides these a connection is only sent notices.  Nothing is promised   *)
(* of the order.                                                           *)
(***************************************************************************)
EXTENDS Sequences, Functions

CONSTANTS
    Connections,
    Notices     \* the events that the relay makes up and never accepts

VARIABLES
    due,        \* the [event, for] pairs accepted and not yet written
    delivered,  \* the events written to each connection, in order
    leaving     \* the connections on their way out

deliveryVars == <<due, delivered, leaving>>

Init ==
    /\ due = {}
    /\ delivered = [c \in Connections |-> <<>>]
    /\ leaving = {}

\* The event is on its way to a connection, or has been there.
Known(e) == (\E d \in due : d.event = e) \/ \E c \in Connections : e \in Range(delivered[c])

\* Events that the relay has never seen become due, each to one connection.
Accept ==
    /\ due \subseteq due'
    /\ \A d \in due' \ due : ~Known(d.event)
    /\ \A d1, d2 \in due' \ due : d1.event = d2.event => d1 = d2
    /\ UNCHANGED <<delivered, leaving>>

Deliver ==
    /\ \E d \in due :
         /\ delivered' = [delivered EXCEPT ![d.for] = Append(@, d.event)]
         /\ due' = due \ {d}
    /\ UNCHANGED leaving

\* The connection is told something about what it sent.
Notify ==
    /\ \E c \in Connections, e \in Notices :
         delivered' = [delivered EXCEPT ![c] = Append(@, e)]
    /\ UNCHANGED <<due, leaving>>

\* Connections leave for good, and only what is due to one that leaves is lost.
Leave ==
    /\ leaving \subseteq leaving'
    /\ due' \subseteq due
    /\ \A d \in due \ due' : d.for \in leaving'
    /\ UNCHANGED delivered

Spec == Init /\ [][Accept \/ Deliver \/ Notify \/ Leave]_deliveryVars
=============================================================================
