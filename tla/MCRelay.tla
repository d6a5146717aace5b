------------------------------ MODULE MCRelay ------------------------------
(* Relay with two clients, one of which connects twice.                    *)
EXTENDS Relay, TLC

CONSTANTS Alice, Bob, a1, a2, b1

MCHelloId == [c \in Connections |-> IF c = b1 THEN Bob ELSE Alice]

Nobody == {}
SecondDenied == {a2}

Envelope(from, to) == [type |-> "EncryptedMessage", from |-> from, to |-> to]
KeyOf(from, to) == [type |-> "PeerKey", from |-> from, to |-> to]

\* The first connection of Alice and Bob write to each other; the second one of Alice
\* sends nothing.
Reconnection ==
    a1 :> {Envelope(Alice, Bob)} @@ a2 :> {} @@ b1 :> {Envelope(Bob, Alice)}

\* Bob also sends an event that is not for routing, and one in the name of Alice.
OddEvents ==
    a1 :> {Envelope(Alice, Bob)} @@ a2 :> {}
    @@ b1 :> {Envelope(Bob, Alice), KeyOf(Alice, Bob),
              [type |-> "ClientHello", from |-> Bob, to |-> Alice]}
=============================================================================
