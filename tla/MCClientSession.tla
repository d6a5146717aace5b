-------------------------- MODULE MCClientSession --------------------------
(* Small instances of ClientSession.                                       *)
EXTENDS ClientSession

CONSTANTS a1, a2, b1    \* processes: two runs of Alice's client, one of Bob's

MCLocalId == [p \in Processes |-> IF p = b1 THEN Bob ELSE Alice]

NoPin == [p \in Processes |-> {}]

\* Bob only accepts the key of the second run of Alice's client.
BobPinsA2 == [p \in Processes |-> IF p = b1 THEN {StaticSecret(a2)} ELSE {}]

NoAutoRekey == [p \in Processes |-> {}]

\* Alice's client rotates after every second line.
AliceRotates == [p \in Processes |-> IF p = b1 THEN {} ELSE {2}]
\* Both clients rotate after every second line.
BothRotate == [p \in Processes |-> {2}]
=============================================================================
