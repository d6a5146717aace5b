-------------------------- MODULE MCChatOverRelay --------------------------
(* ChatOverRelay with one process of Bob's and two of Alice's.              *)
EXTENDS ChatOverRelay

CONSTANTS a1, a2, b1

MCLocalId == [p \in Processes |-> IF p = b1 THEN Bob ELSE Alice]
NoAutoRekey == [p \in Processes |-> {}]
Nobody == {}
Everybody == Processes
SecondAlice == {a2}

\* Bob only accepts the key of Alice's second process.
BobPinsA2 == [p \in Processes |-> IF p = b1 THEN {StaticSecret(a2)} ELSE {}]

\* Joining: Alice's first process starts and may retry or end, the others start.
Joining == [p \in Processes |-> IF p = a1 THEN 2 ELSE 1]
\* In an established session of a2 and b1, each acts once,
EachActsOnce == [p \in Processes |-> IF p = a1 THEN 0 ELSE 1]
\* or a2 has gone, a1 starts in its place and Bob acts,
A1TakesOver == [p \in Processes |-> IF p = a2 THEN 0 ELSE 1]
\* or Alice may also write after she has started a rekey.
AliceActsTwice == [p \in Processes |-> IF p = a1 THEN 0 ELSE IF p = a2 THEN 2 ELSE 1]

Peer(p) == IF p = a2 THEN b1 ELSE a2

\* What is left of a2 and b1 joining, one after the other, when a1 was never started:
\* the first key of a2 was refused, that of b1 was answered, and the answer of b1 to that
\* is a repetition.
KeyFrame(p, n) == [type |-> "PeerKey", from |-> LocalId[p], to |-> PeerId(p), tag |-> <<p, n>>]

\* x for the two processes of the session, and y for the one that was not started.
Both(x, y) == [p \in Processes |-> IF p = a1 THEN y ELSE x]

EstablishedClients ==
    /\ peer_public_key =
         [p \in Processes |-> IF p = a1 THEN {} ELSE {StaticSecret(Peer(p))}]
    /\ outbound_since_rekey = [p \in Processes |-> 0]
    /\ shown = [p \in Processes |-> <<>>]
    /\ master_secret = Both(<<DiffieHellman(StaticSecret(a2), StaticSecret(b1))>>, <<>>)
    /\ epoch = [p \in Processes |-> 0]
    /\ next_outbound_nonce = [p \in Processes |-> 0]
    /\ inbound_nonces = [p \in Processes |-> {}]
    /\ pending_rekey = [p \in Processes |-> {}]
    /\ staged_master = [p \in Processes |-> {}]
    /\ drawn = [p \in Processes |-> 0]
    /\ net = {PeerKey(a2), PeerKey(b1)}
    /\ sent = {}

EstablishedRelay ==
    /\ posted = [p \in Processes |-> IF p = a1 THEN <<>> ELSE <<PeerKey(p), PeerKey(p)>>]
    /\ received = Both(2, 0)
    /\ written = [p \in Processes |->
                    CASE p = a1 -> <<>>
                      [] p = a2 -> <<KeyFrame(b1, 1), KeyFrame(b1, 2)>>
                      [] p = b1 -> <<KeyFrame(a2, 2)>>]
    /\ accepted =
         {[event |-> KeyFrame(b1, 1), for |-> a2, reachable |-> TRUE],
          [event |-> KeyFrame(b1, 2), for |-> a2, reachable |-> TRUE],
          [event |-> KeyFrame(a2, 2), for |-> b1, reachable |-> TRUE]}
    /\ read = [p \in Processes |-> Len(written[p])]
    /\ outboxes = [id \in Clients |-> <<>>]
    /\ pc = Both("loop", "hello")
    /\ connections = [id \in Clients |-> {p \in {a2, b1} : LocalId[p] = id}]
    /\ event = [p \in Processes |-> {}]
    /\ deliveries = [p \in Processes |-> <<>>]
    /\ queue = [p \in Processes |-> <<>>]
    /\ receiver = [p \in Processes |-> TRUE]
    /\ close = [p \in Processes |-> FALSE]
    /\ online = [id \in Clients |-> 1]

Established ==
    EstablishedClients /\ EstablishedRelay /\ phase = Both("running", "new")

\* The session when a2 has just ended, and the relay has not noticed.
A2Gone ==
    /\ EstablishedClients /\ EstablishedRelay
    /\ phase = [Both("running", "new") EXCEPT ![a2] = "exited"]

\* The established session in which Alice acts twice.
EstablishedChat ==
    Established /\ budget = AliceActsTwice /\ [][SystemNext]_systemVars

\* The three processes from the start, the established session, or its end.
JoinOrChat ==
    /\ \/ SystemInit
       \/ Established /\ budget = EachActsOnce
       \/ A2Gone /\ budget = A1TakesOver
    /\ [][SystemNext]_systemVars
    /\ KeepsTurning
=============================================================================
