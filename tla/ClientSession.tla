--------------------------- MODULE ClientSession ---------------------------
(***************************************************************************)
(* The client program: ClientSession (crates/chat-client/src/session.rs)   *)
(* driven by the select! loop of crates/chat-client/src/main.rs, for the   *)
(* processes of a two-party chat.  The relay is reduced to what a client   *)
(* may observe of it: a set of events in flight, delivered in any order to *)
(* a running process that uses the recipient's id, refused when there is   *)
(* none, and (when Replays) delivered any number of times.                 *)
(***************************************************************************)
EXTENDS CryptoSession, FiniteSets

CONSTANTS
    PinnedKey,          \* --verify-fingerprint: at most one public key per process
    AutoRekeyAfter,     \* --rekey-after: at most one threshold per process
    Replays             \* whether the network may deliver an event again

ASSUME PinnedKeyIsOption == PinnedKey \in [Processes -> SUBSET Secrets]
ASSUME AutoRekeyIsOption == AutoRekeyAfter \in [Processes -> SUBSET Nat]
ASSUME ReplaysIsBoolean == Replays \in BOOLEAN

VARIABLES
    phase,                  \* of a process: "new", "running", "exited", "failed"
    peer_public_key,
    outbound_since_rekey,
    net,                    \* events in flight
    sent,                   \* history: every envelope handed to the network
    shown                   \* history: ids of the chat lines printed, in order

clientVars == <<phase, peer_public_key, outbound_since_rekey, shown>>
vars == <<cryptoVars, clientVars, net, sent>>

PeerKey(p) ==
    [type |-> "PeerKey", from |-> LocalId[p], to |-> PeerId(p),
     public_key |-> StaticSecret(p)]

Recipient(m) == IF m.type = "PeerKey" THEN m.to ELSE m.recipient

Running(p) == phase[p] = "running"
IsReady(p) == Running(p) /\ peer_public_key[p] # {}

Init ==
    /\ phase = [p \in Processes |-> "new"]
    /\ peer_public_key = [p \in Processes |-> {}]
    /\ outbound_since_rekey = [p \in Processes |-> 0]
    /\ shown = [p \in Processes |-> <<>>]
    /\ master_secret = [p \in Processes |-> <<>>]
    /\ epoch = [p \in Processes |-> 0]
    /\ next_outbound_nonce = [p \in Processes |-> 0]
    /\ inbound_nonces = [p \in Processes |-> {}]
    /\ pending_rekey = [p \in Processes |-> {}]
    /\ staged_master = [p \in Processes |-> {}]
    /\ drawn = [p \in Processes |-> 0]
    /\ net = {}
    /\ sent = {}

\* What is left in flight once m has been delivered.
AfterDelivery(m) == IF Replays THEN net ELSE net \ {m}

\* The envelopes leave the process.
Emit(base, envelopes) ==
    /\ net' = base \cup envelopes
    /\ sent' = sent \cup envelopes

Delivered(p, m) == Running(p) /\ m \in net /\ Recipient(m) = LocalId[p]

-----------------------------------------------------------------------------
(* Process life cycle and key exchange.                                    *)

\* The process connects and sends its hello and its key.  Nothing in it looks for another
\* process of the same client: it is the relay that admits one connection per id.
Start(p) ==
    /\ phase[p] = "new"
    /\ phase' = [phase EXCEPT ![p] = "running"]
    /\ net' = net \cup {PeerKey(p)}
    /\ UNCHANGED <<cryptoVars, peer_public_key, outbound_since_rekey, shown, sent>>

\* The interval tick while no session is established.
RetryPeerKey(p) ==
    /\ Running(p) /\ ~IsReady(p)
    /\ net' = net \cup {PeerKey(p)}
    /\ UNCHANGED <<cryptoVars, clientVars, sent>>

\* End of stdin, a closed socket, a transport error or a frame that does not decode.
Quit(p) ==
    /\ Running(p)
    /\ phase' = [phase EXCEPT ![p] = "exited"]
    /\ UNCHANGED <<cryptoVars, peer_public_key, outbound_since_rekey, shown, net, sent>>

\* Faulty variant: any PeerKey (re)builds the session.
AcceptsAnyKey(p, m) ==
    m.from = PeerId(p) /\ (PinnedKey[p] = {} \/ m.public_key \in PinnedKey[p])

\* The checks of handle_event before a key is accepted.
AcceptsKey(p, m) ==
    /\ m.from = PeerId(p)
    /\ peer_public_key[p] = {}
    /\ PinnedKey[p] = {} \/ m.public_key \in PinnedKey[p]

\* Faulty variant: the key is taken without an answer.
NoPeerKeyReply(p, m) == {}

\* The answer that rescues a peer whose own copy of our key was lost.
PeerKeyReply(p, m) == IF IsReady(p) THEN {} ELSE {PeerKey(p)}

AcceptPeerKey(p, m) ==
    /\ Delivered(p, m) /\ m.type = "PeerKey"
    /\ AcceptsKey(p, m)
    /\ peer_public_key' = [peer_public_key EXCEPT ![p] = {m.public_key}]
    /\ NewCryptoSession(p, m.public_key)
    /\ net' = AfterDelivery(m) \cup PeerKeyReply(p, m)
    /\ UNCHANGED <<phase, outbound_since_rekey, shown, sent>>

\* Same key again, another key, or a key that does not match the pin.
IgnorePeerKey(p, m) ==
    /\ Delivered(p, m) /\ m.type = "PeerKey"
    /\ ~AcceptsKey(p, m)
    /\ net' = AfterDelivery(m)
    /\ UNCHANGED <<cryptoVars, clientVars, sent>>

-----------------------------------------------------------------------------
(* Lines read from stdin.                                                  *)

AutoRekeyDue(p) ==
    /\ \E n \in AutoRekeyAfter[p] : outbound_since_rekey[p] + 1 >= n
    /\ ~IsRekeyInProgress(p)

CountOutbound(p) ==
    outbound_since_rekey' = [outbound_since_rekey EXCEPT
        ![p] = IF AutoRekeyAfter[p] = {} THEN @ ELSE @ + 1]

\* encrypt_line that sends the chat envelope alone.
ChatLine(p) ==
    /\ IsReady(p) /\ NoncesLeft(p, 1) /\ ~AutoRekeyDue(p)
    /\ AdvanceNonce(p, 1)
    /\ CountOutbound(p)
    /\ Emit(net, {Encrypt(p, 1, Chat)})
    /\ UNCHANGED <<phase, peer_public_key, shown, master_secret, epoch,
                   inbound_nonces, pending_rekey, staged_master>>

\* encrypt_line at the threshold: a request follows the chat envelope.
EncryptLineAndRequest(p) ==
    /\ IsReady(p) /\ NoncesLeft(p, 2) /\ AutoRekeyDue(p)
    /\ AdvanceNonce(p, 2)
    /\ StartRekey(p, 2)
    /\ CountOutbound(p)
    /\ UNCHANGED <<peer_public_key, shown, master_secret, epoch, inbound_nonces,
                   staged_master>>

ChatLineThenRekey(p) ==
    /\ EncryptLineAndRequest(p)
    /\ Emit(net, {Encrypt(p, 1, Chat),
                  Encrypt(p, 2, RekeyRequest(FreshId(p, 2), FreshSecret(p, 2)))})
    /\ UNCHANGED phase

\* The connection breaks between the two sends and the process ends.
RequestNotSent(p) ==
    /\ EncryptLineAndRequest(p)
    /\ Emit(net, {Encrypt(p, 1, Chat)})
    /\ phase' = [phase EXCEPT ![p] = "exited"]

\* "/rekey": start_rekey looks at pending_rekey only.
RekeyCommand(p) ==
    /\ IsReady(p) /\ NoncesLeft(p, 1) /\ pending_rekey[p] = {}
    /\ AdvanceNonce(p, 1)
    /\ StartRekey(p, 1)
    /\ Emit(net, {Encrypt(p, 1, RekeyRequest(FreshId(p, 1), FreshSecret(p, 1)))})
    /\ UNCHANGED <<clientVars, master_secret, epoch, inbound_nonces, staged_master>>

\* "/rekey" during a handshake: run() returns the error and the process ends.
RekeyCommandFails(p) ==
    /\ IsReady(p) /\ pending_rekey[p] # {}
    /\ phase' = [phase EXCEPT ![p] = "failed"]
    /\ UNCHANGED <<cryptoVars, peer_public_key, outbound_since_rekey, shown, net, sent>>

\* A line or "/rekey" that finds the nonces exhausted also ends the process; a chat
\* envelope encrypted before the failing request is not sent.  What the session holds
\* after that is lost with the process, and is left as it was.
LineFails(p) ==
    /\ IsReady(p)
    /\ ~NoncesLeft(p, IF AutoRekeyDue(p) THEN 2 ELSE 1)
    /\ phase' = [phase EXCEPT ![p] = "failed"]
    /\ UNCHANGED <<cryptoVars, peer_public_key, outbound_since_rekey, shown, net, sent>>

-----------------------------------------------------------------------------
(* handle_encrypted_message.                                               *)

Opens(p, m) ==
    /\ Delivered(p, m) /\ m.type = "EncryptedMessage"
    /\ peer_public_key[p] # {} /\ Decrypts(p, m)

OpensAs(p, m, type) == Opens(p, m) /\ m.ciphertext.payload.type = type

\* No session yet, wrong ids, unknown epoch, failed authentication, duplicate nonce:
\* the event is dropped with a warning.
RejectEnvelope(p, m) ==
    /\ Delivered(p, m) /\ m.type = "EncryptedMessage" /\ ~Opens(p, m)
    /\ net' = AfterDelivery(m)
    /\ UNCHANGED <<cryptoVars, clientVars, sent>>

Accepted(p, m) == inbound_nonces' = [inbound_nonces EXCEPT ![p] = MarkSeen(p, m)]

ReceiveChat(p, m) ==
    /\ OpensAs(p, m, "Chat")
    /\ Accepted(p, m)
    /\ shown' = [shown EXCEPT ![p] = Append(@, m.message_id)]
    /\ net' = AfterDelivery(m)
    /\ UNCHANGED <<phase, peer_public_key, outbound_since_rekey, sent, master_secret,
                   epoch, next_outbound_nonce, pending_rekey, staged_master, drawn>>

\* Faulty variant: the reply is labelled as if the rotation were already committed.
ReplyAfterCommit(p, payload) ==
    [Encrypt(p, 1, RekeyResponse(payload.rekey_id, FreshSecret(p, 1))) EXCEPT !.epoch = @ + 1]

\* The response, encrypted before commit_staged_rekey.
Reply(p, payload) ==
    Encrypt(p, 1, RekeyResponse(payload.rekey_id, FreshSecret(p, 1)))

\* The response is encrypted under the old epoch, then the staged master is committed.
RotateAsResponder(p, m) ==
    LET next == ComputeNextMaster(p,
                    DiffieHellman(FreshSecret(p, 1), m.ciphertext.payload.ephemeral_public_key))
    IN  /\ OpensAs(p, m, "RekeyRequest")
        /\ AnswersRequest(p) /\ NoncesLeft(p, 1)
        /\ AdvanceNonce(p, 1)
        /\ ApplyNextMaster(p, next, MarkSeen(p, m))
        /\ UNCHANGED <<peer_public_key, outbound_since_rekey, shown, pending_rekey,
                       staged_master>>

ReceiveRekeyRequest(p, m) ==
    /\ RotateAsResponder(p, m)
    /\ Emit(AfterDelivery(m), {Reply(p, m.ciphertext.payload)})
    /\ UNCHANGED phase

\* The connection breaks before the response is sent and the process ends.
ResponseNotSent(p, m) ==
    /\ RotateAsResponder(p, m)
    /\ phase' = [phase EXCEPT ![p] = "exited"]
    /\ net' = AfterDelivery(m)
    /\ UNCHANGED sent

\* No nonce is left for the response: the master stays staged and uncommitted.
StageWithoutReply(p, m) ==
    LET next == ComputeNextMaster(p,
                    DiffieHellman(FreshSecret(p, 1), m.ciphertext.payload.ephemeral_public_key))
    IN  /\ OpensAs(p, m, "RekeyRequest")
        /\ AnswersRequest(p) /\ ~NoncesLeft(p, 1)
        /\ Accepted(p, m)
        /\ staged_master' = [staged_master EXCEPT ![p] = {next}]
        /\ drawn' = [drawn EXCEPT ![p] = @ + 1]
        /\ net' = AfterDelivery(m)
        /\ UNCHANGED <<clientVars, sent, master_secret, epoch, next_outbound_nonce,
                       pending_rekey>>

\* A response to the pending handshake: the initiator rotates at once.
ReceiveRekeyResponse(p, m) ==
    LET payload == m.ciphertext.payload
    IN  /\ OpensAs(p, m, "RekeyResponse")
        /\ \E w \in pending_rekey[p] :
             /\ w.rekey_id = payload.rekey_id
             /\ ApplyNextMaster(p, ComputeNextMaster(p,
                    DiffieHellman(w.ephemeral_secret, payload.ephemeral_public_key)),
                    MarkSeen(p, m))
        /\ pending_rekey' = [pending_rekey EXCEPT ![p] = {}]
        /\ outbound_since_rekey' = [outbound_since_rekey EXCEPT ![p] = 0]
        /\ net' = AfterDelivery(m)
        /\ UNCHANGED <<phase, peer_public_key, shown, sent, next_outbound_nonce,
                       staged_master, drawn>>

\* RekeyAlreadyInProgress or UnknownRekeyId: the nonce is spent, nothing else changes.
RefuseHandshake(p, m) ==
    /\ \/ OpensAs(p, m, "RekeyRequest") /\ ~AnswersRequest(p)
       \/ OpensAs(p, m, "RekeyResponse") /\ ~AwaitsResponse(p, m.ciphertext.payload)
    /\ Accepted(p, m)
    /\ net' = AfterDelivery(m)
    /\ UNCHANGED <<clientVars, sent, master_secret, epoch, next_outbound_nonce,
                   pending_rekey, staged_master, drawn>>

\* The relay knows no connection for the recipient.
RelayRefuses(m) ==
    /\ m \in net /\ \A p \in Processes : LocalId[p] = Recipient(m) => ~Running(p)
    /\ net' = AfterDelivery(m)
    /\ UNCHANGED <<cryptoVars, clientVars, sent>>

-----------------------------------------------------------------------------
Handle(p, m) ==
    \/ AcceptPeerKey(p, m)
    \/ IgnorePeerKey(p, m)
    \/ RejectEnvelope(p, m)
    \/ ReceiveChat(p, m)
    \/ ReceiveRekeyRequest(p, m)
    \/ ResponseNotSent(p, m)
    \/ StageWithoutReply(p, m)
    \/ ReceiveRekeyResponse(p, m)
    \/ RefuseHandshake(p, m)

Receive(p) == \E m \in net : Handle(p, m)

ReadLine(p) ==
    \/ ChatLine(p)
    \/ ChatLineThenRekey(p)
    \/ RequestNotSent(p)
    \/ RekeyCommand(p)
    \/ RekeyCommandFails(p)
    \/ LineFails(p)

Next ==
    \/ \E p \in Processes :
        Start(p) \/ RetryPeerKey(p) \/ Quit(p) \/ ReadLine(p) \/ Receive(p)
    \/ \E m \in net : RelayRefuses(m)

Spec == Init /\ [][Next]_vars

\* The event loop of a running process keeps turning: its timer ticks and what the
\* relay delivered is read.  Nothing makes a person type a line or quit.
FairSpec ==
    Spec /\ \A p \in Processes :
                WF_vars(Start(p)) /\ WF_vars(RetryPeerKey(p)) /\ WF_vars(Receive(p))

-----------------------------------------------------------------------------
(* Properties.                                                             *)

Keys == [master : Seq(SUBSET Secrets), info : SUBSET Clients, epoch : Nat]
Nonces == (Clients \X Clients) \X (1..MaxNonce)
Payloads ==
    {Chat} \cup [type : {"RekeyRequest", "RekeyResponse"}, rekey_id : Ids,
                 ephemeral_public_key : Secrets]
Envelopes ==
    [type : {"EncryptedMessage"}, sender : Clients, recipient : Clients,
     message_id : Ids, epoch : Nat, nonce : Nonces,
     ciphertext : [key : Keys, nonce : Nonces, aad : Clients \X Clients \X Ids \X Nat,
                   payload : Payloads]]
PeerKeys == [type : {"PeerKey"}, from : Clients, to : Clients, public_key : Secrets]

\* Every variable has its type; in particular no nonce counter passes its largest value
\* and no envelope carries a counter outside 1..MaxNonce (next_nonce).
TypeOK ==
    /\ phase \in [Processes -> {"new", "running", "exited", "failed"}]
    /\ peer_public_key \in [Processes -> SUBSET Secrets]
    /\ outbound_since_rekey \in [Processes -> Nat]
    /\ shown \in [Processes -> Seq(Ids)]
    /\ master_secret \in [Processes -> Seq(SUBSET Secrets)]
    /\ epoch \in [Processes -> Nat]
    /\ next_outbound_nonce \in [Processes -> 0..MaxNonce]
    /\ inbound_nonces \in [Processes -> SUBSET (Nat \X Nonces)]
    /\ pending_rekey \in [Processes -> SUBSET [rekey_id : Ids, ephemeral_secret : Secrets]]
    /\ staged_master \in [Processes -> SUBSET Seq(SUBSET Secrets)]
    /\ drawn \in [Processes -> Nat]
    /\ net \subseteq Envelopes \cup PeerKeys
    /\ sent \subseteq Envelopes

\* No AEAD key is ever used twice with the same nonce, by either end, in any run,
\* whatever the network repeats and however sessions rotate (encrypt, next_nonce,
\* nonce_prefix and the duplicate PeerKey branch of handle_event together).
NoNonceReuse ==
    \A m1, m2 \in sent :
        (m1.ciphertext.key = m2.ciphertext.key /\ m1.nonce = m2.nonce) => m1 = m2

\* A chat line is printed at most once, by at most one process, although the network
\* may deliver its envelope again, before or after rotations (decrypt, mark_seen and
\* the pruning of inbound_nonces in apply_next_master).
AtMostOnce ==
    \A p, q \in Processes : \A i \in 1..Len(shown[p]), j \in 1..Len(shown[q]) :
        shown[p][i] = shown[q][j] => p = q /\ i = j

\* p and q each built their session from the other's key.
Paired(p, q) ==
    /\ peer_public_key[p] = {StaticSecret(q)}
    /\ peer_public_key[q] = {StaticSecret(p)}

\* p has rotated less than q, whose next step it is waiting for.
Behind(p, q) ==
    /\ epoch[q] = epoch[p] + 1
    /\ pending_rekey[p] # {}
    /\ master_secret[p] = SubSeq(master_secret[q], 1, Len(master_secret[q]) - 1)

\* Two paired ends never diverge: at equal epochs they hold the same master, and an
\* end that is behind is exactly one epoch behind and still waits for the response that
\* the other end has already committed (start_rekey, handle_session_payload,
\* commit_staged_rekey).
InStep ==
    \A p, q \in Processes : Paired(p, q) =>
        \/ epoch[p] = epoch[q] /\ master_secret[p] = master_secret[q]
        \/ Behind(p, q)
        \/ Behind(q, p)

\* m was encrypted by q for the session it has with p.
Between(q, p, m) ==
    m.type = "EncryptedMessage" /\ m.message_id[1] = q /\ Paired(p, q)

\* An envelope of the current epoch that a paired peer sent, and that was not accepted
\* before, decrypts: rotation never makes an end unable to read its own epoch
\* (cipher_for, decrypt).
CurrentEpochReadable ==
    \A p, q \in Processes : \A m \in net :
        (Between(q, p, m) /\ m.epoch = epoch[p] /\ NotSeen(p, m)) => Decrypts(p, m)

\* What a step may do to an established session.
KeepsSession ==
    \A p \in Processes : peer_public_key[p] # {} =>
        /\ peer_public_key'[p] = peer_public_key[p]
        /\ next_outbound_nonce'[p] >= next_outbound_nonce[p]
        /\ \/ epoch'[p] = epoch[p] /\ master_secret'[p] = master_secret[p]
           \/ epoch'[p] = epoch[p] + 1 /\ Len(master_secret'[p]) = Len(master_secret[p]) + 1

\* An established session is never rebuilt within a run: the peer's key stays, nonce
\* counters do not go back, and the master changes only by the next epoch (handle_event
\* on a repeated or changed PeerKey, apply_next_master).
SessionNeverRebuilt == [][KeepsSession]_vars

\* The masters of the processes are chains of the abstract ratchet.
KeyRatchet == INSTANCE Ratchet WITH Participants <- Processes, chain <- master_secret

\* Every change of a master secret is a step of the ratchet: the first session key, the
\* responder's rotation ahead of an equal peer, or the initiator's rotation onto the
\* chain the responder already holds.
ImplementsRatchet == KeyRatchet!Spec

\* Of all processes, q is the only one whose key p may accept.
OnlyMatch(p, q) ==
    \A r \in Processes :
        (LocalId[r] = PeerId(p) /\ (PinnedKey[p] = {} \/ StaticSecret(r) \in PinnedKey[p]))
            <=> r = q

\* If two matching clients stay up from some point on, each ends with the other's key:
\* the retry tick and the reply to the first PeerKey make up for events the relay
\* refused, and a key refused because of the pin does not keep the right one out.
KeyExchangeCompletes ==
    \A p, q \in Processes : (OnlyMatch(p, q) /\ OnlyMatch(q, p)) =>
        (<>[](Running(p) /\ Running(q)) => <>Paired(p, q))

\* p's own request is on its way to a paired peer.
Requested(p) ==
    \E q \in Processes, m \in net : \E w \in pending_rekey[p] :
        /\ Between(p, q, m)
        /\ m.ciphertext.payload = RekeyRequest(w.rekey_id, w.ephemeral_secret)

\* A handshake that crosses no other one is completed, unless a client exits or the
\* responder has no nonce left for its answer.
LoneHandshakeCompletes ==
    \A p \in Processes :
        [](\A q \in Processes \ {p} : pending_rekey[q] = {}) =>
            (Requested(p) ~> \/ pending_rekey[p] = {}
                             \/ \E q \in Processes :
                                  phase[q] \in {"exited", "failed"} \/ staged_master[q] # {})

-----------------------------------------------------------------------------
(* Statements of the documentation that the code does not keep.            *)

\* Dual-epoch reception: an envelope of the previous epoch that a paired peer sent, after
\* every envelope accepted from it so far, decrypts.  cipher_for derives the previous
\* epoch's key from the new master, so it does not.
PreviousEpochReadable ==
    \A p, q \in Processes : \A m \in net :
        (/\ Between(q, p, m) /\ m.epoch + 1 = epoch[p]
         /\ \A s \in inbound_nonces[p] : s[2][2] < m.nonce[2]) => Decrypts(p, m)

\* Every handshake whose request reaches a paired peer ends, unless a client exits or
\* runs out of nonces.  Two requests that cross are both refused and neither
\* pending_rekey is ever cleared.
HandshakeEnds ==
    \A p \in Processes :
        Requested(p) ~> \/ pending_rekey[p] = {}
                        \/ \E q \in Processes :
                             phase[q] \in {"exited", "failed"} \/ staged_master[q] # {}

\* The automatic trigger counts the lines sent since the last completed rekey.  Only the
\* initiator of a handshake resets outbound_since_rekey.
CountsSinceLastRekey ==
    \A p \in Processes : AutoRekeyAfter[p] # {} =>
        outbound_since_rekey[p] =
            Cardinality({m \in sent : /\ m.message_id[1] = p /\ m.epoch = epoch[p]
                                      /\ m.ciphertext.payload = Chat})
=============================================================================
