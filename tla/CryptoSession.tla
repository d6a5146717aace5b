--------------------------- MODULE CryptoSession ---------------------------
(***************************************************************************)
(* The end-to-end session of crates/chat-core/src/crypto.rs.  A client id  *)
(* is used by one process after another (a restarted client is a new       *)
(* process with a new key pair), so every field of CryptoSession is a      *)
(* function of the client processes.  An Option<T> is a set with at most   *)
(* one element.                                                            *)
(*                                                                         *)
(* The cryptographic primitives are symbolic and perfect: equal keys come  *)
(* only from equal inputs, and a ciphertext opens only under the key,      *)
(* nonce and associated data it was sealed with.  A public key is named by *)
(* its secret, and the long-term key pair of a process by the process.     *)
(***************************************************************************)
EXTENDS Integers, Sequences

CONSTANTS
    Alice, Bob,     \* the two client ids of a chat
    Processes,      \* the runs of the client program
    LocalId,        \* the --id each of them is started with
    MaxNonce        \* the largest outbound nonce counter (u64::MAX in the code)

Clients == {Alice, Bob}

ASSUME PeersDiffer == Alice # Bob
ASSUME LocalIdIsClient == LocalId \in [Processes -> Clients]
ASSUME MaxNonceIsNat == MaxNonce \in Nat

VARIABLES
    master_secret,          \* chain of the Diffie-Hellman results mixed in so far
    epoch,
    next_outbound_nonce,
    inbound_nonces,         \* the <<epoch, nonce>> pairs already accepted
    pending_rekey,          \* initiator: the handshake waiting for its response
    staged_master,          \* responder: the next master, not yet committed
    drawn                   \* number of random values the process has drawn

cryptoVars == <<master_secret, epoch, next_outbound_nonce, inbound_nonces,
                pending_rekey, staged_master, drawn>>

\* The --peer of a process.
PeerId(p) == IF LocalId[p] = Alice THEN Bob ELSE Alice

-----------------------------------------------------------------------------
(* Symbolic primitives.                                                    *)

\* The n-th value drawn by a process: message ids, rekey ids.
Ids == Processes \X Nat

StaticSecret(p) == <<"static", p, 0>>
EphemeralSecret(p, n) == <<"ephemeral", p, n>>
Secrets == {"static", "ephemeral"} \X Processes \X Nat

DiffieHellman(secret, public) == {secret, public}

Seal(key, nonce, aad, payload) ==
    [key |-> key, nonce |-> nonce, aad |-> aad, payload |-> payload]

CanOpen(ciphertext, key, nonce, aad) ==
    /\ ciphertext.key = key
    /\ ciphertext.nonce = nonce
    /\ ciphertext.aad = aad

-----------------------------------------------------------------------------
(* Payloads, nonces and envelopes.                                         *)

Chat == [type |-> "Chat"]

RekeyRequest(id, public) ==
    [type |-> "RekeyRequest", rekey_id |-> id, ephemeral_public_key |-> public]

RekeyResponse(id, public) ==
    [type |-> "RekeyResponse", rekey_id |-> id, ephemeral_public_key |-> public]

\* Faulty variant: the ids sorted, as session_info does it.
SortedNoncePrefix(p) == <<Alice, Bob>>

\* Hash of the ordered pair: the two directions never share a prefix.
NoncePrefix(p) == <<LocalId[p], PeerId(p)>>

\* The ids sorted: both ends derive the same bytes.
SessionInfo(p) == {LocalId[p], PeerId(p)}

\* HKDF over the CURRENT master secret, whichever epoch is asked for.
CipherFor(p, e) ==
    [master |-> master_secret[p], info |-> SessionInfo(p), epoch |-> e]

AssociatedData(sender, recipient, id, e) == <<sender, recipient, id, e>>

\* Faulty variant: a counter that does not stop at its largest value.
NoncesNeverRunOut(p, k) == TRUE

\* checked_add succeeds k times.
NoncesLeft(p, k) == next_outbound_nonce[p] + k <= MaxNonce

\* The k-th value that p draws next, as an id and as an ephemeral secret.
FreshId(p, k) == <<p, drawn[p] + k>>
FreshSecret(p, k) == EphemeralSecret(p, drawn[p] + k)

\* encrypt_payload: the k-th envelope that p encrypts from here.
Encrypt(p, k, payload) ==
    LET id == FreshId(p, k)
        nonce == <<NoncePrefix(p), next_outbound_nonce[p] + k>>
    IN  [type |-> "EncryptedMessage", sender |-> LocalId[p], recipient |-> PeerId(p),
         message_id |-> id, epoch |-> epoch[p], nonce |-> nonce,
         ciphertext |-> Seal(CipherFor(p, epoch[p]), nonce,
                             AssociatedData(LocalId[p], PeerId(p), id, epoch[p]),
                             payload)]

\* What encrypting k envelopes does to the session of p.
AdvanceNonce(p, k) ==
    /\ next_outbound_nonce' = [next_outbound_nonce EXCEPT ![p] = @ + k]
    /\ drawn' = [drawn EXCEPT ![p] = @ + k]

-----------------------------------------------------------------------------
(* decrypt: the checks in the order of the code.                           *)

FromPeer(p, m) == m.sender = PeerId(p) /\ m.recipient = LocalId[p]

KnownEpoch(p, m) ==
    \/ m.epoch = epoch[p]
    \/ epoch[p] > 0 /\ m.epoch + 1 = epoch[p]

Authentic(p, m) ==
    CanOpen(m.ciphertext, CipherFor(p, m.epoch), m.nonce,
            AssociatedData(m.sender, m.recipient, m.message_id, m.epoch))

\* Faulty variant: a tracker that never reports a duplicate.
NeverSeen(p, m) == TRUE

NotSeen(p, m) == <<m.epoch, m.nonce>> \notin inbound_nonces[p]

Decrypts(p, m) ==
    FromPeer(p, m) /\ KnownEpoch(p, m) /\ Authentic(p, m) /\ NotSeen(p, m)

MarkSeen(p, m) == inbound_nonces[p] \cup {<<m.epoch, m.nonce>>}

-----------------------------------------------------------------------------
(* The rekey handshake.                                                    *)

IsRekeyInProgress(p) == pending_rekey[p] # {} \/ staged_master[p] # {}

\* Faulty variant: a request is answered although p waits for its own response.
AnswersWhilePending(p) == staged_master[p] = {}

AnswersRequest(p) == ~IsRekeyInProgress(p)

AwaitsResponse(p, payload) ==
    \E w \in pending_rekey[p] : w.rekey_id = payload.rekey_id

ComputeNextMaster(p, shared) == Append(master_secret[p], shared)

\* start_rekey, when it draws its k-th value: the handshake p now waits for.
StartRekey(p, k) ==
    pending_rekey' = [pending_rekey EXCEPT
        ![p] = {[rekey_id |-> FreshId(p, k), ephemeral_secret |-> FreshSecret(p, k)]}]

\* apply_next_master, when seen are the nonces accepted so far.
ApplyNextMaster(p, next, seen) ==
    /\ master_secret' = [master_secret EXCEPT ![p] = next]
    /\ epoch' = [epoch EXCEPT ![p] = @ + 1]
    /\ inbound_nonces' = [inbound_nonces EXCEPT
           ![p] = {s \in seen : s[1] + 1 >= epoch[p] + 1}]

\* CryptoSession::new over the peer's public key.
NewCryptoSession(p, public) ==
    /\ master_secret' = [master_secret EXCEPT
           ![p] = <<DiffieHellman(StaticSecret(p), public)>>]
    /\ epoch' = [epoch EXCEPT ![p] = 0]
    /\ next_outbound_nonce' = [next_outbound_nonce EXCEPT ![p] = 0]
    /\ inbound_nonces' = [inbound_nonces EXCEPT ![p] = {}]
    /\ pending_rekey' = [pending_rekey EXCEPT ![p] = {}]
    /\ staged_master' = [staged_master EXCEPT ![p] = {}]
    /\ UNCHANGED drawn
=============================================================================
