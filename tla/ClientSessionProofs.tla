------------------------ MODULE ClientSessionProofs ------------------------
(***************************************************************************)
(* Machine-checked proofs about ClientSession, for any set of processes    *)
(* and any number of messages and rotations.                               *)
(***************************************************************************)
EXTENDS ClientSession, TLAPS

-----------------------------------------------------------------------------
(* Types.                                                                  *)

\* The peer of a process is the other client.
LEMMA PeerIdType == \A p \in Processes : PeerId(p) \in Clients /\ PeerId(p) # LocalId[p]
  BY PeersDiffer, LocalIdIsClient DEF PeerId, Clients

\* peer_key_event builds a PeerKey.
LEMMA PeerKeyType == \A p \in Processes : PeerKey(p) \in PeerKeys
  BY PeerIdType, LocalIdIsClient DEF PeerKey, PeerKeys, StaticSecret, Secrets

\* Values drawn at random are ids and secrets.
LEMMA FreshTypes ==
  ASSUME TypeOK, NEW p \in Processes, NEW k \in Nat
  PROVE  FreshId(p, k) \in Ids /\ FreshSecret(p, k) \in Secrets
  BY SMTT(60) DEF TypeOK, FreshId, FreshSecret, EphemeralSecret, Ids, Secrets

\* While counters are left, encrypt_payload builds an envelope.
LEMMA EncryptType ==
  ASSUME TypeOK, NEW p \in Processes, NEW k \in Nat \ {0}, NoncesLeft(p, k),
         NEW payload \in Payloads
  PROVE  Encrypt(p, k, payload) \in Envelopes
<1> DEFINE nonce == <<NoncePrefix(p), next_outbound_nonce[p] + k>>
           aad == AssociatedData(LocalId[p], PeerId(p), FreshId(p, k), epoch[p])
           key == CipherFor(p, epoch[p])
<1>1. nonce \in Nonces
  BY PeerIdType, LocalIdIsClient, MaxNonceIsNat, SMTT(60)
     DEF Nonces, NoncePrefix, NoncesLeft, TypeOK
<1>2. aad \in Clients \X Clients \X Ids \X Nat
  BY PeerIdType, LocalIdIsClient, FreshTypes, ZenonT(60) DEF AssociatedData, TypeOK
<1>3. key \in Keys
  BY PeerIdType, LocalIdIsClient DEF Keys, CipherFor, SessionInfo, TypeOK
<1>4. Seal(key, nonce, aad, payload) \in
        [key : Keys, nonce : Nonces, aad : Clients \X Clients \X Ids \X Nat,
         payload : Payloads]
  BY <1>1, <1>2, <1>3 DEF Seal
<1> QED
  BY <1>1, <1>4, PeerIdType, LocalIdIsClient, FreshTypes, ZenonT(60)
     DEF Envelopes, Encrypt, TypeOK

\* A delivery adds nothing to what is in flight.
LEMMA AfterDeliverySubset == \A m : AfterDelivery(m) \subseteq net
  BY DEF AfterDelivery

\* What a received envelope consists of.
LEMMA ReceivedType ==
  ASSUME TypeOK, NEW m \in net
  PROVE  /\ m.type = "PeerKey" => m \in PeerKeys
         /\ m.type = "EncryptedMessage" => m \in Envelopes
         /\ m.type = "EncryptedMessage" /\ m.ciphertext.payload.type # "Chat" =>
              /\ m.ciphertext.payload.rekey_id \in Ids
              /\ m.ciphertext.payload.ephemeral_public_key \in Secrets
<1>1. m \in Envelopes \/ m \in PeerKeys
  BY DEF TypeOK
<1>2. m \in Envelopes => m.type = "EncryptedMessage" /\ m.ciphertext.payload \in Payloads
  BY DEF Envelopes
<1>3. m \in PeerKeys => m.type = "PeerKey"
  BY DEF PeerKeys
<1> QED
  BY <1>1, <1>2, <1>3 DEF Payloads, Chat

\* mark_seen adds a pair of an epoch and a nonce.
LEMMA MarkSeenType ==
  ASSUME TypeOK, NEW p \in Processes, NEW m \in Envelopes
  PROVE  MarkSeen(p, m) \in SUBSET (Nat \X Nonces)
  BY SMTT(60) DEF TypeOK, MarkSeen, Envelopes

\* compute_next_master builds a chain of Diffie-Hellman results.
LEMMA NextMasterType ==
  ASSUME TypeOK, NEW p \in Processes, NEW s \in Secrets, NEW t \in Secrets
  PROVE  ComputeNextMaster(p, DiffieHellman(s, t)) \in Seq(SUBSET Secrets)
  BY DEF TypeOK, ComputeNextMaster, DiffieHellman

\* The result a responder mixes in is a set of secrets.
LEMMA SharedType ==
  ASSUME TypeOK, NEW p \in Processes, NEW m \in net, OpensAs(p, m, "RekeyRequest")
  PROVE  DiffieHellman(FreshSecret(p, 1), m.ciphertext.payload.ephemeral_public_key)
           \in SUBSET Secrets
<1>1. m.type = "EncryptedMessage" /\ m.ciphertext.payload.type = "RekeyRequest"
  BY Zenon DEF OpensAs, Opens
<1>2. m.ciphertext.payload.ephemeral_public_key \in Secrets
  <2>1. m.ciphertext.payload.type # "Chat"
    BY <1>1
  <2> QED
    BY <1>1, <2>1, ReceivedType, Zenon
<1>3. FreshSecret(p, 1) \in Secrets
  BY FreshTypes
<1> QED
  BY <1>2, <1>3, Zenon DEF DiffieHellman

\* apply_next_master keeps the types of what it changes.
LEMMA ApplyNextMasterType ==
  ASSUME TypeOK, NEW p \in Processes, NEW next \in Seq(SUBSET Secrets),
         NEW seen \in SUBSET (Nat \X Nonces), ApplyNextMaster(p, next, seen)
  PROVE  /\ master_secret' \in [Processes -> Seq(SUBSET Secrets)]
         /\ epoch' \in [Processes -> Nat]
         /\ inbound_nonces' \in [Processes -> SUBSET (Nat \X Nonces)]
<1>1. master_secret' \in [Processes -> Seq(SUBSET Secrets)]
  BY Zenon DEF TypeOK, ApplyNextMaster
<1>2. epoch' \in [Processes -> Nat]
  BY DEF TypeOK, ApplyNextMaster
<1>3. inbound_nonces' \in [Processes -> SUBSET (Nat \X Nonces)]
  <2>1. {s \in seen : s[1] + 1 >= epoch[p] + 1} \in SUBSET (Nat \X Nonces)
    OBVIOUS
  <2> QED
    BY <2>1, Zenon DEF TypeOK, ApplyNextMaster
<1> QED
  BY <1>1, <1>2, <1>3

\* A client starts with the types right.
LEMMA TypeInit == Init => TypeOK
  BY MaxNonceIsNat DEF Init, TypeOK

\* Every step of the client keeps the types.
LEMMA TypeNext == TypeOK /\ [Next]_vars => TypeOK'
<1> SUFFICES ASSUME TypeOK, [Next]_vars
             PROVE  TypeOK'
  OBVIOUS
<1>1. CASE UNCHANGED vars
  BY <1>1, Zenon DEF TypeOK, vars, cryptoVars, clientVars
<1>2. ASSUME NEW p \in Processes, Start(p) PROVE TypeOK'
  BY <1>2, PeerKeyType, ZenonT(60) DEF TypeOK, Start, cryptoVars
<1>3. ASSUME NEW p \in Processes, RetryPeerKey(p) PROVE TypeOK'
  BY <1>3, PeerKeyType, ZenonT(60) DEF TypeOK, RetryPeerKey, cryptoVars, clientVars
<1>4. ASSUME NEW p \in Processes, Quit(p) \/ RekeyCommandFails(p) \/ LineFails(p)
      PROVE TypeOK'
  BY <1>4, ZenonT(60) DEF TypeOK, Quit, RekeyCommandFails, LineFails, cryptoVars
<1>5. ASSUME NEW p \in Processes, ChatLine(p) PROVE TypeOK'
  <2>1. Encrypt(p, 1, Chat) \in Envelopes
    BY <1>5, EncryptType, SMTT(60) DEF ChatLine, Payloads
  <2>2. outbound_since_rekey' \in [Processes -> Nat]
    BY <1>5 DEF ChatLine, CountOutbound, TypeOK
  <2>3. next_outbound_nonce' \in [Processes -> 0..MaxNonce] /\ drawn' \in [Processes -> Nat]
    BY <1>5, MaxNonceIsNat, SMTT(60) DEF ChatLine, AdvanceNonce, NoncesLeft, TypeOK
  <2>4. net' \subseteq Envelopes \cup PeerKeys /\ sent' \subseteq Envelopes
    BY <1>5, <2>1 DEF ChatLine, Emit, TypeOK
  <2>5. UNCHANGED <<phase, peer_public_key, shown, master_secret, epoch,
                    inbound_nonces, pending_rekey, staged_master>>
    BY <1>5 DEF ChatLine
  <2> QED
    BY <2>2, <2>3, <2>4, <2>5, ZenonT(60) DEF TypeOK
<1>6. ASSUME NEW p \in Processes, ChatLineThenRekey(p) \/ RequestNotSent(p)
      PROVE  TypeOK'
  <2>a. EncryptLineAndRequest(p)
    BY <1>6 DEF ChatLineThenRekey, RequestNotSent
  <2>0. NoncesLeft(p, 1)
    BY <2>a, MaxNonceIsNat, SMTT(60) DEF EncryptLineAndRequest, NoncesLeft, TypeOK
  <2>1. Encrypt(p, 1, Chat) \in Envelopes
    BY <2>0, EncryptType DEF Payloads
  <2>2. FreshId(p, 2) \in Ids /\ FreshSecret(p, 2) \in Secrets
    BY FreshTypes
  <2>3. RekeyRequest(FreshId(p, 2), FreshSecret(p, 2)) \in Payloads
    BY <2>2 DEF RekeyRequest, Payloads
  <2>4. Encrypt(p, 2, RekeyRequest(FreshId(p, 2), FreshSecret(p, 2))) \in Envelopes
    BY <2>a, <2>3, EncryptType DEF EncryptLineAndRequest
  <2>5. outbound_since_rekey' \in [Processes -> Nat]
    BY <2>a DEF EncryptLineAndRequest, CountOutbound, TypeOK
  <2>6. next_outbound_nonce' \in [Processes -> 0..MaxNonce] /\ drawn' \in [Processes -> Nat]
    BY <2>a, MaxNonceIsNat, SMTT(60) DEF EncryptLineAndRequest, AdvanceNonce, NoncesLeft, TypeOK
  <2>7. pending_rekey' \in
          [Processes -> SUBSET [rekey_id : Ids, ephemeral_secret : Secrets]]
    BY <2>a, <2>2 DEF EncryptLineAndRequest, StartRekey, TypeOK
  <2>8. net' \subseteq Envelopes \cup PeerKeys /\ sent' \subseteq Envelopes
    BY <1>6, <2>1, <2>4, ZenonT(60) DEF ChatLineThenRekey, RequestNotSent, Emit, TypeOK
  <2>9. UNCHANGED <<peer_public_key, shown, master_secret, epoch,
                    inbound_nonces, staged_master>>
    BY <2>a DEF EncryptLineAndRequest
  <2>10. phase' \in [Processes -> {"new", "running", "exited", "failed"}]
    BY <1>6, ZenonT(60) DEF ChatLineThenRekey, RequestNotSent, TypeOK
  <2> QED
    BY <2>5, <2>6, <2>7, <2>8, <2>9, <2>10, ZenonT(60) DEF TypeOK
<1>7. ASSUME NEW p \in Processes, RekeyCommand(p) PROVE TypeOK'
  <2>2. FreshId(p, 1) \in Ids /\ FreshSecret(p, 1) \in Secrets
    BY FreshTypes
  <2>3. RekeyRequest(FreshId(p, 1), FreshSecret(p, 1)) \in Payloads
    BY <2>2 DEF RekeyRequest, Payloads
  <2>4. Encrypt(p, 1, RekeyRequest(FreshId(p, 1), FreshSecret(p, 1))) \in Envelopes
    BY <1>7, <2>3, EncryptType DEF RekeyCommand
  <2>6. next_outbound_nonce' \in [Processes -> 0..MaxNonce] /\ drawn' \in [Processes -> Nat]
    BY <1>7, MaxNonceIsNat, SMTT(60) DEF RekeyCommand, AdvanceNonce, NoncesLeft, TypeOK
  <2>7. pending_rekey' \in
          [Processes -> SUBSET [rekey_id : Ids, ephemeral_secret : Secrets]]
    BY <1>7, <2>2 DEF RekeyCommand, StartRekey, TypeOK
  <2> QED
    BY <1>7, <2>4, <2>6, <2>7, ZenonT(60) DEF RekeyCommand, Emit, TypeOK, clientVars
<1>8. ASSUME NEW p \in Processes, NEW m \in net, AcceptPeerKey(p, m) PROVE TypeOK'
  <2>1. m.public_key \in Secrets
    BY <1>8, ReceivedType DEF AcceptPeerKey, PeerKeys
  <2>2. StaticSecret(p) \in Secrets
    BY DEF StaticSecret, Secrets
  <2>3. PeerKeyReply(p, m) \subseteq PeerKeys
    BY PeerKeyType DEF PeerKeyReply
  <2>4. net' \subseteq Envelopes \cup PeerKeys
    BY <1>8, <2>3, AfterDeliverySubset DEF AcceptPeerKey, TypeOK
  <2>5. <<DiffieHellman(StaticSecret(p), m.public_key)>> \in Seq(SUBSET Secrets)
    BY <2>1, <2>2 DEF DiffieHellman
  <2>6. /\ master_secret' \in [Processes -> Seq(SUBSET Secrets)]
        /\ epoch' \in [Processes -> Nat]
        /\ next_outbound_nonce' \in [Processes -> 0..MaxNonce]
        /\ inbound_nonces' \in [Processes -> SUBSET (Nat \X Nonces)]
    BY <1>8, <2>5, MaxNonceIsNat, SMTT(60) DEF AcceptPeerKey, NewCryptoSession, TypeOK
  <2>7. /\ pending_rekey' \in
             [Processes -> SUBSET [rekey_id : Ids, ephemeral_secret : Secrets]]
        /\ staged_master' \in [Processes -> SUBSET Seq(SUBSET Secrets)]
        /\ peer_public_key' \in [Processes -> SUBSET Secrets]
    BY <1>8, <2>1, Zenon DEF AcceptPeerKey, NewCryptoSession, TypeOK
  <2>8. UNCHANGED <<phase, outbound_since_rekey, shown, sent, drawn>>
    BY <1>8 DEF AcceptPeerKey, NewCryptoSession
  <2> QED
    BY <2>4, <2>6, <2>7, <2>8, ZenonT(60) DEF TypeOK
<1>9. ASSUME NEW m \in net, RelayRefuses(m) \/ (\E p \in Processes :
                IgnorePeerKey(p, m) \/ RejectEnvelope(p, m))
      PROVE TypeOK'
  BY <1>9, AfterDeliverySubset, Zenon
  DEF TypeOK, RelayRefuses, IgnorePeerKey, RejectEnvelope, cryptoVars, clientVars
<1>10. ASSUME NEW p \in Processes, NEW m \in net, ReceiveChat(p, m) PROVE TypeOK'
  <2>1. m \in Envelopes
    BY <1>10, ReceivedType DEF ReceiveChat, OpensAs, Opens
  <2>2. inbound_nonces' \in [Processes -> SUBSET (Nat \X Nonces)]
    BY <1>10, <2>1, MarkSeenType, ZenonT(60) DEF ReceiveChat, Accepted, TypeOK
  <2>3. shown' \in [Processes -> Seq(Ids)]
    BY <1>10, <2>1 DEF ReceiveChat, Envelopes, TypeOK
  <2> QED
    BY <1>10, <2>2, <2>3, AfterDeliverySubset, ZenonT(60) DEF ReceiveChat, TypeOK
<1>11. ASSUME NEW p \in Processes, NEW m \in net,
              ReceiveRekeyRequest(p, m) \/ ResponseNotSent(p, m)
       PROVE  TypeOK'
  <2> DEFINE payload == m.ciphertext.payload
             next == ComputeNextMaster(p,
                       DiffieHellman(FreshSecret(p, 1), payload.ephemeral_public_key))
  <2>a. RotateAsResponder(p, m)
    BY <1>11, Zenon DEF ReceiveRekeyRequest, ResponseNotSent
  <2>1. m \in Envelopes /\ payload.rekey_id \in Ids /\ payload.ephemeral_public_key \in Secrets
    BY <2>a, ReceivedType DEF RotateAsResponder, OpensAs, Opens
  <2>2. FreshSecret(p, 1) \in Secrets
    BY FreshTypes
  <2>3. next \in Seq(SUBSET Secrets) /\ MarkSeen(p, m) \in SUBSET (Nat \X Nonces)
    BY <2>1, <2>2, NextMasterType, MarkSeenType
  <2>4. RekeyResponse(payload.rekey_id, FreshSecret(p, 1)) \in Payloads
    BY <2>1, <2>2 DEF RekeyResponse, Payloads
  <2>5. Reply(p, payload) \in Envelopes
    BY <2>a, <2>4, EncryptType DEF RotateAsResponder, Reply
  <2>6. next_outbound_nonce' \in [Processes -> 0..MaxNonce] /\ drawn' \in [Processes -> Nat]
    BY <2>a, MaxNonceIsNat, SMTT(60) DEF RotateAsResponder, AdvanceNonce, NoncesLeft, TypeOK
  <2>7. ApplyNextMaster(p, next, MarkSeen(p, m))
    BY <2>a DEF RotateAsResponder
  <2>8. /\ master_secret' \in [Processes -> Seq(SUBSET Secrets)]
        /\ epoch' \in [Processes -> Nat]
        /\ inbound_nonces' \in [Processes -> SUBSET (Nat \X Nonces)]
    BY <2>3, <2>7, ApplyNextMasterType, ZenonT(60)
  <2>9. net' \subseteq Envelopes \cup PeerKeys /\ sent' \subseteq Envelopes
    BY <1>11, <2>5, AfterDeliverySubset, ZenonT(60)
       DEF ReceiveRekeyRequest, ResponseNotSent, Emit, TypeOK
  <2>10. UNCHANGED <<peer_public_key, outbound_since_rekey, shown, pending_rekey, staged_master>>
    BY <2>a DEF RotateAsResponder
  <2>11. phase' \in [Processes -> {"new", "running", "exited", "failed"}]
    BY <1>11, ZenonT(60) DEF ReceiveRekeyRequest, ResponseNotSent, TypeOK
  <2> QED
    BY <2>6, <2>8, <2>9, <2>10, <2>11, ZenonT(60) DEF TypeOK
<1>12. ASSUME NEW p \in Processes, NEW m \in net, StageWithoutReply(p, m) PROVE TypeOK'
  <2> DEFINE next == ComputeNextMaster(p, DiffieHellman(FreshSecret(p, 1),
                       m.ciphertext.payload.ephemeral_public_key))
  <2>1. m \in Envelopes /\ m.ciphertext.payload.ephemeral_public_key \in Secrets
    BY <1>12, ReceivedType DEF StageWithoutReply, OpensAs, Opens
  <2>2. FreshSecret(p, 1) \in Secrets
    BY FreshTypes
  <2>3. next \in Seq(SUBSET Secrets) /\ MarkSeen(p, m) \in SUBSET (Nat \X Nonces)
    BY <2>1, <2>2, NextMasterType, MarkSeenType
  <2>4. inbound_nonces' \in [Processes -> SUBSET (Nat \X Nonces)]
    BY <1>12, <2>3, Zenon DEF StageWithoutReply, Accepted, TypeOK
  <2>5. staged_master' \in [Processes -> SUBSET Seq(SUBSET Secrets)]
    BY <1>12, <2>3, Zenon DEF StageWithoutReply, TypeOK
  <2>6. drawn' \in [Processes -> Nat] /\ net' \subseteq Envelopes \cup PeerKeys
    BY <1>12, AfterDeliverySubset DEF StageWithoutReply, TypeOK
  <2>7. UNCHANGED <<clientVars, sent, master_secret, epoch, next_outbound_nonce, pending_rekey>>
    BY <1>12 DEF StageWithoutReply
  <2> QED
    BY <2>4, <2>5, <2>6, <2>7, ZenonT(60) DEF TypeOK, clientVars
<1>13. ASSUME NEW p \in Processes, NEW m \in net, ReceiveRekeyResponse(p, m) PROVE TypeOK'
  <2> DEFINE payload == m.ciphertext.payload
  <2>1. m \in Envelopes /\ payload.ephemeral_public_key \in Secrets
    BY <1>13, ReceivedType, ZenonT(60) DEF ReceiveRekeyResponse, OpensAs, Opens
  <2>2. PICK w \in pending_rekey[p] :
          ApplyNextMaster(p, ComputeNextMaster(p,
            DiffieHellman(w.ephemeral_secret, payload.ephemeral_public_key)), MarkSeen(p, m))
    BY <1>13 DEF ReceiveRekeyResponse
  <2>3. w.ephemeral_secret \in Secrets
    BY SMTT(60) DEF TypeOK
  <2>4. /\ master_secret' \in [Processes -> Seq(SUBSET Secrets)]
        /\ epoch' \in [Processes -> Nat]
        /\ inbound_nonces' \in [Processes -> SUBSET (Nat \X Nonces)]
    BY <2>1, <2>2, <2>3, NextMasterType, MarkSeenType, ApplyNextMasterType, ZenonT(60)
  <2> QED
    <3>1. /\ pending_rekey' \in [Processes -> SUBSET [rekey_id : Ids, ephemeral_secret : Secrets]]
          /\ outbound_since_rekey' \in [Processes -> Nat]
      BY <1>13 DEF ReceiveRekeyResponse, TypeOK
    <3>2. net' \subseteq net
      BY <1>13, AfterDeliverySubset DEF ReceiveRekeyResponse
    <3>3. UNCHANGED <<phase, peer_public_key, shown, sent, next_outbound_nonce, staged_master, drawn>>
      BY <1>13, Zenon DEF ReceiveRekeyResponse
    <3> QED
      BY <2>4, <3>1, <3>2, <3>3, ZenonT(60) DEF TypeOK
<1>14. ASSUME NEW p \in Processes, NEW m \in net, RefuseHandshake(p, m) PROVE TypeOK'
  <2>1. m \in Envelopes
    BY <1>14, ReceivedType DEF RefuseHandshake, OpensAs, Opens
  <2>2. inbound_nonces' \in [Processes -> SUBSET (Nat \X Nonces)]
    BY <1>14, <2>1, MarkSeenType, ZenonT(60) DEF RefuseHandshake, Accepted, TypeOK
  <2> QED
    BY <1>14, <2>2, AfterDeliverySubset, ZenonT(60) DEF RefuseHandshake, TypeOK, clientVars
<1> QED
  BY <1>1, <1>2, <1>3, <1>4, <1>5, <1>6, <1>7, <1>8, <1>9, <1>10, <1>11, <1>12, <1>13, <1>14, Zenon
  DEF Next, Receive, Handle, ReadLine

\* Every variable of the client model keeps its type; in particular next_nonce never
\* issues a counter above its largest value.
THEOREM TypeCorrect == Spec => []TypeOK
  BY TypeInit, TypeNext, PTL DEF Spec

-----------------------------------------------------------------------------
(* No nonce is used twice under one key.                                   *)

\* PeerKey events carry the key of the process that made them, an accepted key belongs
\* to a process of the other client id, and the first link of a master is the
\* Diffie-Hellman result of the two long-term keys.
KeyOrigin ==
    /\ \A m \in net : m.type = "PeerKey" => \E r \in Processes : m = PeerKey(r)
    /\ \A p \in Processes : \A k \in peer_public_key[p] :
         /\ \E r \in Processes : k = StaticSecret(r) /\ LocalId[r] = PeerId(p)
         /\ Len(master_secret[p]) > 0
         /\ master_secret[p][1] = {StaticSecret(p), k}

\* The process that encrypted an envelope.
Author(m) == m.message_id[1]

\* An envelope was sealed in the one session of its author, with a counter its author
\* has already passed.
SentInSession ==
    \A m \in sent :
        /\ peer_public_key[Author(m)] # {}
        /\ m.nonce[1] = NoncePrefix(Author(m))
        /\ m.nonce[2] <= next_outbound_nonce[Author(m)]
        /\ m.ciphertext.key.master[1] = master_secret[Author(m)][1]

\* A process never issues a counter twice.
CountersDiffer ==
    \A m1, m2 \in sent : Author(m1) = Author(m2) /\ m1.nonce[2] = m2.nonce[2] => m1 = m2

NonceInv == TypeOK /\ KeyOrigin /\ SentInSession /\ CountersDiffer

\* The author and the counter of an envelope have their types.
LEMMA SentTypes ==
  ASSUME TypeOK, NEW m \in sent
  PROVE  Author(m) \in Processes /\ m.nonce[2] \in Nat
<1>1. m.message_id \in Ids /\ m.nonce \in Nonces
  BY DEF TypeOK, Envelopes
<1> QED
  BY <1>1, MaxNonceIsNat DEF Author, Ids, Nonces

\* Different processes have different static keys.
LEMMA StaticSecretInjective ==
  ASSUME NEW p, NEW q, StaticSecret(p) = StaticSecret(q)
  PROVE  p = q
  BY DEF StaticSecret

\* The invariant suffices: equal keys and prefixes come from the same process.
LEMMA NonceInvImpliesNoReuse == NonceInv => NoNonceReuse
<1> SUFFICES ASSUME NonceInv, NEW m1 \in sent, NEW m2 \in sent,
                    m1.ciphertext.key = m2.ciphertext.key, m1.nonce = m2.nonce
             PROVE  m1 = m2
  BY DEF NoNonceReuse
<1> DEFINE p == Author(m1)
           q == Author(m2)
<1>1. p \in Processes /\ q \in Processes
  BY SentTypes DEF NonceInv
<1>2. PICK k \in peer_public_key[p] : TRUE
  BY DEF NonceInv, SentInSession
<1>3. PICK l \in peer_public_key[q] : TRUE
  BY DEF NonceInv, SentInSession
<1>4. {StaticSecret(p), k} = {StaticSecret(q), l}
  <2>1. master_secret[p][1] = master_secret[q][1]
    BY DEF NonceInv, SentInSession
  <2>2. master_secret[p][1] = {StaticSecret(p), k}
    BY <1>1, <1>2 DEF NonceInv, KeyOrigin
  <2>3. master_secret[q][1] = {StaticSecret(q), l}
    BY <1>1, <1>3, Zenon DEF NonceInv, KeyOrigin
  <2> QED
    BY <2>1, <2>2, <2>3, Zenon
<1>5. LocalId[p] = LocalId[q]
  BY SMTT(60) DEF NonceInv, SentInSession, NoncePrefix
<1>6. PICK r \in Processes : k = StaticSecret(r) /\ LocalId[r] = PeerId(p)
  BY <1>1, <1>2, Zenon DEF NonceInv, KeyOrigin
<1>7. r # q
  BY <1>1, <1>5, <1>6, PeerIdType, Zenon
<1>8. StaticSecret(q) # k
  BY <1>6, <1>7, StaticSecretInjective
<1>9. p = q
  BY <1>4, <1>8, StaticSecretInjective, Zenon
<1> QED
  BY <1>9 DEF NonceInv, CountersDiffer

\* What the proof needs to know of an envelope that p encrypts.
LEMMA EncryptFacts ==
  ASSUME NEW p, NEW k, NEW payload
  PROVE  /\ Author(Encrypt(p, k, payload)) = p
         /\ Encrypt(p, k, payload).type = "EncryptedMessage"
         /\ Encrypt(p, k, payload).nonce[1] = NoncePrefix(p)
         /\ Encrypt(p, k, payload).nonce[2] = next_outbound_nonce[p] + k
         /\ Encrypt(p, k, payload).ciphertext.key.master = master_secret[p]
  BY ZenonT(60) DEF Author, Encrypt, FreshId, Seal, CipherFor

\* encrypt_payload builds an EncryptedMessage.
LEMMA EncryptedType == \A p, k, payload : Encrypt(p, k, payload).type = "EncryptedMessage"
  BY Zenon DEF Encrypt

\* The first link of an established master survives, and the master is not empty.
KeepsFirstLink ==
    \A q \in Processes : peer_public_key[q] # {} =>
        Len(master_secret'[q]) > 0 /\ master_secret'[q][1] = master_secret[q][1]

\* Nonce counters are natural numbers.
LEMMA CountersAreNat == 0..MaxNonce \subseteq Nat
  BY MaxNonceIsNat

\* The counters that a step issues, from the counter x it starts with.
LEMMA NewCounters ==
  /\ \A x, k \in Nat : \A n \in x + 1 .. x + k : ~(n <= x) /\ n <= x + k
  /\ \A x \in Nat : x + 1 \in x + 1 .. x + 1 /\ x + 1 \in x + 1 .. x + 2
                      /\ x + 2 \in x + 1 .. x + 2 /\ x + 1 # x + 2
  OBVIOUS

\* A step of an established session that sends the envelopes out keeps the invariant.
LEMMA SendKeepsSent ==
  ASSUME NonceInv, TypeOK', NEW p \in Processes, NEW k \in Nat, NEW out,
         peer_public_key[p] # {}, UNCHANGED peer_public_key,
         sent' = sent \cup out,
         next_outbound_nonce' = [next_outbound_nonce EXCEPT ![p] = @ + k],
         \A m \in out :
            /\ Author(m) = p
            /\ m.nonce[1] = NoncePrefix(p)
            /\ m.nonce[2] \in next_outbound_nonce[p] + 1 .. next_outbound_nonce[p] + k
            /\ m.ciphertext.key.master = master_secret[p],
         \A m1, m2 \in out : m1.nonce[2] = m2.nonce[2] => m1 = m2,
         KeepsFirstLink
  PROVE  SentInSession' /\ CountersDiffer'
<1>0. /\ next_outbound_nonce \in [Processes -> 0..MaxNonce]
      /\ \A m \in sent : Author(m) \in Processes /\ m.nonce[2] \in Nat
  <2>1. TypeOK
    BY Zenon DEF NonceInv
  <2> QED
    BY <2>1, SentTypes, ZenonT(60) DEF TypeOK
<1>a. next_outbound_nonce[p] \in Nat
  <2>1. next_outbound_nonce[p] \in 0..MaxNonce
    BY <1>0, Zenon
  <2> QED
    BY <2>1, CountersAreNat, Zenon
<1>b. \A n \in next_outbound_nonce[p] + 1 .. next_outbound_nonce[p] + k :
        ~(n <= next_outbound_nonce[p]) /\ n <= next_outbound_nonce[p] + k
  BY <1>a, NewCounters, Zenon
<1>1. ASSUME NEW m \in sent
      PROVE  /\ peer_public_key'[Author(m)] # {}
             /\ m.nonce[1] = NoncePrefix(Author(m))
             /\ m.nonce[2] <= next_outbound_nonce'[Author(m)]
             /\ m.ciphertext.key.master[1] = master_secret'[Author(m)][1]
  <2>1. /\ peer_public_key[Author(m)] # {}
        /\ m.nonce[1] = NoncePrefix(Author(m))
        /\ m.nonce[2] <= next_outbound_nonce[Author(m)]
        /\ m.ciphertext.key.master[1] = master_secret[Author(m)][1]
    BY Zenon DEF NonceInv, SentInSession
  <2>2. /\ next_outbound_nonce[Author(m)] \in Nat
        /\ next_outbound_nonce'[Author(m)] \in Nat
        /\ next_outbound_nonce[Author(m)] <= next_outbound_nonce'[Author(m)]
    BY <1>0, MaxNonceIsNat, SMTT(60)
  <2>3. m.nonce[2] <= next_outbound_nonce'[Author(m)]
    BY <1>0, <2>1, <2>2, SMTT(60)
  <2> QED
    BY <1>0, <2>1, <2>3, ZenonT(60) DEF KeepsFirstLink
<1>2. ASSUME NEW m \in out
      PROVE  /\ peer_public_key'[Author(m)] # {}
             /\ m.nonce[1] = NoncePrefix(Author(m))
             /\ m.nonce[2] <= next_outbound_nonce'[Author(m)]
             /\ m.ciphertext.key.master[1] = master_secret'[Author(m)][1]
  <2>1. /\ Author(m) = p /\ m.nonce[1] = NoncePrefix(p)
        /\ m.nonce[2] \in next_outbound_nonce[p] + 1 .. next_outbound_nonce[p] + k
        /\ m.ciphertext.key.master = master_secret[p]
    BY <1>2, Zenon
  <2>2. next_outbound_nonce'[p] = next_outbound_nonce[p] + k
    BY <1>0, Zenon
  <2>a. m.nonce[2] <= next_outbound_nonce[p] + k
    BY <1>b, <2>1, Zenon
  <2>3. m.nonce[2] <= next_outbound_nonce'[p]
    BY <2>2, <2>a, Zenon
  <2> QED
    BY <2>1, <2>3, Zenon DEF KeepsFirstLink
<1>3. SentInSession'
  BY <1>1, <1>2 DEF SentInSession, Author, NoncePrefix, PeerId
<1>4. \A m1 \in sent, m2 \in out : Author(m1) = Author(m2) => m1.nonce[2] # m2.nonce[2]
  <2> TAKE m1 \in sent, m2 \in out
  <2> HAVE Author(m1) = Author(m2)
  <2>1. Author(m2) = p /\ m2.nonce[2] \in next_outbound_nonce[p] + 1 .. next_outbound_nonce[p] + k
    BY Zenon
  <2>2. m1.nonce[2] <= next_outbound_nonce[p]
    BY <2>1, Zenon DEF NonceInv, SentInSession
  <2>3. ~(m2.nonce[2] <= next_outbound_nonce[p])
    BY <1>b, <2>1, Zenon
  <2> QED
    BY <2>2, <2>3, Zenon
<1>5. CountersDiffer'
  <2>1. CountersDiffer
    BY Zenon DEF NonceInv
  <2> SUFFICES ASSUME NEW m1 \in sent', NEW m2 \in sent', Author(m1) = Author(m2),
                      m1.nonce[2] = m2.nonce[2]
               PROVE  m1 = m2
    BY Zenon DEF CountersDiffer, Author
  <2>2. (m1 \in sent \/ m1 \in out) /\ (m2 \in sent \/ m2 \in out)
    BY Zenon
  <2> QED
    BY <1>4, <2>1, <2>2, Zenon DEF CountersDiffer
<1> QED
  BY <1>3, <1>5, Zenon

\* Sessions keep their origin when keys and first links stay.
LEMMA KeyOriginKept ==
  ASSUME NonceInv, UNCHANGED peer_public_key, KeepsFirstLink,
         \A m \in net' : m \in net \/ m.type = "EncryptedMessage"
                           \/ \E r \in Processes : m = PeerKey(r)
  PROVE  KeyOrigin'
  BY ZenonT(60) DEF NonceInv, KeyOrigin, KeepsFirstLink, PeerKey, PeerId, StaticSecret

\* Steps that send nothing and leave the established sessions' counters alone.
LEMMA QuietKeepsInv ==
  ASSUME NonceInv, TypeOK', UNCHANGED <<peer_public_key, sent, next_outbound_nonce>>,
         KeepsFirstLink,
         \A m \in net' : m \in net \/ \E r \in Processes : m = PeerKey(r)
  PROVE  NonceInv'
<1>1. KeyOrigin'
  BY KeyOriginKept
<1>2. \A m \in sent : Author(m) \in Processes
  BY SentTypes, Zenon DEF NonceInv
<1>3. SentInSession'
  BY <1>2 DEF NonceInv, SentInSession, KeepsFirstLink, Author, NoncePrefix, PeerId
<1>4. CountersDiffer'
  BY DEF NonceInv, CountersDiffer, Author
<1> QED
  BY <1>1, <1>3, <1>4 DEF NonceInv

\* Every unchanged master keeps its first link.
LEMMA SameMaster ==
  ASSUME NonceInv, UNCHANGED master_secret
  PROVE  KeepsFirstLink
  BY Zenon DEF NonceInv, KeyOrigin, KeepsFirstLink

\* Rotating appends to the master.
LEMMA RotationKeepsFirstLink ==
  ASSUME NonceInv, NEW p \in Processes, NEW s \in SUBSET Secrets, NEW seen,
         ApplyNextMaster(p, ComputeNextMaster(p, s), seen)
  PROVE  KeepsFirstLink
<1> SUFFICES ASSUME NEW q \in Processes, peer_public_key[q] # {}
             PROVE  Len(master_secret'[q]) > 0 /\ master_secret'[q][1] = master_secret[q][1]
  BY Zenon DEF KeepsFirstLink
<1>0. TypeOK
  BY DEF NonceInv
<1>1. master_secret \in [Processes -> Seq(SUBSET Secrets)]
  BY <1>0, ZenonT(60) DEF TypeOK
<1>2. Len(master_secret[q]) > 0
  BY DEF NonceInv, KeyOrigin
<1>3. CASE q = p
  BY <1>1, <1>2, <1>3, SMTT(60) DEF ApplyNextMaster, ComputeNextMaster
<1>4. CASE q # p
  BY <1>1, <1>2, <1>4, Zenon DEF ApplyNextMaster
<1> QED
  BY <1>3, <1>4, Zenon

\* Nothing has been sent at the start.
LEMMA NonceInvInit == Init => NonceInv
  BY TypeInit DEF Init, NonceInv, KeyOrigin, SentInSession, CountersDiffer

\* The same for the one or two envelopes of a step.
LEMMA OneEnvelope ==
  ASSUME NEW p, next_outbound_nonce[p] \in Nat, NEW payload
  PROVE  \A x, y \in {Encrypt(p, 1, payload)} :
            /\ Author(x) = p
            /\ x.nonce[1] = NoncePrefix(p)
            /\ x.nonce[2] \in next_outbound_nonce[p] + 1 .. next_outbound_nonce[p] + 1
            /\ x.ciphertext.key.master = master_secret[p]
            /\ x.nonce[2] = y.nonce[2] => x = y
<1> DEFINE a == Encrypt(p, 1, payload)
<1>1. /\ Author(a) = p /\ a.nonce[1] = NoncePrefix(p) /\ a.nonce[2] = next_outbound_nonce[p] + 1
      /\ a.ciphertext.key.master = master_secret[p]
  BY ZenonT(60) DEF Author, Encrypt, FreshId, Seal, CipherFor
<1> HIDE DEF a
<1>2. a.nonce[2] \in next_outbound_nonce[p] + 1 .. next_outbound_nonce[p] + 1
  BY <1>1, NewCounters, Zenon
<1> SUFFICES ASSUME NEW x \in {a}
             PROVE  /\ Author(x) = p
                    /\ x.nonce[1] = NoncePrefix(p)
                    /\ x.nonce[2] \in next_outbound_nonce[p] + 1 .. next_outbound_nonce[p] + 1
                    /\ x.ciphertext.key.master = master_secret[p]
  BY Zenon DEF a
<1> QED
  BY <1>1, <1>2, ZenonT(60)

\* A chat line and the request that follows it.
LEMMA TwoEnvelopes ==
  ASSUME NEW p, next_outbound_nonce[p] \in Nat, NEW payload1, NEW payload2
  PROVE  \A x, y \in {Encrypt(p, 1, payload1), Encrypt(p, 2, payload2)} :
            /\ Author(x) = p
            /\ x.nonce[1] = NoncePrefix(p)
            /\ x.nonce[2] \in next_outbound_nonce[p] + 1 .. next_outbound_nonce[p] + 2
            /\ x.ciphertext.key.master = master_secret[p]
            /\ x.nonce[2] = y.nonce[2] => x = y
<1> DEFINE a == Encrypt(p, 1, payload1)
           b == Encrypt(p, 2, payload2)
<1>1. /\ Author(a) = p /\ a.nonce[1] = NoncePrefix(p) /\ a.nonce[2] = next_outbound_nonce[p] + 1
      /\ a.ciphertext.key.master = master_secret[p]
  BY ZenonT(60) DEF Author, Encrypt, FreshId, Seal, CipherFor
<1>2. /\ Author(b) = p /\ b.nonce[1] = NoncePrefix(p) /\ b.nonce[2] = next_outbound_nonce[p] + 2
      /\ b.ciphertext.key.master = master_secret[p]
  BY ZenonT(60) DEF Author, Encrypt, FreshId, Seal, CipherFor
<1>3. /\ a.nonce[2] \in next_outbound_nonce[p] + 1 .. next_outbound_nonce[p] + 2
      /\ b.nonce[2] \in next_outbound_nonce[p] + 1 .. next_outbound_nonce[p] + 2
      /\ a.nonce[2] # b.nonce[2]
  <2> HIDE DEF a, b
  <2> QED
    BY <1>1, <1>2, NewCounters, Zenon
<1> HIDE DEF a, b
<1> SUFFICES ASSUME NEW x \in {a, b}, NEW y \in {a, b}
             PROVE  /\ Author(x) = p
                    /\ x.nonce[1] = NoncePrefix(p)
                    /\ x.nonce[2] \in next_outbound_nonce[p] + 1 .. next_outbound_nonce[p] + 2
                    /\ x.ciphertext.key.master = master_secret[p]
                    /\ x.nonce[2] = y.nonce[2] => x = y
  BY ZenonT(60) DEF a, b
<1> QED
  BY <1>1, <1>2, <1>3, Zenon

\* Every step of the client keeps the invariant.
LEMMA NonceInvNext == NonceInv /\ [Next]_vars => NonceInv'
<1> SUFFICES ASSUME NonceInv, [Next]_vars
             PROVE  NonceInv'
  OBVIOUS
<1>0. TypeOK /\ TypeOK'
  BY TypeNext, Zenon DEF NonceInv
<1>a. \A p \in Processes : next_outbound_nonce[p] \in Nat
  BY <1>0, MaxNonceIsNat DEF TypeOK
<1>1. CASE UNCHANGED vars
  BY <1>0, <1>1, SameMaster, QuietKeepsInv DEF vars, cryptoVars, clientVars
<1>2. ASSUME NEW p \in Processes,
             \/ Start(p) \/ RetryPeerKey(p) \/ Quit(p)
             \/ RekeyCommandFails(p) \/ LineFails(p)
      PROVE  NonceInv'
  <2>1. UNCHANGED <<peer_public_key, sent, next_outbound_nonce, master_secret>>
    BY <1>2, ZenonT(60)
       DEF Start, RetryPeerKey, Quit, RekeyCommandFails, LineFails, cryptoVars, clientVars
  <2>2. \A m \in net' : m \in net \/ \E r \in Processes : m = PeerKey(r)
    BY <1>2 DEF Start, RetryPeerKey, Quit, RekeyCommandFails, LineFails
  <2> QED
    BY <1>0, <2>1, <2>2, SameMaster, QuietKeepsInv, Zenon
<1>3. ASSUME NEW m \in net,
             \/ RelayRefuses(m)
             \/ \E p \in Processes : \/ IgnorePeerKey(p, m) \/ RejectEnvelope(p, m)
                                     \/ ReceiveChat(p, m) \/ StageWithoutReply(p, m)
                                     \/ RefuseHandshake(p, m)
      PROVE  NonceInv'
  <2>1. UNCHANGED <<peer_public_key, sent, next_outbound_nonce, master_secret>>
    BY <1>3, ZenonT(60)
       DEF RelayRefuses, IgnorePeerKey, RejectEnvelope, ReceiveChat, StageWithoutReply,
                RefuseHandshake, cryptoVars, clientVars
  <2>2. net' \subseteq net
    BY <1>3, AfterDeliverySubset DEF RelayRefuses, IgnorePeerKey, RejectEnvelope, ReceiveChat,
                StageWithoutReply, RefuseHandshake
  <2> QED
    BY <1>0, <2>1, <2>2, SameMaster, QuietKeepsInv, Zenon
<1>4. ASSUME NEW p \in Processes, ChatLine(p) PROVE NonceInv'
  <2> DEFINE out == {Encrypt(p, 1, Chat)}
  <2>1. /\ peer_public_key[p] # {} /\ UNCHANGED <<peer_public_key, master_secret>>
        /\ sent' = sent \cup out /\ net' = net \cup out
        /\ next_outbound_nonce' = [next_outbound_nonce EXCEPT ![p] = @ + 1]
    BY <1>4, ZenonT(60) DEF ChatLine, IsReady, Emit, AdvanceNonce
  <2>2. KeepsFirstLink
    BY <2>1, SameMaster, ZenonT(60)
  <2>a. /\ \A x \in out : /\ Author(x) = p
                          /\ x.nonce[1] = NoncePrefix(p)
                          /\ x.nonce[2] \in next_outbound_nonce[p] + 1 .. next_outbound_nonce[p] + 1
                          /\ x.ciphertext.key.master = master_secret[p]
        /\ \A x, y \in out : x.nonce[2] = y.nonce[2] => x = y
    BY <1>a, OneEnvelope
  <2>3. SentInSession' /\ CountersDiffer'
    <3> HIDE DEF out
    <3> QED
      BY <1>0, <2>1, <2>2, <2>a, SendKeepsSent, ZenonT(60)
  <2>4. KeyOrigin'
    <3>1. \A x \in out : x.type = "EncryptedMessage"
      BY EncryptedType, Zenon
    <3> HIDE DEF out
    <3>2. \A x \in net' : x \in net \/ x.type = "EncryptedMessage"
      BY <2>1, <3>1, Zenon
    <3> QED
      BY <2>1, <2>2, <3>2, KeyOriginKept, Zenon
  <2> QED
    BY <1>0, <2>3, <2>4, Zenon DEF NonceInv
<1>5. ASSUME NEW p \in Processes, ChatLineThenRekey(p) \/ RequestNotSent(p) PROVE NonceInv'
  <2> DEFINE both == {Encrypt(p, 1, Chat),
                      Encrypt(p, 2, RekeyRequest(FreshId(p, 2), FreshSecret(p, 2)))}
  <2>1. /\ peer_public_key[p] # {} /\ UNCHANGED <<peer_public_key, master_secret>>
        /\ next_outbound_nonce' = [next_outbound_nonce EXCEPT ![p] = @ + 2]
    BY <1>5, ZenonT(60)
       DEF ChatLineThenRekey, RequestNotSent, EncryptLineAndRequest, IsReady, AdvanceNonce
  <2>2. PICK out \in SUBSET both : sent' = sent \cup out /\ net' = net \cup out
    BY <1>5, ZenonT(60) DEF ChatLineThenRekey, RequestNotSent, Emit
  <2>3. KeepsFirstLink
    BY <2>1, SameMaster, ZenonT(60)
  <2>4. /\ \A x \in out : /\ Author(x) = p
                          /\ x.nonce[1] = NoncePrefix(p)
                          /\ x.nonce[2] \in next_outbound_nonce[p] + 1 .. next_outbound_nonce[p] + 2
                          /\ x.ciphertext.key.master = master_secret[p]
        /\ \A x, y \in out : x.nonce[2] = y.nonce[2] => x = y
    <3>1. \A x, y \in both :
            /\ Author(x) = p
            /\ x.nonce[1] = NoncePrefix(p)
            /\ x.nonce[2] \in next_outbound_nonce[p] + 1 .. next_outbound_nonce[p] + 2
            /\ x.ciphertext.key.master = master_secret[p]
            /\ x.nonce[2] = y.nonce[2] => x = y
      BY <1>a, TwoEnvelopes, Zenon
    <3> HIDE DEF both
    <3> QED
      BY <2>2, <3>1, Zenon
  <2>5. SentInSession' /\ CountersDiffer'
    BY <1>0, <2>1, <2>2, <2>3, <2>4, SendKeepsSent, ZenonT(60)
  <2>6. KeyOrigin'
    <3>1. \A x \in both : x.type = "EncryptedMessage"
      BY EncryptedType, Zenon
    <3> HIDE DEF both
    <3>2. \A x \in net' : x \in net \/ x.type = "EncryptedMessage"
      BY <2>2, <3>1, Zenon
    <3> QED
      BY <2>1, <2>3, <3>2, KeyOriginKept, Zenon
  <2> QED
    BY <1>0, <2>5, <2>6, Zenon DEF NonceInv
<1>6. ASSUME NEW p \in Processes, RekeyCommand(p) PROVE NonceInv'
  <2> DEFINE out == {Encrypt(p, 1, RekeyRequest(FreshId(p, 1), FreshSecret(p, 1)))}
  <2>1. /\ peer_public_key[p] # {} /\ UNCHANGED <<peer_public_key, master_secret>>
        /\ sent' = sent \cup out /\ net' = net \cup out
        /\ next_outbound_nonce' = [next_outbound_nonce EXCEPT ![p] = @ + 1]
    BY <1>6, ZenonT(60) DEF RekeyCommand, IsReady, Emit, AdvanceNonce, clientVars
  <2>2. KeepsFirstLink
    BY <2>1, SameMaster, ZenonT(60)
  <2>a. /\ \A x \in out : /\ Author(x) = p
                          /\ x.nonce[1] = NoncePrefix(p)
                          /\ x.nonce[2] \in next_outbound_nonce[p] + 1 .. next_outbound_nonce[p] + 1
                          /\ x.ciphertext.key.master = master_secret[p]
        /\ \A x, y \in out : x.nonce[2] = y.nonce[2] => x = y
    BY <1>a, OneEnvelope, ZenonT(60)
  <2>3. SentInSession' /\ CountersDiffer'
    <3> HIDE DEF out
    <3> QED
      BY <1>0, <2>1, <2>2, <2>a, SendKeepsSent, ZenonT(60)
  <2>4. KeyOrigin'
    <3>1. \A x \in out : x.type = "EncryptedMessage"
      BY EncryptedType, Zenon
    <3> HIDE DEF out
    <3>2. \A x \in net' : x \in net \/ x.type = "EncryptedMessage"
      BY <2>1, <3>1, Zenon
    <3> QED
      BY <2>1, <2>2, <3>2, KeyOriginKept, Zenon
  <2> QED
    BY <1>0, <2>3, <2>4 DEF NonceInv
<1>7. ASSUME NEW p \in Processes, NEW m \in net,
             ReceiveRekeyRequest(p, m) \/ ResponseNotSent(p, m)
      PROVE  NonceInv'
  <2> DEFINE payload == m.ciphertext.payload
             shared == DiffieHellman(FreshSecret(p, 1), payload.ephemeral_public_key)
  <2>a. RotateAsResponder(p, m)
    BY <1>7 DEF ReceiveRekeyRequest, ResponseNotSent
  <2>1. /\ peer_public_key[p] # {} /\ UNCHANGED peer_public_key
        /\ next_outbound_nonce' = [next_outbound_nonce EXCEPT ![p] = @ + 1]
        /\ ApplyNextMaster(p, ComputeNextMaster(p, shared), MarkSeen(p, m))
    BY <2>a, ZenonT(60) DEF RotateAsResponder, OpensAs, Opens, AdvanceNonce
  <2>2. PICK out \in SUBSET {Reply(p, payload)} :
          sent' = sent \cup out /\ net' = AfterDelivery(m) \cup out
    <3>1. CASE ReceiveRekeyRequest(p, m)
      BY <3>1, ZenonT(60) DEF ReceiveRekeyRequest, Emit
    <3>2. CASE ResponseNotSent(p, m)
      <4>1. {} \in SUBSET {Reply(p, payload)} /\ sent' = sent \cup {}
            /\ net' = AfterDelivery(m) \cup {}
        BY <3>2, Zenon DEF ResponseNotSent
      <4> QED
        BY <4>1, ZenonT(60)
    <3> QED
      BY <1>7, <3>1, <3>2
  <2>b. shared \in SUBSET Secrets
    <3>1. OpensAs(p, m, "RekeyRequest")
      BY <2>a, Zenon DEF RotateAsResponder
    <3> QED
      BY <1>0, <3>1, SharedType, Zenon
  <2>3. KeepsFirstLink
    BY <2>1, <2>b, RotationKeepsFirstLink, ZenonT(60)
  <2>4. /\ \A x \in out : /\ Author(x) = p
                          /\ x.nonce[1] = NoncePrefix(p)
                          /\ x.nonce[2] \in next_outbound_nonce[p] + 1 .. next_outbound_nonce[p] + 1
                          /\ x.ciphertext.key.master = master_secret[p]
        /\ \A x, y \in out : x.nonce[2] = y.nonce[2] => x = y
    BY <1>a, <2>2, OneEnvelope DEF Reply
  <2>5. SentInSession' /\ CountersDiffer'
    BY <1>0, <2>1, <2>2, <2>3, <2>4, SendKeepsSent, ZenonT(60)
  <2>6. KeyOrigin'
    <3>1. Reply(p, payload).type = "EncryptedMessage"
      BY ZenonT(60) DEF Reply, Encrypt
    <3>2. \A x \in out : x.type = "EncryptedMessage"
      BY <2>2, <3>1
    <3>3. \A x \in net' : x \in net \/ x.type = "EncryptedMessage"
      BY <2>2, <3>2, AfterDeliverySubset, Zenon
    <3> HIDE DEF shared, payload
    <3> QED
      BY <2>1, <2>3, <3>3, KeyOriginKept, Zenon
  <2> QED
    BY <1>0, <2>5, <2>6, Zenon DEF NonceInv
<1>8. ASSUME NEW p \in Processes, NEW m \in net, ReceiveRekeyResponse(p, m) PROVE NonceInv'
  <2> DEFINE payload == m.ciphertext.payload
  <2>1. PICK w \in pending_rekey[p] :
          ApplyNextMaster(p, ComputeNextMaster(p,
            DiffieHellman(w.ephemeral_secret, payload.ephemeral_public_key)), MarkSeen(p, m))
    BY <1>8 DEF ReceiveRekeyResponse
  <2>2. DiffieHellman(w.ephemeral_secret, payload.ephemeral_public_key) \in SUBSET Secrets
    <3>1. payload.ephemeral_public_key \in Secrets
      BY <1>0, <1>8, ReceivedType, ZenonT(60) DEF ReceiveRekeyResponse, OpensAs, Opens
    <3>2. w.ephemeral_secret \in Secrets
      BY <1>0, SMTT(60) DEF TypeOK
    <3> QED
      BY <3>1, <3>2, Zenon DEF DiffieHellman
  <2>3. KeepsFirstLink
    BY <2>1, <2>2, RotationKeepsFirstLink, ZenonT(60)
  <2>4. UNCHANGED <<peer_public_key, sent, next_outbound_nonce>> /\ net' \subseteq net
    BY <1>8, AfterDeliverySubset DEF ReceiveRekeyResponse
  <2> QED
    BY <1>0, <2>3, <2>4, QuietKeepsInv, Zenon
<1>9. ASSUME NEW p \in Processes, NEW m \in net, AcceptPeerKey(p, m) PROVE NonceInv'
  <2> DEFINE k == m.public_key
  <2>1. PICK r \in Processes : m = PeerKey(r)
    BY <1>9, ZenonT(60) DEF AcceptPeerKey, NonceInv, KeyOrigin
  <2>2. k = StaticSecret(r) /\ LocalId[r] = PeerId(p)
    BY <1>9, <2>1, ZenonT(60) DEF AcceptPeerKey, AcceptsKey, PeerKey
  <2>3. /\ peer_public_key[p] = {}
        /\ peer_public_key' = [peer_public_key EXCEPT ![p] = {k}]
        /\ master_secret' = [master_secret EXCEPT ![p] = <<{StaticSecret(p), k}>>]
        /\ next_outbound_nonce' = [next_outbound_nonce EXCEPT ![p] = 0]
        /\ sent' = sent
    BY <1>9, ZenonT(60) DEF AcceptPeerKey, AcceptsKey, NewCryptoSession, DiffieHellman
  <2>4. \A x \in net' : x \in net \/ \E q \in Processes : x = PeerKey(q)
    BY <1>9, AfterDeliverySubset, Zenon DEF AcceptPeerKey, PeerKeyReply
  <2>5. \A x \in sent : Author(x) \in Processes /\ Author(x) # p
    BY <1>0, <2>3, SentTypes, ZenonT(60) DEF NonceInv, SentInSession
  <2>6. SentInSession'
    BY <1>0, <2>3, <2>5, ZenonT(60)
       DEF NonceInv, SentInSession, TypeOK, Author, NoncePrefix, PeerId
  <2>7. CountersDiffer'
    BY <2>3, Zenon DEF NonceInv, CountersDiffer, Author
  <2>8. \A x \in net' : x.type = "PeerKey" => \E q \in Processes : x = PeerKey(q)
    BY <2>4, Zenon DEF NonceInv, KeyOrigin
  <2>9. ASSUME NEW q \in Processes, NEW l \in peer_public_key'[q]
        PROVE  /\ \E x \in Processes : l = StaticSecret(x) /\ LocalId[x] = PeerId(q)
               /\ Len(master_secret'[q]) > 0
               /\ master_secret'[q][1] = {StaticSecret(q), l}
    <3>1. CASE q = p
      <4>1. master_secret'[p] = <<{StaticSecret(p), k}>> /\ peer_public_key'[p] = {k}
        BY <1>0, <2>3, ZenonT(60) DEF TypeOK
      <4> QED
        BY <2>2, <2>9, <3>1, <4>1, SMTT(60)
    <3>2. CASE q # p
      BY <1>0, <2>3, <2>9, <3>2, ZenonT(60) DEF TypeOK, NonceInv, KeyOrigin
    <3> QED
      BY <3>1, <3>2, ZenonT(60)
  <2>10. KeyOrigin'
    BY <2>8, <2>9 DEF KeyOrigin, PeerKey, PeerId, StaticSecret
  <2> QED
    BY <1>0, <2>6, <2>7, <2>10, Zenon DEF NonceInv
<1> QED
  BY <1>1, <1>2, <1>3, <1>4, <1>5, <1>6, <1>7, <1>8, <1>9 DEF Next, Receive, Handle, ReadLine

\* No AEAD key is used twice with one nonce, however many processes, messages, repeated
\* deliveries, restarts and rotations there are.
THEOREM NonceUniqueness == Spec => []NoNonceReuse
<1>1. Spec => []NonceInv
  BY NonceInvInit, NonceInvNext, PTL DEF Spec
<1> QED
  BY <1>1, NonceInvImpliesNoReuse, PTL

-----------------------------------------------------------------------------
(* An established session is never rebuilt.                                *)

\* Steps that neither accept a key nor rotate.
LEMMA QuietKeepsSession ==
  ASSUME TypeOK, UNCHANGED <<peer_public_key, epoch, master_secret>>,
         \A p \in Processes : next_outbound_nonce'[p] >= next_outbound_nonce[p]
  PROVE  KeepsSession
  BY Zenon DEF KeepsSession

\* Rotations.
LEMMA RotationKeepsSession ==
  ASSUME TypeOK, NEW p \in Processes, NEW s \in SUBSET Secrets, NEW seen,
         ApplyNextMaster(p, ComputeNextMaster(p, s), seen),
         UNCHANGED peer_public_key,
         \A q \in Processes : next_outbound_nonce'[q] >= next_outbound_nonce[q]
  PROVE  KeepsSession
<1> SUFFICES ASSUME NEW q \in Processes
             PROVE  \/ epoch'[q] = epoch[q] /\ master_secret'[q] = master_secret[q]
                    \/ /\ epoch'[q] = epoch[q] + 1
                       /\ Len(master_secret'[q]) = Len(master_secret[q]) + 1
  BY ZenonT(60) DEF KeepsSession
<1>1. epoch \in [Processes -> Nat] /\ master_secret \in [Processes -> Seq(SUBSET Secrets)]
  BY ZenonT(60) DEF TypeOK
<1>2. CASE q = p
  BY <1>1, <1>2, SMTT(60) DEF ApplyNextMaster, ComputeNextMaster
<1>3. CASE q # p
  BY <1>1, <1>3, ZenonT(60) DEF ApplyNextMaster
<1> QED
  BY <1>2, <1>3, ZenonT(60)

\* Every step of the client keeps the established sessions.
LEMMA SessionStep == TypeOK /\ [Next]_vars => [KeepsSession]_vars
<1> SUFFICES ASSUME TypeOK, Next
             PROVE  KeepsSession
  BY Zenon
<1>a. \A p \in Processes : next_outbound_nonce[p] \in Nat
  BY MaxNonceIsNat, SMTT(60) DEF TypeOK
<1>b. next_outbound_nonce \in [Processes -> 0..MaxNonce]
  BY DEF TypeOK
<1>d. UNCHANGED next_outbound_nonce =>
        \A q \in Processes : next_outbound_nonce'[q] >= next_outbound_nonce[q]
  BY <1>a
<1>1. ASSUME NEW p \in Processes,
             \/ Start(p) \/ RetryPeerKey(p) \/ Quit(p) \/ RekeyCommandFails(p) \/ LineFails(p)
      PROVE  KeepsSession
  <2>1. UNCHANGED <<peer_public_key, epoch, master_secret, next_outbound_nonce>>
    BY <1>1 DEF Start, RetryPeerKey, Quit, RekeyCommandFails, LineFails, cryptoVars, clientVars
  <2> QED
    BY <1>d, <2>1, QuietKeepsSession, Zenon
<1>2. ASSUME NEW m \in net,
             \/ RelayRefuses(m)
             \/ \E p \in Processes : \/ IgnorePeerKey(p, m) \/ RejectEnvelope(p, m)
                                     \/ ReceiveChat(p, m) \/ StageWithoutReply(p, m)
                                     \/ RefuseHandshake(p, m)
      PROVE  KeepsSession
  <2>1. UNCHANGED <<peer_public_key, epoch, master_secret, next_outbound_nonce>>
    BY <1>2, ZenonT(60)
       DEF RelayRefuses, IgnorePeerKey, RejectEnvelope, ReceiveChat, StageWithoutReply,
                RefuseHandshake, cryptoVars, clientVars
  <2> QED
    BY <1>d, <2>1, QuietKeepsSession, Zenon
<1>3. ASSUME NEW p \in Processes,
             ChatLine(p) \/ RekeyCommand(p) \/ ChatLineThenRekey(p) \/ RequestNotSent(p)
      PROVE  KeepsSession
  <2>1. UNCHANGED <<peer_public_key, epoch, master_secret>>
    BY <1>3, ZenonT(60) DEF ChatLine, RekeyCommand, ChatLineThenRekey, RequestNotSent,
                EncryptLineAndRequest, clientVars
  <2>2. \E k \in Nat : next_outbound_nonce' = [next_outbound_nonce EXCEPT ![p] = @ + k]
    BY <1>3, ZenonT(60) DEF ChatLine, RekeyCommand, ChatLineThenRekey, RequestNotSent,
                EncryptLineAndRequest, AdvanceNonce
  <2>3. \A q \in Processes : next_outbound_nonce'[q] >= next_outbound_nonce[q]
    BY <1>a, <1>b, <2>2, SMTT(60)
  <2> QED
    BY <2>1, <2>3, QuietKeepsSession, Zenon
<1>4. ASSUME NEW p \in Processes, NEW m \in net,
             ReceiveRekeyRequest(p, m) \/ ResponseNotSent(p, m)
      PROVE  KeepsSession
  <2> DEFINE shared == DiffieHellman(FreshSecret(p, 1),
                                     m.ciphertext.payload.ephemeral_public_key)
  <2>1. RotateAsResponder(p, m)
    BY <1>4, Zenon DEF ReceiveRekeyRequest, ResponseNotSent
  <2>2. shared \in SUBSET Secrets
    <3>1. OpensAs(p, m, "RekeyRequest")
      BY <2>1, Zenon DEF RotateAsResponder
    <3> QED
      BY <3>1, SharedType, Zenon
  <2>3. /\ ApplyNextMaster(p, ComputeNextMaster(p, shared), MarkSeen(p, m))
        /\ UNCHANGED peer_public_key
        /\ next_outbound_nonce' = [next_outbound_nonce EXCEPT ![p] = @ + 1]
    BY <2>1 DEF RotateAsResponder, AdvanceNonce
  <2>4. \A q \in Processes : next_outbound_nonce'[q] >= next_outbound_nonce[q]
    BY <1>a, <1>b, <2>3, SMTT(60)
  <2> QED
    BY <2>2, <2>3, <2>4, RotationKeepsSession
<1>5. ASSUME NEW p \in Processes, NEW m \in net, ReceiveRekeyResponse(p, m)
      PROVE  KeepsSession
  <2> DEFINE public == m.ciphertext.payload.ephemeral_public_key
  <2>1. PICK w \in pending_rekey[p] :
          ApplyNextMaster(p, ComputeNextMaster(p, DiffieHellman(w.ephemeral_secret, public)),
                          MarkSeen(p, m))
    BY <1>5, ZenonT(60) DEF ReceiveRekeyResponse
  <2>2. public \in Secrets
    BY <1>5, ReceivedType, ZenonT(60) DEF ReceiveRekeyResponse, OpensAs, Opens
  <2>3. w.ephemeral_secret \in Secrets
    BY DEF TypeOK
  <2>4. DiffieHellman(w.ephemeral_secret, public) \in SUBSET Secrets
    BY <2>2, <2>3, Zenon DEF DiffieHellman
  <2>5. UNCHANGED <<peer_public_key, next_outbound_nonce>>
    BY <1>5, ZenonT(60) DEF ReceiveRekeyResponse
  <2> QED
    BY <1>d, <2>1, <2>4, <2>5, RotationKeepsSession, ZenonT(60)
<1>6. ASSUME NEW p \in Processes, NEW m \in net, AcceptPeerKey(p, m)
      PROVE  KeepsSession
  <2>1. peer_public_key[p] = {}
    BY <1>6, ZenonT(60) DEF AcceptPeerKey, AcceptsKey
  <2>2. \A q \in Processes : q # p =>
          /\ peer_public_key'[q] = peer_public_key[q]
          /\ next_outbound_nonce'[q] = next_outbound_nonce[q]
          /\ epoch'[q] = epoch[q] /\ master_secret'[q] = master_secret[q]
    BY <1>6 DEF AcceptPeerKey, NewCryptoSession, TypeOK
  <2> QED
    <3>1. \A q \in Processes : next_outbound_nonce[q] >= next_outbound_nonce[q]
      BY <1>a
    <3> QED
      BY <2>1, <2>2, <3>1, Zenon DEF KeepsSession
<1> QED
  BY <1>1, <1>2, <1>3, <1>4, <1>5, <1>6 DEF Next, Receive, Handle, ReadLine

\* Nothing a client does or receives rebuilds an established session or takes its nonce
\* counter back (handle_event on repeated and changed keys, apply_next_master).
THEOREM SessionIntegrity == Spec => SessionNeverRebuilt
  BY TypeCorrect, SessionStep, PTL DEF Spec, SessionNeverRebuilt

-----------------------------------------------------------------------------
(* Message ids name envelopes.                                             *)

\* Envelopes in flight were sent by somebody.
NetWasSent == \A m \in net : m.type = "EncryptedMessage" => m \in sent

\* An author has drawn the ids of its envelopes, each one once.
IdsDrawn == \A m \in sent : m.message_id[2] <= drawn[Author(m)]
IdsDiffer == \A m1, m2 \in sent : m1.message_id = m2.message_id => m1 = m2

IdInv == NetWasSent /\ IdsDrawn /\ IdsDiffer

\* What a step adds: envelopes out of one process, under k ids it draws in that step.
Draws(p, k, out) ==
    /\ sent' = sent \cup out
    /\ drawn' = [drawn EXCEPT ![p] = @ + k]
    /\ \A m \in net' : m.type = "EncryptedMessage" => m \in net \cup out
    /\ \A m \in out : \E i \in 1..k : m.message_id = <<p, drawn[p] + i>>
    /\ \A m1, m2 \in out : m1.message_id = m2.message_id => m1 = m2

\* Such a step keeps ids unique.
LEMMA DrawingKeepsIds ==
  ASSUME TypeOK, IdInv, NEW p \in Processes, NEW k \in Nat, NEW out, Draws(p, k, out)
  PROVE  IdInv'
<1>1. /\ drawn \in [Processes -> Nat]
      /\ \A m \in sent : m.message_id \in Processes \X Nat
  BY ZenonT(60) DEF TypeOK, Envelopes, Ids
<1>2. NetWasSent'
  BY DEF IdInv, NetWasSent, Draws
<1>3. \A m \in out : \E i \in 1..k : m.message_id = <<p, drawn[p] + i>>
  BY DEF Draws
<1>4. \A m \in out : Author(m) = p /\ m.message_id[2] > drawn[p] /\ m.message_id[2] <= drawn[p] + k
  BY <1>1, <1>3 DEF Author
<1>5. /\ drawn'[p] = drawn[p] + k
      /\ \A q \in Processes : drawn'[q] \in Nat /\ drawn'[q] >= drawn[q]
  BY <1>1 DEF Draws
<1>6. IdsDrawn'
  <2> SUFFICES ASSUME NEW m \in sent' PROVE m.message_id[2] <= drawn'[Author(m)]
    BY DEF IdsDrawn, Author
  <2>1. CASE m \in sent
    <3>1. /\ m.message_id[2] \in Nat /\ Author(m) \in Processes
          /\ m.message_id[2] <= drawn[Author(m)]
      BY <1>1, <2>1 DEF IdInv, IdsDrawn, Author
    <3> QED
      BY <1>1, <1>5, <3>1
  <2>2. CASE m \in out
    BY <1>4, <1>5, <2>2
  <2> QED
    BY <2>1, <2>2 DEF Draws
<1>7. \A m1 \in sent, m2 \in out : m1.message_id # m2.message_id
  <2> SUFFICES ASSUME NEW m1 \in sent, NEW m2 \in out, m1.message_id = m2.message_id
               PROVE  FALSE
    OBVIOUS
  <2>1. m1.message_id[2] <= drawn[p]
    BY <1>4 DEF IdInv, IdsDrawn, Author
  <2>2. m2.message_id[2] > drawn[p] /\ m1.message_id[2] \in Nat /\ drawn[p] \in Nat
    BY <1>1, <1>4
  <2> QED
    BY <2>1, <2>2
<1>8. IdsDiffer'
  BY <1>7 DEF IdInv, IdsDiffer, Draws
<1> QED
  BY <1>2, <1>6, <1>8 DEF IdInv

\* The id of an envelope is drawn when it is encrypted.
LEMMA EncryptId ==
  ASSUME NEW p, NEW k, NEW payload
  PROVE  /\ Encrypt(p, k, payload).message_id = <<p, drawn[p] + k>>
         /\ Encrypt(p, k, payload).type = "EncryptedMessage"
  BY DEF Encrypt, FreshId

\* Steps that send nothing.
LEMMA SilentDraws ==
  ASSUME TypeOK, NEW p \in Processes, UNCHANGED <<sent, drawn>>,
         \A m \in net' : m \in net \/ m.type # "EncryptedMessage"
  PROVE  Draws(p, 0, {})
<1>1. drawn \in [Processes -> Nat]
  BY DEF TypeOK
<1>2. drawn' = [drawn EXCEPT ![p] = @ + 0]
  BY <1>1
<1> QED
  BY <1>2, ZenonT(60) DEF Draws

\* Every step draws fresh ids for what it sends.
LEMMA IdInvNext == TypeOK /\ IdInv /\ [Next]_vars => IdInv'
<1> SUFFICES ASSUME TypeOK, IdInv, [Next]_vars PROVE IdInv'
  OBVIOUS
<1>a. \A p : PeerKey(p).type # "EncryptedMessage"
  BY DEF PeerKey
<1>b. drawn \in [Processes -> Nat]
  BY DEF TypeOK
<1>1. CASE UNCHANGED vars
  BY <1>1 DEF vars, cryptoVars, IdInv, NetWasSent, IdsDrawn, IdsDiffer, Author
<1>2. ASSUME NEW p \in Processes,
             \/ Start(p) \/ RetryPeerKey(p) \/ Quit(p)
             \/ RekeyCommandFails(p) \/ LineFails(p)
      PROVE  IdInv'
  <2>1. UNCHANGED <<sent, drawn>> /\ net' \subseteq net \cup {PeerKey(p)}
    BY <1>2 DEF Start, RetryPeerKey, Quit, RekeyCommandFails, LineFails, cryptoVars
  <2>2. \A m \in net' : m \in net \/ m.type # "EncryptedMessage"
    BY <1>a, <2>1
  <2>3. Draws(p, 0, {})
    BY <2>1, <2>2, SilentDraws
  <2> QED
    BY <2>3, DrawingKeepsIds, Zenon
<1>3. ASSUME NEW p \in Processes, NEW m \in net,
             \/ IgnorePeerKey(p, m) \/ RejectEnvelope(p, m) \/ ReceiveChat(p, m)
             \/ AcceptPeerKey(p, m) \/ RefuseHandshake(p, m) \/ ReceiveRekeyResponse(p, m)
      PROVE  IdInv'
  <2>1. UNCHANGED <<sent, drawn>> /\ net' \subseteq net \cup {PeerKey(p)}
    BY <1>3, AfterDeliverySubset
    DEF IgnorePeerKey, RejectEnvelope, ReceiveChat, AcceptPeerKey, RefuseHandshake,
        ReceiveRekeyResponse, NewCryptoSession, PeerKeyReply, cryptoVars
  <2>2. \A x \in net' : x \in net \/ x.type # "EncryptedMessage"
    BY <1>a, <2>1
  <2>3. Draws(p, 0, {})
    BY <2>1, <2>2, SilentDraws
  <2> QED
    BY <2>3, DrawingKeepsIds, Zenon
<1>4. ASSUME NEW p \in Processes, NEW m \in net, StageWithoutReply(p, m) PROVE IdInv'
  <2>1. Draws(p, 1, {})
    BY <1>4, AfterDeliverySubset DEF StageWithoutReply, Draws
  <2> QED
    BY <2>1, DrawingKeepsIds, Zenon
<1>5. ASSUME NEW p \in Processes, NEW m \in net,
             ReceiveRekeyRequest(p, m) \/ ResponseNotSent(p, m)
      PROVE  IdInv'
  <2> DEFINE reply == Reply(p, m.ciphertext.payload)
  <2>1. drawn' = [drawn EXCEPT ![p] = @ + 1]
    BY <1>5 DEF ReceiveRekeyRequest, ResponseNotSent, RotateAsResponder, AdvanceNonce
  <2>2. PICK out \in SUBSET {reply} : sent' = sent \cup out /\ net' \subseteq net \cup out
    <3>1. CASE ReceiveRekeyRequest(p, m)
      BY <3>1, AfterDeliverySubset, ZenonT(60) DEF ReceiveRekeyRequest, Emit
    <3>2. CASE ResponseNotSent(p, m)
      <4>1. sent' = sent \cup {} /\ net' \subseteq net \cup {}
        BY <3>2, AfterDeliverySubset, Zenon DEF ResponseNotSent
      <4> QED
        BY <4>1, ZenonT(60)
    <3> QED
      BY <1>5, <3>1, <3>2
  <2>3. reply.message_id = <<p, drawn[p] + 1>>
    BY EncryptId DEF Reply
  <2> HIDE DEF reply
  <2>4. Draws(p, 1, out)
    BY <2>1, <2>2, <2>3 DEF Draws
  <2> QED
    BY <2>4, DrawingKeepsIds, Zenon
<1>6. ASSUME NEW p \in Processes, ChatLine(p) \/ RekeyCommand(p) PROVE IdInv'
  <2>1. PICK payload : /\ sent' = sent \cup {Encrypt(p, 1, payload)}
                       /\ net' = net \cup {Encrypt(p, 1, payload)}
    BY <1>6, Zenon DEF ChatLine, RekeyCommand, Emit
  <2>2. drawn' = [drawn EXCEPT ![p] = @ + 1]
    BY <1>6 DEF ChatLine, RekeyCommand, AdvanceNonce
  <2> DEFINE e == Encrypt(p, 1, payload)
  <2>3. e.message_id = <<p, drawn[p] + 1>>
    BY EncryptId
  <2> HIDE DEF e
  <2>4. sent' = sent \cup {e} /\ net' = net \cup {e}
    BY <2>1 DEF e
  <2>5. Draws(p, 1, {e})
    BY <2>2, <2>3, <2>4 DEF Draws
  <2> QED
    BY <2>5, DrawingKeepsIds, Zenon
<1>7. ASSUME NEW p \in Processes, ChatLineThenRekey(p) \/ RequestNotSent(p) PROVE IdInv'
  <2> DEFINE e == Encrypt(p, 1, Chat)
             f == Encrypt(p, 2, RekeyRequest(FreshId(p, 2), FreshSecret(p, 2)))
  <2>1. drawn' = [drawn EXCEPT ![p] = @ + 2]
    BY <1>7 DEF ChatLineThenRekey, RequestNotSent, EncryptLineAndRequest, AdvanceNonce
  <2>2. PICK out \in SUBSET {e, f} : sent' = sent \cup out /\ net' = net \cup out
    BY <1>7, ZenonT(60) DEF ChatLineThenRekey, RequestNotSent, Emit
  <2>3. e.message_id = <<p, drawn[p] + 1>> /\ f.message_id = <<p, drawn[p] + 2>>
    BY EncryptId
  <2> HIDE DEF e, f
  <2>4. \A x \in out : \E i \in 1..2 : x.message_id = <<p, drawn[p] + i>>
    BY <2>2, <2>3
  <2>5. \A x, y \in out : x.message_id = y.message_id => x = y
    BY <1>b, <2>2, <2>3
  <2>6. Draws(p, 2, out)
    BY <2>1, <2>2, <2>4, <2>5 DEF Draws
  <2> QED
    BY <2>6, DrawingKeepsIds, Zenon
<1>8. ASSUME NEW m \in net, RelayRefuses(m) PROVE IdInv'
  <2>1. UNCHANGED <<sent, drawn>> /\ net' \subseteq net
    BY <1>8, AfterDeliverySubset DEF RelayRefuses, cryptoVars
  <2> QED
    BY <2>1 DEF IdInv, NetWasSent, IdsDrawn, IdsDiffer, Author
<1> QED
  BY <1>1, <1>2, <1>3, <1>4, <1>5, <1>6, <1>7, <1>8, Zenon DEF Next, Receive, Handle, ReadLine

-----------------------------------------------------------------------------
(* What was printed is remembered, or too old to be accepted.              *)

\* The pair of an epoch and a nonce is one that p does not accept (again).
Spent(p, s) == s \in inbound_nonces[p] \/ s[1] + 1 < epoch[p]

\* m was sealed in the session of p and its nonce is spent.
ReadBy(p, m) ==
    /\ \E k \in peer_public_key[p] : m.ciphertext.key.master[1] = {StaticSecret(p), k}
    /\ m.recipient = LocalId[p]
    /\ Spent(p, <<m.epoch, m.nonce>>)

\* Every line that was printed came in an envelope that its reader has spent, and no
\* process printed a line twice.
ShownOnce ==
    \A p \in Processes :
        /\ \A i \in 1..Len(shown[p]) : \E m \in sent : m.message_id = shown[p][i] /\ ReadBy(p, m)
        /\ \A i, j \in 1..Len(shown[p]) : shown[p][i] = shown[p][j] => i = j

OnceInv == NonceInv /\ IdInv /\ ShownOnce

\* Two processes under one client id have different sessions: the first link of a master
\* names them both ends.
LEMMA OneReader ==
  ASSUME NonceInv, NEW p \in Processes, NEW q \in Processes, LocalId[p] = LocalId[q],
         NEW k \in peer_public_key[p], NEW l \in peer_public_key[q],
         {StaticSecret(p), k} = {StaticSecret(q), l}
  PROVE  p = q
<1>1. PICK r \in Processes : k = StaticSecret(r) /\ LocalId[r] = PeerId(p)
  BY DEF NonceInv, KeyOrigin
<1>2. r # q
  BY <1>1, PeerIdType
<1>3. StaticSecret(q) # k
  BY <1>1, <1>2, StaticSecretInjective
<1> QED
  BY <1>3, StaticSecretInjective

\* The invariant suffices.
LEMMA OnceInvImpliesAtMostOnce == OnceInv => AtMostOnce
<1> SUFFICES ASSUME OnceInv, NEW p \in Processes, NEW q \in Processes,
                    NEW i \in 1..Len(shown[p]), NEW j \in 1..Len(shown[q]),
                    shown[p][i] = shown[q][j]
             PROVE  p = q /\ i = j
  BY DEF AtMostOnce
<1>1. PICK m \in sent : m.message_id = shown[p][i] /\ ReadBy(p, m)
  BY DEF OnceInv, ShownOnce
<1>2. PICK n \in sent : n.message_id = shown[q][j] /\ ReadBy(q, n)
  BY DEF OnceInv, ShownOnce
<1>3. m = n
  BY <1>1, <1>2 DEF OnceInv, IdInv, IdsDiffer
<1>4. PICK k \in peer_public_key[p] : m.ciphertext.key.master[1] = {StaticSecret(p), k}
  BY <1>1 DEF ReadBy
<1>5. PICK l \in peer_public_key[q] : m.ciphertext.key.master[1] = {StaticSecret(q), l}
  BY <1>2, <1>3, Zenon DEF ReadBy
<1>6. LocalId[p] = LocalId[q]
  BY <1>1, <1>2, <1>3, Zenon DEF ReadBy
<1>7. p = q
  BY <1>4, <1>5, <1>6, OneReader, ZenonT(60) DEF OnceInv
<1> QED
  BY <1>7 DEF OnceInv, ShownOnce

\* A rotation prunes only pairs that are too old by then (apply_next_master).
LEMMA PruningKeepsSpent ==
  ASSUME TypeOK, NEW p \in Processes, NEW next, NEW m \in Envelopes,
         ApplyNextMaster(p, next, MarkSeen(p, m)),
         NEW q \in Processes, NEW s \in Nat \X Nonces, Spent(q, s)
  PROVE  Spent(q, s)'
<1>1. /\ epoch \in [Processes -> Nat]
      /\ inbound_nonces \in [Processes -> SUBSET (Nat \X Nonces)]
  BY ZenonT(60) DEF TypeOK
<1>2. CASE q # p
  BY <1>1, <1>2 DEF ApplyNextMaster, Spent
<1>3. CASE q = p
  <2>1. /\ epoch'[p] = epoch[p] + 1
        /\ inbound_nonces'[p] = {t \in MarkSeen(p, m) : t[1] + 1 >= epoch[p] + 1}
    BY <1>1 DEF ApplyNextMaster
  <2>2. s[1] \in Nat /\ epoch[p] \in Nat
    BY <1>1, Zenon
  <2>3. CASE s[1] + 1 < epoch[p]
    BY <1>3, <2>1, <2>2, <2>3, SMTT(60) DEF Spent
  <2>4. CASE s \in inbound_nonces[p] /\ s[1] + 1 >= epoch[p] + 1
    BY <1>3, <2>1, <2>4, Zenon DEF Spent, MarkSeen
  <2>5. CASE ~(s[1] + 1 >= epoch[p] + 1)
    BY <1>3, <2>1, <2>2, <2>5, SMTT(60) DEF Spent
  <2> QED
    BY <1>3, <2>3, <2>4, <2>5 DEF Spent
<1> QED
  BY <1>2, <1>3

\* Accepting an envelope adds its pair (mark_seen).
LEMMA AcceptingKeepsSpent ==
  ASSUME TypeOK, NEW p \in Processes, NEW m, Accepted(p, m), UNCHANGED epoch,
         NEW q \in Processes, NEW s, Spent(q, s)
  PROVE  Spent(q, s)'
  BY Zenon DEF TypeOK, Accepted, MarkSeen, Spent

\* In an established session what is spent stays spent.
LEMMA SpentStays ==
  ASSUME TypeOK, [Next]_vars, NEW q \in Processes, peer_public_key[q] # {},
         NEW s \in Nat \X Nonces, Spent(q, s)
  PROVE  Spent(q, s)'
<1>1. CASE UNCHANGED vars
  BY <1>1 DEF vars, cryptoVars, Spent
<1>2. ASSUME NEW p \in Processes,
             \/ Start(p) \/ RetryPeerKey(p) \/ Quit(p) \/ RekeyCommandFails(p) \/ LineFails(p)
             \/ ChatLine(p) \/ RekeyCommand(p) \/ ChatLineThenRekey(p) \/ RequestNotSent(p)
      PROVE  Spent(q, s)'
  <2>1. UNCHANGED <<epoch, inbound_nonces>>
    BY <1>2, ZenonT(60)
       DEF Start, RetryPeerKey, Quit, RekeyCommandFails, LineFails, ChatLine, RekeyCommand,
                ChatLineThenRekey, RequestNotSent, EncryptLineAndRequest, cryptoVars
  <2> QED
    BY <2>1, Zenon DEF Spent
<1>3. ASSUME NEW m \in net,
             \/ RelayRefuses(m)
             \/ \E p \in Processes : IgnorePeerKey(p, m) \/ RejectEnvelope(p, m)
      PROVE  Spent(q, s)'
  <2>1. UNCHANGED <<epoch, inbound_nonces>>
    BY <1>3, ZenonT(60) DEF RelayRefuses, IgnorePeerKey, RejectEnvelope, cryptoVars
  <2> QED
    BY <2>1, Zenon DEF Spent
<1>4. ASSUME NEW p \in Processes, NEW m \in net,
             ReceiveChat(p, m) \/ StageWithoutReply(p, m) \/ RefuseHandshake(p, m)
      PROVE  Spent(q, s)'
  <2>1. Accepted(p, m) /\ UNCHANGED epoch
    BY <1>4, Zenon DEF ReceiveChat, StageWithoutReply, RefuseHandshake
  <2> QED
    BY <2>1, AcceptingKeepsSpent, Zenon
<1>5. ASSUME NEW p \in Processes, NEW m \in net,
             \/ ReceiveRekeyRequest(p, m) \/ ResponseNotSent(p, m) \/ ReceiveRekeyResponse(p, m)
      PROVE  Spent(q, s)'
  <2>1. \E next : ApplyNextMaster(p, next, MarkSeen(p, m))
    BY <1>5, Zenon
       DEF ReceiveRekeyRequest, ResponseNotSent, RotateAsResponder, ReceiveRekeyResponse
  <2>2. m \in Envelopes
    BY <1>5, ReceivedType, ZenonT(60)
       DEF ReceiveRekeyRequest, ResponseNotSent, RotateAsResponder,
                              ReceiveRekeyResponse, OpensAs, Opens
  <2> QED
    BY <2>1, <2>2, PruningKeepsSpent, Zenon
<1>6. ASSUME NEW p \in Processes, NEW m \in net, AcceptPeerKey(p, m) PROVE Spent(q, s)'
  <2>1. q # p
    BY <1>6, Zenon DEF AcceptPeerKey, AcceptsKey
  <2>2. epoch'[q] = epoch[q] /\ inbound_nonces'[q] = inbound_nonces[q]
    BY <1>6, <2>1, Zenon DEF AcceptPeerKey, NewCryptoSession, TypeOK
  <2> QED
    BY <2>2, Zenon DEF Spent
<1> QED
  BY <1>1, <1>2, <1>3, <1>4, <1>5, <1>6, ZenonT(60) DEF Next, Receive, Handle, ReadLine

\* What p has read stays read.
LEMMA ReadStays ==
  ASSUME TypeOK, [Next]_vars, NEW p \in Processes, NEW m \in sent, ReadBy(p, m)
  PROVE  ReadBy(p, m)'
<1>1. peer_public_key[p] # {} /\ <<m.epoch, m.nonce>> \in Nat \X Nonces
  BY Zenon DEF ReadBy, TypeOK, Envelopes
<1>2. Spent(p, <<m.epoch, m.nonce>>)
  BY Zenon DEF ReadBy
<1>3. Spent(p, <<m.epoch, m.nonce>>)'
  BY <1>1, <1>2, SpentStays, Zenon
<1>4. peer_public_key'[p] = peer_public_key[p]
  BY <1>1, SessionStep DEF KeepsSession, vars, clientVars
<1> QED
  BY <1>3, <1>4, Zenon DEF ReadBy, StaticSecret

\* The record of what was sent only grows.
LEMMA SentGrows == [Next]_vars => sent \subseteq sent'
<1> SUFFICES ASSUME [Next]_vars PROVE sent \subseteq sent'
  OBVIOUS
<1>1. CASE UNCHANGED vars
  BY <1>1, Zenon DEF vars
<1>2. ASSUME NEW p \in Processes,
             \/ Start(p) \/ RetryPeerKey(p) \/ Quit(p) \/ RekeyCommandFails(p) \/ LineFails(p)
             \/ ChatLine(p) \/ RekeyCommand(p) \/ ChatLineThenRekey(p) \/ RequestNotSent(p)
      PROVE  sent \subseteq sent'
  <2>1. CASE Start(p) \/ RetryPeerKey(p) \/ Quit(p) \/ RekeyCommandFails(p) \/ LineFails(p)
    BY <2>1, ZenonT(60) DEF Start, RetryPeerKey, Quit, RekeyCommandFails, LineFails
  <2>2. CASE ChatLine(p) \/ RekeyCommand(p)
    BY <2>2, ZenonT(60) DEF ChatLine, RekeyCommand, Emit
  <2>3. CASE ChatLineThenRekey(p) \/ RequestNotSent(p)
    BY <2>3, ZenonT(60) DEF ChatLineThenRekey, RequestNotSent, Emit
  <2> QED
    BY <1>2, <2>1, <2>2, <2>3, ZenonT(60)
<1>3. ASSUME NEW m \in net, NEW p \in Processes, Handle(p, m)
      PROVE  sent \subseteq sent'
  BY <1>3, ZenonT(60) DEF Handle, IgnorePeerKey, RejectEnvelope, AcceptPeerKey, ReceiveChat,
              StageWithoutReply, RefuseHandshake, ReceiveRekeyRequest, ResponseNotSent,
              RotateAsResponder, ReceiveRekeyResponse, Emit
<1>4. ASSUME NEW m \in net, RelayRefuses(m) PROVE sent \subseteq sent'
  BY <1>4, Zenon DEF RelayRefuses
<1> QED
  BY <1>1, <1>2, <1>3, <1>4 DEF Next, Receive, ReadLine

\* The envelope of a line that is printed was not read before, and is read now.
LEMMA PrintedIsNew ==
  ASSUME OnceInv, NEW p \in Processes, NEW m \in net, ReceiveChat(p, m)
  PROVE  /\ m \in sent
         /\ ~ReadBy(p, m)
         /\ ReadBy(p, m)'
<1>0. TypeOK /\ KeyOrigin /\ NetWasSent
  BY Zenon DEF OnceInv, NonceInv, IdInv
<1>1. /\ m.type = "EncryptedMessage" /\ peer_public_key[p] # {}
      /\ Recipient(m) = LocalId[p] /\ KnownEpoch(p, m) /\ NotSeen(p, m)
      /\ m.ciphertext.key.master = master_secret[p]
  <2>1. /\ m.type = "EncryptedMessage" /\ peer_public_key[p] # {} /\ Recipient(m) = LocalId[p]
        /\ Decrypts(p, m)
    BY ZenonT(60) DEF ReceiveChat, OpensAs, Opens, Delivered
  <2>2. KnownEpoch(p, m) /\ NotSeen(p, m) /\ Authentic(p, m)
    BY <2>1, ZenonT(60) DEF Decrypts
  <2>3. m.ciphertext.key = CipherFor(p, m.epoch)
    BY <2>2, ZenonT(60) DEF Authentic, CanOpen
  <2>4. CipherFor(p, m.epoch).master = master_secret[p]
    BY Zenon DEF CipherFor
  <2>5. m.ciphertext.key.master = master_secret[p]
    BY <2>3, <2>4, ZenonT(60)
  <2> QED
    BY <2>1, <2>2, <2>5, ZenonT(60)
<1>2. m \in sent
  BY <1>0, <1>1, Zenon DEF NetWasSent
<1>3. m.epoch \in Nat /\ epoch[p] \in Nat
  BY <1>0, <1>2, Zenon DEF TypeOK, Envelopes
<1>4. ~Spent(p, <<m.epoch, m.nonce>>)
  BY <1>1, <1>3, SMTT(60) DEF Spent, NotSeen, KnownEpoch
<1>5. inbound_nonces'[p] = inbound_nonces[p] \cup {<<m.epoch, m.nonce>>}
  BY <1>0, Zenon DEF ReceiveChat, Accepted, MarkSeen, TypeOK
<1>6. Spent(p, <<m.epoch, m.nonce>>)'
  BY <1>5 DEF Spent
<1>7. m.recipient = LocalId[p]
  BY <1>1, Zenon DEF Recipient
<1>8. PICK k \in peer_public_key[p] : m.ciphertext.key.master[1] = {StaticSecret(p), k}
  BY <1>0, <1>1 DEF KeyOrigin
<1>9. peer_public_key' = peer_public_key
  BY DEF ReceiveChat
<1>10. ReadBy(p, m)'
  BY <1>6, <1>7, <1>8, <1>9, Zenon DEF ReadBy, StaticSecret
<1> QED
  BY <1>2, <1>4, <1>10 DEF ReadBy

\* Appending a value a sequence does not hold keeps its elements distinct.
LEMMA AppendDistinct ==
  ASSUME NEW S, NEW s \in Seq(S), NEW x \in S,
         \A i, j \in 1..Len(s) : s[i] = s[j] => i = j,
         \A i \in 1..Len(s) : s[i] # x
  PROVE  \A i, j \in 1..Len(Append(s, x)) : Append(s, x)[i] = Append(s, x)[j] => i = j
  OBVIOUS

\* No other step prints.
LEMMA OnlyChatPrints ==
  ASSUME [Next]_vars
  PROVE  \/ UNCHANGED shown
         \/ \E p \in Processes, m \in net : ReceiveChat(p, m)
<1>1. CASE UNCHANGED vars
  BY <1>1, Zenon DEF vars, clientVars
<1>2. ASSUME NEW p \in Processes,
             \/ Start(p) \/ RetryPeerKey(p) \/ Quit(p) \/ RekeyCommandFails(p) \/ LineFails(p)
             \/ ChatLine(p) \/ RekeyCommand(p) \/ ChatLineThenRekey(p) \/ RequestNotSent(p)
      PROVE  UNCHANGED shown
  BY <1>2, ZenonT(60)
     DEF Start, RetryPeerKey, Quit, RekeyCommandFails, LineFails, ChatLine, RekeyCommand,
              ChatLineThenRekey, RequestNotSent, EncryptLineAndRequest, cryptoVars, clientVars
<1>3. ASSUME NEW m \in net, NEW p \in Processes,
             \/ IgnorePeerKey(p, m) \/ RejectEnvelope(p, m)
             \/ AcceptPeerKey(p, m) \/ StageWithoutReply(p, m) \/ RefuseHandshake(p, m)
             \/ ReceiveRekeyRequest(p, m) \/ ResponseNotSent(p, m) \/ ReceiveRekeyResponse(p, m)
      PROVE  UNCHANGED shown
  BY <1>3, ZenonT(60) DEF IgnorePeerKey, RejectEnvelope, AcceptPeerKey, StageWithoutReply,
              RefuseHandshake, ReceiveRekeyRequest, ResponseNotSent, RotateAsResponder,
              ReceiveRekeyResponse, cryptoVars, clientVars
<1>4. ASSUME NEW m \in net, RelayRefuses(m) PROVE UNCHANGED shown
  BY <1>4 DEF RelayRefuses, clientVars
<1> QED
  BY <1>1, <1>2, <1>3, <1>4 DEF Next, Receive, Handle, ReadLine

\* Every step keeps what was printed distinct and read.
LEMMA ShownOnceNext == OnceInv /\ [Next]_vars => ShownOnce'
<1> SUFFICES ASSUME OnceInv, [Next]_vars PROVE ShownOnce'
  BY Zenon
<1>0. TypeOK /\ IdsDiffer /\ shown \in [Processes -> Seq(Ids)] /\ sent \subseteq sent'
  BY SentGrows, Zenon DEF OnceInv, NonceInv, IdInv, TypeOK
<1>1. \A p \in Processes : \A i \in 1..Len(shown[p]) :
        \E m \in sent : m.message_id = shown[p][i] /\ ReadBy(p, m) /\ ReadBy(p, m)'
  BY <1>0, ReadStays, Zenon DEF OnceInv, ShownOnce
<1>2. CASE UNCHANGED shown
  <2> SUFFICES ASSUME NEW p \in Processes
               PROVE  /\ \A i \in 1..Len(shown[p]) :
                            \E m \in sent' : m.message_id = shown[p][i] /\ ReadBy(p, m)'
                      /\ \A i, j \in 1..Len(shown[p]) : shown[p][i] = shown[p][j] => i = j
    BY <1>2, ZenonT(60) DEF ShownOnce, ReadBy, Spent, StaticSecret
  <2> QED
    BY <1>0, <1>1, Zenon DEF OnceInv, ShownOnce
<1>3. ASSUME NEW q \in Processes, NEW m \in net, ReceiveChat(q, m) PROVE ShownOnce'
  <2>1. m \in sent /\ ~ReadBy(q, m) /\ ReadBy(q, m)'
    BY <1>3, PrintedIsNew
  <2>2. shown' = [shown EXCEPT ![q] = Append(shown[q], m.message_id)] /\ m.message_id \in Ids
    BY <1>0, <1>3, <2>1 DEF ReceiveChat, TypeOK, Envelopes
  <2>3. \A i \in 1..Len(shown[q]) : shown[q][i] # m.message_id
    <3> SUFFICES ASSUME NEW i \in 1..Len(shown[q]), shown[q][i] = m.message_id PROVE FALSE
      BY Zenon
    <3>1. PICK n \in sent : n.message_id = shown[q][i] /\ ReadBy(q, n)
      BY <1>1, Zenon
    <3>2. n = m
      BY <1>0, <2>1, <3>1, Zenon DEF IdsDiffer
    <3> QED
      BY <2>1, <3>1, <3>2, Zenon
  <2> SUFFICES ASSUME NEW p \in Processes
               PROVE  /\ \A i \in 1..Len(shown'[p]) :
                            \E n \in sent' : n.message_id = shown'[p][i] /\ ReadBy(p, n)'
                      /\ \A i, j \in 1..Len(shown'[p]) : shown'[p][i] = shown'[p][j] => i = j
    BY ZenonT(60) DEF ShownOnce, ReadBy, Spent, StaticSecret
  <2>4. CASE p # q
    <3>1. shown'[p] = shown[p]
      BY <1>0, <2>2, <2>4, Zenon
    <3> QED
      <4>1. \A i, j \in 1..Len(shown[p]) : shown[p][i] = shown[p][j] => i = j
        BY Zenon DEF OnceInv, ShownOnce
      <4>2. \A i \in 1..Len(shown[p]) : \E n \in sent' : n.message_id = shown[p][i] /\ ReadBy(p, n)'
        BY <1>0, <1>1, Zenon
      <4> QED
        BY <3>1, <4>1, <4>2, Zenon
  <2>5. CASE p = q
    <3>1. shown'[q] = Append(shown[q], m.message_id) /\ shown[q] \in Seq(Ids)
      BY <1>0, <2>2, Zenon
    <3>2. \A i, j \in 1..Len(shown[q]) : shown[q][i] = shown[q][j] => i = j
      BY Zenon DEF OnceInv, ShownOnce
    <3>3. \A i, j \in 1..Len(shown'[q]) : shown'[q][i] = shown'[q][j] => i = j
      <4>1. \A i \in 1..Len(shown[q]) : shown[q][i] # m.message_id
        BY <2>3, Zenon
      <4>2. \A i, j \in 1..Len(Append(shown[q], m.message_id)) :
              Append(shown[q], m.message_id)[i] = Append(shown[q], m.message_id)[j] => i = j
        BY <2>2, <3>1, <3>2, <4>1, AppendDistinct, Zenon
      <4> QED
        BY <3>1, <4>2, Zenon
    <3>4. \A i \in 1..Len(shown'[q]) :
            \/ shown'[q][i] = m.message_id
            \/ i \in 1..Len(shown[q]) /\ shown'[q][i] = shown[q][i]
      BY <2>2, <3>1, SMTT(60)
    <3>5. \A i \in 1..Len(shown'[q]) : \E n \in sent' : n.message_id = shown'[q][i] /\ ReadBy(q, n)'
      BY <1>0, <1>1, <2>1, <3>4, ZenonT(60)
    <3> QED
      BY <2>5, <3>3, <3>5
  <2> QED
    BY <2>4, <2>5
<1> QED
  BY <1>2, <1>3, OnlyChatPrints, Zenon

\* No line is printed twice, whatever the network repeats and whoever restarts or rotates
\* (decrypt refuses a marked nonce; apply_next_master drops the marks of epochs it no
\* longer opens). Inductive invariant: OnceInv.
THEOREM PrintedOnce == Spec => []AtMostOnce
<1>1. Init => OnceInv
  <2>1. Init => IdInv
    BY Zenon DEF IdInv, NetWasSent, IdsDrawn, IdsDiffer, Init
  <2>2. Init => ShownOnce
    BY DEF ShownOnce, Init
  <2> QED
    BY <2>1, <2>2, NonceInvInit, Zenon DEF OnceInv
<1>2. OnceInv /\ [Next]_vars => OnceInv'
  BY NonceInvNext, IdInvNext, ShownOnceNext DEF OnceInv, NonceInv
<1> QED
  BY <1>1, <1>2, OnceInvImpliesAtMostOnce, PTL DEF Spec

-----------------------------------------------------------------------------
(* What a step sends and what it marks as seen.                            *)

\* The envelopes of one step: none, one, or a chat line and a request.
Encrypts(p, out) ==
    \/ out = {}
    \/ \E a : out = {Encrypt(p, 1, a)}
    \/ \E a, b : out = {Encrypt(p, 1, a), Encrypt(p, 2, b)}

\* What p encrypts it hands over in the same step, if at all.
LEMMA EnvelopesSent ==
  ASSUME NEW p \in Processes, ReadLine(p) \/ \E m : Handle(p, m)
  PROVE  \E out : Encrypts(p, out) /\ out \subseteq net' /\ sent' = sent \cup out
<1>1. CASE UNCHANGED sent
  <2>1. Encrypts(p, {}) /\ {} \subseteq net' /\ sent' = sent \cup {}
    BY <1>1, Zenon DEF Encrypts
  <2> QED
    BY <2>1, Zenon
<1>2. ASSUME NEW base, NEW out, Emit(base, out), Encrypts(p, out)
      PROVE  \E o : Encrypts(p, o) /\ o \subseteq net' /\ sent' = sent \cup o
  <2>1. out \subseteq net' /\ sent' = sent \cup out
    BY <1>2, Zenon DEF Emit
  <2> QED
    BY <1>2, <2>1, Zenon
<1>3. \/ UNCHANGED sent
      \/ \E base, a : Emit(base, {Encrypt(p, 1, a)})
      \/ \E base, a, b : Emit(base, {Encrypt(p, 1, a), Encrypt(p, 2, b)})
  <2>1. CASE ReadLine(p)
    BY <2>1, Zenon DEF ReadLine, ChatLine, ChatLineThenRekey, RequestNotSent, RekeyCommand,
       RekeyCommandFails, LineFails
  <2>2. ASSUME NEW m, Handle(p, m)
        PROVE  UNCHANGED sent \/ \E base, a : Emit(base, {Encrypt(p, 1, a)})
    BY <2>2, Zenon DEF Handle, AcceptPeerKey, IgnorePeerKey, RejectEnvelope, ReceiveChat,
       ReceiveRekeyRequest, ResponseNotSent, StageWithoutReply, ReceiveRekeyResponse,
       RefuseHandshake, Reply
  <2> QED
    BY <2>1, <2>2, Zenon
<1>4. /\ \A a : Encrypts(p, {Encrypt(p, 1, a)})
      /\ \A a, b : Encrypts(p, {Encrypt(p, 1, a), Encrypt(p, 2, b)})
  BY Zenon DEF Encrypts
<1>5. ASSUME NEW base, NEW a, Emit(base, {Encrypt(p, 1, a)})
      PROVE  \E o : Encrypts(p, o) /\ o \subseteq net' /\ sent' = sent \cup o
  BY <1>2, <1>4, <1>5, Zenon
<1>6. ASSUME NEW base, NEW a, NEW b, Emit(base, {Encrypt(p, 1, a), Encrypt(p, 2, b)})
      PROVE  \E o : Encrypts(p, o) /\ o \subseteq net' /\ sent' = sent \cup o
  BY <1>2, <1>4, <1>6, Zenon
<1> QED
  BY <1>1, <1>3, <1>5, <1>6, Zenon

\* Only an envelope that opens marks a nonce as seen (mark_seen).
LEMMA OpeningMarks ==
  ASSUME TypeOK, NEW p \in Processes, NEW m, Handle(p, m), NEW q \in Processes,
         NEW s \in inbound_nonces'[q]
  PROVE  \/ s \in inbound_nonces[q]
         \/ q = p /\ Opens(p, m) /\ s = <<m.epoch, m.nonce>>
<1>0. inbound_nonces \in [Processes -> SUBSET (Nat \X Nonces)]
  BY Zenon DEF TypeOK
<1>1. CASE UNCHANGED inbound_nonces
  BY <1>1, Zenon
<1>2. CASE inbound_nonces' = [inbound_nonces EXCEPT ![p] = {}]
  BY <1>0, <1>2, Zenon
<1>3. CASE Opens(p, m) /\ Accepted(p, m)
  BY <1>0, <1>3, Zenon DEF Accepted, MarkSeen
<1>4. ASSUME NEW next, Opens(p, m), ApplyNextMaster(p, next, MarkSeen(p, m))
      PROVE  \/ s \in inbound_nonces[q]
             \/ q = p /\ Opens(p, m) /\ s = <<m.epoch, m.nonce>>
  BY <1>0, <1>4, Zenon DEF ApplyNextMaster, MarkSeen
<1>5. CASE AcceptPeerKey(p, m)
  BY <1>2, <1>5, Zenon DEF AcceptPeerKey, NewCryptoSession
<1>6. CASE IgnorePeerKey(p, m) \/ RejectEnvelope(p, m)
  BY <1>1, <1>6, Zenon DEF IgnorePeerKey, RejectEnvelope, cryptoVars
<1>7. CASE ReceiveChat(p, m) \/ StageWithoutReply(p, m) \/ RefuseHandshake(p, m)
  BY <1>3, <1>7, Zenon DEF ReceiveChat, StageWithoutReply, RefuseHandshake, OpensAs
<1>8. CASE ReceiveRekeyRequest(p, m) \/ ResponseNotSent(p, m)
  BY <1>4, <1>8, Zenon DEF ReceiveRekeyRequest, ResponseNotSent, RotateAsResponder, OpensAs
<1>9. CASE ReceiveRekeyResponse(p, m)
  BY <1>4, <1>9, Zenon DEF ReceiveRekeyResponse, OpensAs
<1> QED
  BY <1>5, <1>6, <1>7, <1>8, <1>9, Zenon DEF Handle

\* The other steps of a client mark none.
LEMMA OthersMarkNone ==
  ASSUME NEW p \in Processes, Start(p) \/ RetryPeerKey(p) \/ ReadLine(p) \/ Quit(p)
  PROVE  UNCHANGED inbound_nonces
  BY Zenon DEF Start, RetryPeerKey, ReadLine, Quit, ChatLine, ChatLineThenRekey,
     RequestNotSent, EncryptLineAndRequest, RekeyCommand, RekeyCommandFails, LineFails, cryptoVars

\* Two ends that are paired stay paired (SessionNeverRebuilt).
LEMMA PairedStays ==
  ASSUME TypeOK, [Next]_vars, NEW p \in Processes, NEW q \in Processes, Paired(p, q)
  PROVE  Paired(p, q)'
<1>1. CASE UNCHANGED vars
  BY <1>1, Zenon DEF vars, clientVars, Paired
<1>2. CASE KeepsSession
  BY <1>2, Zenon DEF KeepsSession, Paired
<1> QED
  BY <1>1, <1>2, SessionStep, Zenon
=============================================================================
