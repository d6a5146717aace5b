--------------------------- MODULE LockstepProofs ---------------------------
(***************************************************************************)
(* Two paired ends never diverge and always read their own epoch, and the  *)
(* masters of the processes are chains of the abstract Ratchet, for any    *)
(* set of processes and any number of messages, repeated deliveries,       *)
(* restarts and rotations.                                                 *)
(***************************************************************************)
EXTENDS ClientSessionProofs

-----------------------------------------------------------------------------
(* The inductive invariant.                                                *)

PrefixOf(s, t) == Len(s) <= Len(t) /\ \A i \in 1..Len(s) : s[i] = t[i]

\* The ephemeral secret that was drawn together with a rekey id (start_rekey).
EphemeralOf(id) == EphemeralSecret(id[1], id[2])

\* A master has one link per epoch, and none before the peer's key is accepted.
Chained ==
    \A p \in Processes :
        IF peer_public_key[p] = {} THEN master_secret[p] = <<>>
                                   ELSE Len(master_secret[p]) = epoch[p] + 1

\* An end whose peer has not (or not yet) accepted its key has never rotated.
Unmet ==
    \A p, q \in Processes :
        (StaticSecret(q) \in peer_public_key[p] /\ StaticSecret(p) \notin peer_public_key[q])
            => epoch[p] = 0

\* An envelope was sealed by its author, for its peer, with the master the author held in
\* that epoch.
SealedBy(m) ==
    /\ m.sender = LocalId[Author(m)] /\ m.recipient = PeerId(Author(m))
    /\ m.epoch <= epoch[Author(m)]
    /\ Len(m.ciphertext.key.master) = m.epoch + 1
    /\ PrefixOf(m.ciphertext.key.master, master_secret[Author(m)])

\* A request offers the secret drawn with its id, and an author that has not rotated since
\* still waits for the response.
RequestOf(m) ==
    m.ciphertext.payload.type = "RekeyRequest" =>
        /\ m.ciphertext.payload.ephemeral_public_key = EphemeralOf(m.ciphertext.payload.rekey_id)
        /\ m.epoch = epoch[Author(m)] => pending_rekey[Author(m)] # {}

\* The author of a response has rotated since, by the secret that the response completes.
ResponseOf(m) ==
    m.ciphertext.payload.type = "RekeyResponse" =>
        /\ m.epoch < epoch[Author(m)]
        /\ master_secret[Author(m)][m.epoch + 2] =
             {m.ciphertext.payload.ephemeral_public_key,
              EphemeralOf(m.ciphertext.payload.rekey_id)}

Handshakes == \A m \in sent : SealedBy(m) /\ RequestOf(m) /\ ResponseOf(m)

\* A pending handshake keeps the secret drawn with its id.
Pending ==
    \A p \in Processes : \A w \in pending_rekey[p] : w.ephemeral_secret = EphemeralOf(w.rekey_id)

\* p waits for the response to the handshake by which q has rotated.
Trails(p, q) ==
    /\ epoch[q] = epoch[p] + 1
    /\ pending_rekey[p] # {}
    /\ PrefixOf(master_secret[p], master_secret[q])

Aligned(p, q) ==
    \/ epoch[p] = epoch[q] /\ master_secret[p] = master_secret[q]
    \/ Trails(p, q)
    \/ Trails(q, p)

Lockstep == \A p, q \in Processes : Paired(p, q) => Aligned(p, q)

StepInv ==
    /\ NonceInv /\ IdInv
    /\ Chained /\ Unmet /\ Handshakes /\ Pending /\ Lockstep

-----------------------------------------------------------------------------
(* Pairs.                                                                  *)

\* An accepted key belongs to another process, under the peer's id.
LEMMA KeyOfPeer ==
  ASSUME NonceInv, NEW p \in Processes, NEW k \in peer_public_key[p]
  PROVE  \E r \in Processes : k = StaticSecret(r) /\ LocalId[r] = PeerId(p) /\ r # p
<1>1. PICK r \in Processes : k = StaticSecret(r) /\ LocalId[r] = PeerId(p)
  BY Zenon DEF NonceInv, KeyOrigin
<1> QED
  BY <1>1, PeerIdType, Zenon

\* A process accepts one key.
LEMMA OneKey ==
  ASSUME NonceInv, NEW p \in Processes, NEW k \in peer_public_key[p]
  PROVE  peer_public_key[p] = {k}
<1> SUFFICES ASSUME NEW l \in peer_public_key[p] PROVE l = k
  BY Zenon
<1>1. {StaticSecret(p), k} = {StaticSecret(p), l}
  <2>1. master_secret[p][1] = {StaticSecret(p), k}
    BY Zenon DEF NonceInv, KeyOrigin
  <2>2. master_secret[p][1] = {StaticSecret(p), l}
    BY Zenon DEF NonceInv, KeyOrigin
  <2> QED
    BY <2>1, <2>2, Zenon
<1>2. ASSUME NEW x \in peer_public_key[p] PROVE x # StaticSecret(p)
  <2>1. PICK r \in Processes : x = StaticSecret(r) /\ r # p
    BY KeyOfPeer, Zenon
  <2> QED
    BY <2>1, StaticSecretInjective, Zenon
<1> QED
  BY <1>1, <1>2, Zenon

\* A process is paired with one other process.
LEMMA PairedOnce ==
  ASSUME NonceInv, NEW p \in Processes, NEW q \in Processes, Paired(p, q)
  PROVE  /\ p # q /\ Paired(q, p)
         /\ peer_public_key[p] # {} /\ peer_public_key[q] # {}
         /\ \A r \in Processes : Paired(p, r) => r = q
<1>1. StaticSecret(q) \in peer_public_key[p] /\ StaticSecret(p) \in peer_public_key[q]
  BY Zenon DEF Paired
<1>2. p # q
  <2>1. PICK r \in Processes : StaticSecret(q) = StaticSecret(r) /\ r # p
    BY <1>1, KeyOfPeer, Zenon
  <2> QED
    BY <2>1, StaticSecretInjective, Zenon
<1>3. \A r \in Processes : Paired(p, r) => r = q
  <2> SUFFICES ASSUME NEW r \in Processes, Paired(p, r) PROVE r = q
    BY Zenon
  <2>1. StaticSecret(r) = StaticSecret(q)
    BY Zenon DEF Paired
  <2> QED
    BY <2>1, StaticSecretInjective, Zenon
<1> QED
  BY <1>1, <1>2, <1>3, Zenon DEF Paired

\* An envelope that opens was sealed in the current epoch of its reader, by the process
\* that its reader is paired with.
LEMMA OpenedByPeer ==
  ASSUME StepInv, NEW p \in Processes, NEW m \in net, Opens(p, m)
  PROVE  /\ m \in sent /\ Author(m) \in Processes /\ Paired(p, Author(m))
         /\ m.ciphertext.key.master = master_secret[p] /\ m.epoch = epoch[p]
<1> DEFINE r == Author(m)
<1>0. TypeOK /\ NonceInv /\ KeyOrigin /\ SentInSession /\ NetWasSent /\ Chained /\ Handshakes
  BY Zenon DEF StepInv, NonceInv, IdInv
<1>1. m.type = "EncryptedMessage" /\ peer_public_key[p] # {} /\ FromPeer(p, m) /\ Authentic(p, m)
  BY Zenon DEF Opens, Decrypts
<1>2. m \in sent
  BY <1>0, <1>1, Zenon DEF NetWasSent
<1>3. r \in Processes /\ m.epoch \in Nat /\ epoch[p] \in Nat
  <2>1. m \in Envelopes /\ epoch \in [Processes -> Nat]
    BY <1>0, <1>2, Zenon DEF TypeOK
  <2>2. m.epoch \in Nat
    BY <2>1, Zenon DEF Envelopes
  <2> QED
    BY <1>0, <1>2, <2>1, <2>2, SentTypes, Zenon
<1>4. m.ciphertext.key.master = master_secret[p]
  <2>1. m.ciphertext.key = CipherFor(p, m.epoch)
    BY <1>1, Zenon DEF Authentic, CanOpen
  <2>2. CipherFor(p, m.epoch).master = master_secret[p]
    BY DEF CipherFor
  <2> QED
    BY <2>1, <2>2, Zenon
<1>5. m.epoch = epoch[p]
  <2>1. Len(master_secret[p]) = m.epoch + 1
    BY <1>0, <1>2, <1>4, Zenon DEF Handshakes, SealedBy
  <2>2. Len(master_secret[p]) = epoch[p] + 1
    BY <1>0, <1>1, Zenon DEF Chained
  <2> QED
    BY <1>3, <2>1, <2>2
<1>6. peer_public_key[r] # {} /\ master_secret[r][1] = master_secret[p][1]
  BY <1>0, <1>2, <1>4, Zenon DEF SentInSession
<1>7. r # p
  <2>1. m.sender = LocalId[r] /\ m.sender = PeerId(p)
    BY <1>0, <1>1, <1>2, Zenon DEF Handshakes, SealedBy, FromPeer
  <2> QED
    BY <2>1, PeerIdType, Zenon
<1> HIDE DEF r
<1>8. PICK k \in peer_public_key[p] : TRUE
  BY <1>1, Zenon
<1>9. PICK l \in peer_public_key[r] : TRUE
  BY <1>6, Zenon
<1>10. {StaticSecret(p), k} = {StaticSecret(r), l}
  <2>1. master_secret[p][1] = {StaticSecret(p), k}
    BY <1>0, <1>8, Zenon DEF KeyOrigin
  <2>2. master_secret[r][1] = {StaticSecret(r), l}
    BY <1>0, <1>3, <1>9, Zenon DEF KeyOrigin
  <2> QED
    BY <1>6, <2>1, <2>2, Zenon
<1>11. StaticSecret(p) # StaticSecret(r)
  BY <1>7, StaticSecretInjective, Zenon
<1>12. k = StaticSecret(r) /\ l = StaticSecret(p)
  BY <1>10, <1>11, Zenon
<1>13. Paired(p, r)
  BY <1>0, <1>3, <1>8, <1>9, <1>12, OneKey, Zenon DEF Paired
<1> QED
  BY <1>2, <1>3, <1>4, <1>5, <1>13, Zenon DEF r

-----------------------------------------------------------------------------
(* What a step does to masters, handshakes and the record of what was sent. *)

\* apply_next_master: the master of p gets one more link.
Rotated(p, link) ==
    /\ master_secret' = [master_secret EXCEPT ![p] = Append(master_secret[p], link)]
    /\ epoch' = [epoch EXCEPT ![p] = epoch[p] + 1]

Quiet == UNCHANGED <<peer_public_key, master_secret, epoch, pending_rekey, sent>>

\* p sends chat lines, requests or both; a request makes it wait for the response.
Speaks(p, out) ==
    /\ peer_public_key[p] # {}
    /\ UNCHANGED <<peer_public_key, master_secret, epoch>>
    /\ sent' = sent \cup out
    /\ \A m \in out : \E k, payload :
         /\ m = Encrypt(p, k, payload)
         /\ \/ payload = Chat
            \/ /\ payload = RekeyRequest(FreshId(p, k), FreshSecret(p, k))
               /\ pending_rekey'[p] # {} /\ drawn'[p] = drawn[p] + k
    /\ \/ UNCHANGED pending_rekey
       \/ \E k : StartRekey(p, k) /\ drawn'[p] = drawn[p] + k

\* p rotates for the request m and answers it, or ends before it answers.
Responds(p, m, out) ==
    /\ OpensAs(p, m, "RekeyRequest") /\ pending_rekey[p] = {}
    /\ Rotated(p, {FreshSecret(p, 1), m.ciphertext.payload.ephemeral_public_key})
    /\ UNCHANGED <<peer_public_key, pending_rekey>>
    /\ out \subseteq {Reply(p, m.ciphertext.payload)} /\ sent' = sent \cup out
    /\ drawn'[p] = drawn[p] + 1

\* p rotates for the response m to the handshake w it waits for.
Completes(p, m, w) ==
    /\ OpensAs(p, m, "RekeyResponse") /\ w \in pending_rekey[p]
    /\ w.rekey_id = m.ciphertext.payload.rekey_id
    /\ Rotated(p, {w.ephemeral_secret, m.ciphertext.payload.ephemeral_public_key})
    /\ pending_rekey' = [pending_rekey EXCEPT ![p] = {}]
    /\ UNCHANGED <<peer_public_key, sent>>

\* p builds its session from the key of q.
Accepts(p, q) ==
    /\ peer_public_key[p] = {}
    /\ LocalId[q] = PeerId(p)
    /\ peer_public_key' = [peer_public_key EXCEPT ![p] = {StaticSecret(q)}]
    /\ master_secret' = [master_secret EXCEPT ![p] = <<{StaticSecret(p), StaticSecret(q)}>>]
    /\ epoch' = [epoch EXCEPT ![p] = 0]
    /\ pending_rekey' = [pending_rekey EXCEPT ![p] = {}]
    /\ UNCHANGED sent

\* Every step is one of these.
LEMMA StepKinds ==
  ASSUME TypeOK, KeyOrigin, [Next]_vars
  PROVE  \/ Quiet
         \/ \E p \in Processes : \E out : Speaks(p, out)
         \/ \E p \in Processes, m \in net : \E out : Responds(p, m, out)
         \/ \E p \in Processes, m \in net : \E w : Completes(p, m, w)
         \/ \E p, q \in Processes : Accepts(p, q)
<1>1. CASE UNCHANGED vars
  BY <1>1, Zenon DEF vars, cryptoVars, clientVars, Quiet
<1>2. ASSUME NEW p \in Processes,
             \/ Start(p) \/ RetryPeerKey(p) \/ Quit(p) \/ RekeyCommandFails(p) \/ LineFails(p)
      PROVE  Quiet
  BY <1>2, Zenon
     DEF Start, RetryPeerKey, Quit, RekeyCommandFails, LineFails, cryptoVars, clientVars, Quiet
<1>3. ASSUME NEW m \in net,
             \/ RelayRefuses(m)
             \/ \E p \in Processes : \/ IgnorePeerKey(p, m) \/ RejectEnvelope(p, m)
                                     \/ ReceiveChat(p, m) \/ StageWithoutReply(p, m)
                                     \/ RefuseHandshake(p, m)
      PROVE  Quiet
  BY <1>3, Zenon
     DEF RelayRefuses, IgnorePeerKey, RejectEnvelope, ReceiveChat, StageWithoutReply,
         RefuseHandshake, cryptoVars, clientVars, Quiet
<1>4. ASSUME NEW p \in Processes, ChatLine(p)
      PROVE  \E out : Speaks(p, out)
  <2>1. Speaks(p, {Encrypt(p, 1, Chat)})
    <3>1. /\ peer_public_key[p] # {} /\ sent' = sent \cup {Encrypt(p, 1, Chat)}
          /\ UNCHANGED <<peer_public_key, master_secret, epoch, pending_rekey>>
      BY <1>4, Zenon DEF ChatLine, IsReady, Emit
    <3> QED
      BY <3>1, Zenon DEF Speaks
  <2> QED
    BY <2>1, Zenon
<1>5. ASSUME NEW p \in Processes, RekeyCommand(p)
      PROVE  \E out : Speaks(p, out)
  <2> DEFINE payload == RekeyRequest(FreshId(p, 1), FreshSecret(p, 1))
  <2>1. /\ peer_public_key[p] # {} /\ StartRekey(p, 1) /\ sent' = sent \cup {Encrypt(p, 1, payload)}
        /\ UNCHANGED <<peer_public_key, master_secret, epoch>> /\ AdvanceNonce(p, 1)
    BY <1>5, Zenon DEF RekeyCommand, IsReady, Emit, clientVars
  <2>2. pending_rekey'[p] # {} /\ drawn'[p] = drawn[p] + 1
    BY <2>1, Zenon DEF StartRekey, AdvanceNonce, TypeOK
  <2>3. Speaks(p, {Encrypt(p, 1, payload)})
    BY <2>1, <2>2, Zenon DEF Speaks
  <2> QED
    BY <2>3, Zenon
<1>6. ASSUME NEW p \in Processes, ChatLineThenRekey(p) \/ RequestNotSent(p)
      PROVE  \E out : Speaks(p, out)
  <2> DEFINE e == Encrypt(p, 1, Chat)
             request == RekeyRequest(FreshId(p, 2), FreshSecret(p, 2))
             f == Encrypt(p, 2, request)
  <2>1. EncryptLineAndRequest(p) /\ (sent' = sent \cup {e, f} \/ sent' = sent \cup {e})
    BY <1>6, Zenon DEF ChatLineThenRekey, RequestNotSent, Emit
  <2>2. /\ peer_public_key[p] # {} /\ StartRekey(p, 2) /\ AdvanceNonce(p, 2)
        /\ UNCHANGED <<peer_public_key, master_secret, epoch>>
    BY <2>1, Zenon DEF EncryptLineAndRequest, IsReady
  <2>3. pending_rekey'[p] # {} /\ drawn'[p] = drawn[p] + 2
    BY <2>2, Zenon DEF StartRekey, AdvanceNonce, TypeOK
  <2>4. ASSUME NEW out \in SUBSET {e, f}, sent' = sent \cup out PROVE Speaks(p, out)
    <3>1. ASSUME NEW m \in out
          PROVE  \E k, payload :
                   /\ m = Encrypt(p, k, payload)
                   /\ \/ payload = Chat
                      \/ /\ payload = RekeyRequest(FreshId(p, k), FreshSecret(p, k))
                         /\ pending_rekey'[p] # {} /\ drawn'[p] = drawn[p] + k
      BY <2>3, Zenon
    <3> QED
      BY <2>2, <2>3, <2>4, <3>1, Zenon DEF Speaks
  <2>5. {e} \in SUBSET {e, f} /\ {e, f} \in SUBSET {e, f}
    BY Zenon
  <2> HIDE DEF e, f
  <2> QED
    BY <2>1, <2>4, <2>5, Zenon
<1>7. ASSUME NEW p \in Processes, NEW m \in net, ReceiveRekeyRequest(p, m) \/ ResponseNotSent(p, m)
      PROVE  \E out : Responds(p, m, out)
  <2>1. /\ RotateAsResponder(p, m)
        /\ \/ sent' = sent \cup {Reply(p, m.ciphertext.payload)}
           \/ sent' = sent \cup {}
    BY <1>7, Zenon DEF ReceiveRekeyRequest, ResponseNotSent, Emit
  <2>2. /\ OpensAs(p, m, "RekeyRequest") /\ pending_rekey[p] = {}
        /\ UNCHANGED <<peer_public_key, pending_rekey>> /\ drawn'[p] = drawn[p] + 1
    BY <2>1, Zenon
       DEF RotateAsResponder, AnswersRequest, IsRekeyInProgress, AdvanceNonce, TypeOK
  <2>3. Rotated(p, {FreshSecret(p, 1), m.ciphertext.payload.ephemeral_public_key})
    BY <2>1, Zenon
       DEF RotateAsResponder, ApplyNextMaster, ComputeNextMaster, DiffieHellman, Rotated
  <2>4. {Reply(p, m.ciphertext.payload)} \subseteq {Reply(p, m.ciphertext.payload)}
          /\ {} \subseteq {Reply(p, m.ciphertext.payload)}
    BY Zenon
  <2> QED
    BY <2>1, <2>2, <2>3, <2>4, Zenon DEF Responds
<1>8. ASSUME NEW p \in Processes, NEW m \in net, ReceiveRekeyResponse(p, m)
      PROVE  \E w : Completes(p, m, w)
  BY <1>8, Zenon
     DEF ReceiveRekeyResponse, ApplyNextMaster, ComputeNextMaster, DiffieHellman, Rotated, Completes
<1>9. ASSUME NEW p \in Processes, NEW m \in net, AcceptPeerKey(p, m)
      PROVE  \E q \in Processes : Accepts(p, q)
  <2>1. PICK q \in Processes : m = PeerKey(q)
    BY <1>9, Zenon DEF AcceptPeerKey, KeyOrigin
  <2>2. m.public_key = StaticSecret(q) /\ m.from = LocalId[q]
    BY <2>1, Zenon DEF PeerKey
  <2>3. /\ peer_public_key[p] = {} /\ m.from = PeerId(p)
        /\ peer_public_key' = [peer_public_key EXCEPT ![p] = {m.public_key}]
        /\ master_secret' = [master_secret EXCEPT ![p] = <<{StaticSecret(p), m.public_key}>>]
        /\ epoch' = [epoch EXCEPT ![p] = 0]
        /\ pending_rekey' = [pending_rekey EXCEPT ![p] = {}]
        /\ UNCHANGED sent
    BY <1>9, Zenon DEF AcceptPeerKey, AcceptsKey, NewCryptoSession, DiffieHellman
  <2> QED
    BY <2>2, <2>3, Zenon DEF Accepts
<1> QED
  BY <1>1, <1>2, <1>3, <1>4, <1>5, <1>6, <1>7, <1>8, <1>9, Zenon DEF Next, Receive, Handle, ReadLine

-----------------------------------------------------------------------------
(* Sequences.                                                              *)

\* A sequence is a prefix of itself.
LEMMA PrefixRefl == \A s : Len(s) \in Nat => PrefixOf(s, s)
  BY DEF PrefixOf

\* A prefix of a prefix is a prefix.
LEMMA PrefixTrans ==
  ASSUME NEW S, NEW s \in Seq(S), NEW t \in Seq(S), NEW u \in Seq(S),
         PrefixOf(s, t), PrefixOf(t, u)
  PROVE  PrefixOf(s, u)
  BY DEF PrefixOf

\* A prefix has the entries of the whole.
LEMMA PrefixEntry ==
  ASSUME NEW S, NEW s \in Seq(S), NEW t \in Seq(S), PrefixOf(s, t),
         NEW i \in Nat, i + 2 <= Len(s)
  PROVE  t[i + 2] = s[i + 2]
  BY DEF PrefixOf

\* Appending adds the last entry and keeps the rest.
LEMMA AppendFacts ==
  \A s \in Seq(SUBSET Secrets), x \in SUBSET Secrets, n \in Nat : Len(s) = n + 1 =>
      /\ Len(Append(s, x)) = n + 2
      /\ PrefixOf(s, Append(s, x))
      /\ Append(s, x)[n + 2] = x
  BY DEF PrefixOf

\* A prefix that lacks one entry, and that entry, give the whole.
LEMMA AppendOfPrefix ==
  ASSUME NEW s \in Seq(SUBSET Secrets), NEW t \in Seq(SUBSET Secrets), NEW n \in Nat,
         Len(s) = n + 1, Len(t) = n + 2, PrefixOf(s, t)
  PROVE  Append(s, t[n + 2]) = t
<1>1. t[n + 2] \in SUBSET Secrets
  OBVIOUS
<1>2. Append(s, t[n + 2]) \in Seq(SUBSET Secrets) /\ Len(Append(s, t[n + 2])) = Len(t)
  BY <1>1
<1>3. \A i \in 1..Len(t) : Append(s, t[n + 2])[i] = t[i]
  BY <1>1 DEF PrefixOf
<1> QED
  BY <1>2, <1>3

\* Sequences with the same entries are equal.
LEMMA SameEntries ==
  \A s, t \in Seq(SUBSET Secrets) :
      Len(s) = Len(t) /\ (\A i \in 1..Len(s) : t[i] = s[i]) => s = t
  OBVIOUS

\* A sequence of length 1 is its entry.
LEMMA OneLink == \A s \in Seq(SUBSET Secrets) : Len(s) = 1 => s = <<s[1]>>
  OBVIOUS

-----------------------------------------------------------------------------
(* Growth: what was established stays.                                     *)

\* The sets of the session state that the steps read.
LEMMA SessionTypes ==
  ASSUME TypeOK, NEW p \in Processes
  PROVE  /\ master_secret[p] \in Seq(SUBSET Secrets)
         /\ epoch[p] \in Nat
  BY Zenon DEF TypeOK

\* What a rotation does to the master and the epoch of each process.
LEMMA RotatedFacts ==
  ASSUME TypeOK, Chained, NEW p \in Processes, peer_public_key[p] # {},
         NEW link \in SUBSET Secrets, Rotated(p, link)
  PROVE  /\ \A q \in Processes : q # p => master_secret'[q] = master_secret[q] /\ epoch'[q] = epoch[q]
         /\ epoch'[p] = epoch[p] + 1
         /\ master_secret'[p] = Append(master_secret[p], link)
         /\ Len(master_secret'[p]) = epoch[p] + 2
         /\ PrefixOf(master_secret[p], master_secret'[p])
         /\ master_secret'[p][epoch[p] + 2] = link
<1>1. /\ \A q \in Processes : q # p => master_secret'[q] = master_secret[q] /\ epoch'[q] = epoch[q]
      /\ epoch'[p] = epoch[p] + 1
      /\ master_secret'[p] = Append(master_secret[p], link)
  BY Zenon DEF TypeOK, Rotated
<1>2. /\ Len(Append(master_secret[p], link)) = epoch[p] + 2
      /\ PrefixOf(master_secret[p], Append(master_secret[p], link))
      /\ Append(master_secret[p], link)[epoch[p] + 2] = link
  <2>1. Len(master_secret[p]) = epoch[p] + 1
    BY Zenon DEF Chained
  <2>2. master_secret[p] \in Seq(SUBSET Secrets) /\ epoch[p] \in Nat
    BY SessionTypes, Zenon
  <2>3. \A s \in Seq(SUBSET Secrets), n \in Nat : Len(s) = n + 1 =>
          /\ Len(Append(s, link)) = n + 2
          /\ PrefixOf(s, Append(s, link))
          /\ Append(s, link)[n + 2] = link
    BY AppendFacts, Zenon
  <2> QED
    BY <2>1, <2>2, <2>3, Zenon
<1> QED
  BY <1>1, <1>2, Zenon

Grown ==
    \A r \in Processes : peer_public_key[r] # {} =>
        /\ epoch[r] <= epoch'[r]
        /\ PrefixOf(master_secret[r], master_secret'[r])
        /\ epoch'[r] = epoch[r] /\ pending_rekey[r] # {} => pending_rekey'[r] # {}

\* The order of the naturals, as the proofs below use it.
LEMMA NatOrder ==
  /\ \A n \in Nat : n <= n /\ n <= n + 1 /\ n # n + 1 /\ n < n + 1
  /\ \A a, b, c \in Nat : a <= b /\ b <= c => a <= c
  /\ \A a, b, c \in Nat : a <= b /\ b <= c /\ a = c => b = c
  /\ \A a, b, c \in Nat : a < b /\ b <= c => a < c
  /\ \A a, b \in Nat : a < b => a + 2 <= b + 1
  OBVIOUS

\* A sequence has a length.
LEMMA SeqLenNat == \A S : \A s \in Seq(S) : Len(s) \in Nat
  OBVIOUS

\* A step that changes no master and drops no handshake is growth.
LEMMA GrownSame ==
  ASSUME TypeOK, UNCHANGED <<master_secret, epoch>>,
         \A r \in Processes : pending_rekey[r] # {} => pending_rekey'[r] # {}
  PROVE  Grown
<1> SUFFICES ASSUME NEW r \in Processes
             PROVE  epoch[r] <= epoch[r] /\ PrefixOf(master_secret[r], master_secret[r])
  BY Zenon DEF Grown
<1> QED
  BY SessionTypes, NatOrder, SeqLenNat, PrefixRefl, Zenon

\* A rotation is growth.
LEMMA GrownRotated ==
  ASSUME TypeOK, Chained, NEW p \in Processes, peer_public_key[p] # {},
         NEW link \in SUBSET Secrets, Rotated(p, link),
         \A r \in Processes : r # p => pending_rekey'[r] = pending_rekey[r]
  PROVE  Grown
<1> SUFFICES ASSUME NEW r \in Processes
             PROVE  /\ epoch[r] <= epoch'[r]
                    /\ PrefixOf(master_secret[r], master_secret'[r])
                    /\ epoch'[r] = epoch[r] /\ pending_rekey[r] # {} => pending_rekey'[r] # {}
  BY Zenon DEF Grown
<1>1. epoch[r] \in Nat /\ epoch[r] <= epoch[r] /\ epoch[r] <= epoch[r] + 1 /\ epoch[r] # epoch[r] + 1
  BY SessionTypes, NatOrder, Zenon
<1>2. CASE r = p
  BY <1>1, <1>2, RotatedFacts, Zenon
<1>3. CASE r # p
  <2>1. PrefixOf(master_secret[r], master_secret[r])
    BY SessionTypes, SeqLenNat, PrefixRefl, Zenon
  <2>2. master_secret'[r] = master_secret[r] /\ epoch'[r] = epoch[r]
    BY <1>3, RotatedFacts, Zenon
  <2> QED
    BY <1>1, <1>3, <2>1, <2>2, Zenon
<1> QED
  BY <1>2, <1>3, Zenon

\* Accepting a key touches no established session.
LEMMA GrownAccepts ==
  ASSUME TypeOK, NEW p \in Processes, NEW q \in Processes, Accepts(p, q)
  PROVE  Grown
<1> SUFFICES ASSUME NEW r \in Processes, peer_public_key[r] # {}
             PROVE  /\ epoch[r] <= epoch'[r]
                    /\ PrefixOf(master_secret[r], master_secret'[r])
                    /\ epoch'[r] = epoch[r] /\ pending_rekey[r] # {} => pending_rekey'[r] # {}
  BY Zenon DEF Grown
<1>1. r # p
  BY Zenon DEF Accepts
<1>2. /\ master_secret'[r] = master_secret[r] /\ epoch'[r] = epoch[r]
      /\ pending_rekey'[r] = pending_rekey[r]
  BY <1>1, Zenon DEF Accepts, TypeOK
<1>3. epoch[r] <= epoch[r] /\ PrefixOf(master_secret[r], master_secret[r])
  BY SessionTypes, NatOrder, SeqLenNat, PrefixRefl, Zenon
<1> QED
  BY <1>2, <1>3, Zenon

\* What is known of an envelope that was sent stays true.
LEMMA OldHandshakes ==
  ASSUME StepInv, TypeOK', Grown, NEW m \in sent
  PROVE  SealedBy(m)' /\ RequestOf(m)' /\ ResponseOf(m)'
<1> DEFINE r == Author(m)
           master == m.ciphertext.key.master
<1>0. TypeOK /\ Chained /\ SealedBy(m) /\ RequestOf(m) /\ ResponseOf(m) /\ peer_public_key[r] # {}
  BY Zenon DEF StepInv, NonceInv, Handshakes, SentInSession
<1>1. r \in Processes /\ m.epoch \in Nat /\ master \in Seq(SUBSET Secrets)
  <2>1. m \in Envelopes
    BY <1>0, Zenon DEF TypeOK
  <2>2. m.epoch \in Nat /\ m.ciphertext.key \in Keys
    BY <2>1 DEF Envelopes
  <2>3. master \in Seq(SUBSET Secrets)
    BY <2>2 DEF Keys
  <2> QED
    BY <1>0, <2>2, <2>3, SentTypes, Zenon
<1>2. /\ master_secret[r] \in Seq(SUBSET Secrets) /\ epoch[r] \in Nat
      /\ master_secret'[r] \in Seq(SUBSET Secrets) /\ epoch'[r] \in Nat
  BY <1>0, <1>1, Zenon DEF TypeOK
<1>3. /\ epoch[r] <= epoch'[r] /\ PrefixOf(master_secret[r], master_secret'[r])
      /\ epoch'[r] = epoch[r] /\ pending_rekey[r] # {} => pending_rekey'[r] # {}
  BY <1>0, <1>1, Zenon DEF Grown
<1>4. SealedBy(m)'
  <2>1. /\ m.sender = LocalId[r] /\ m.recipient = PeerId(r) /\ Len(master) = m.epoch + 1
        /\ m.epoch <= epoch[r] /\ PrefixOf(master, master_secret[r])
    BY <1>0, Zenon DEF SealedBy
  <2>2. m.epoch <= epoch'[r]
    BY <1>1, <1>2, <1>3, <2>1, NatOrder, Zenon
  <2>3. PrefixOf(master, master_secret'[r])
    BY <1>1, <1>2, <1>3, <2>1, PrefixTrans, Zenon
  <2> QED
    BY <2>1, <2>2, <2>3, Zenon DEF SealedBy, Author, PrefixOf
<1>5. RequestOf(m)'
  <2>1. m.epoch = epoch'[r] => epoch'[r] = epoch[r] /\ m.epoch = epoch[r]
    <3>1. m.epoch <= epoch[r]
      BY <1>0, Zenon DEF SealedBy
    <3> QED
      BY <1>1, <1>2, <1>3, <3>1, NatOrder, Zenon
  <2> QED
    BY <1>0, <1>3, <2>1, Zenon DEF RequestOf, Author, EphemeralOf
<1>6. ResponseOf(m)'
  <2> SUFFICES ASSUME m.ciphertext.payload.type = "RekeyResponse"
               PROVE  /\ m.epoch < epoch'[r]
                      /\ master_secret'[r][m.epoch + 2] =
                           {m.ciphertext.payload.ephemeral_public_key,
                            EphemeralOf(m.ciphertext.payload.rekey_id)}
    BY Zenon DEF ResponseOf, Author, EphemeralOf
  <2>1. m.epoch < epoch[r] /\ master_secret[r][m.epoch + 2] =
                           {m.ciphertext.payload.ephemeral_public_key,
                            EphemeralOf(m.ciphertext.payload.rekey_id)}
    BY <1>0, Zenon DEF ResponseOf
  <2>2. m.epoch < epoch'[r]
    BY <1>1, <1>2, <1>3, <2>1, NatOrder, Zenon
  <2>3. m.epoch + 2 <= Len(master_secret[r])
    <3>1. Len(master_secret[r]) = epoch[r] + 1
      BY <1>0, <1>1, Zenon DEF Chained
    <3> QED
      BY <1>1, <1>2, <2>1, <3>1
  <2>4. master_secret'[r][m.epoch + 2] = master_secret[r][m.epoch + 2]
    BY <1>1, <1>2, <1>3, <2>3, PrefixEntry
  <2> QED
    BY <2>1, <2>2, <2>4, Zenon
<1> QED
  BY <1>4, <1>5, <1>6, Zenon

\* What a new envelope records of its author.
LEMMA SealedNow ==
  ASSUME TypeOK, Chained, Grown, NEW p \in Processes, peer_public_key[p] # {},
         NEW k, NEW payload, NEW m, m = Encrypt(p, k, payload)
  PROVE  /\ Author(m) = p /\ m.epoch = epoch[p] /\ m.ciphertext.payload = payload
         /\ SealedBy(m)'
<1>1. /\ Author(m) = p /\ m.epoch = epoch[p] /\ m.ciphertext.payload = payload
      /\ m.sender = LocalId[p] /\ m.recipient = PeerId(p)
      /\ m.ciphertext.key.master = master_secret[p]
  BY Zenon DEF Encrypt, Author, FreshId, Seal, CipherFor
<1>2. epoch[p] <= epoch'[p] /\ PrefixOf(master_secret[p], master_secret'[p])
  BY Zenon DEF Grown
<1>3. Len(master_secret[p]) = epoch[p] + 1
  BY Zenon DEF Chained
<1>4. Author(m)' = p
  BY <1>1, Zenon DEF Author
<1>5. /\ Len(m.ciphertext.key.master) = m.epoch + 1 /\ m.epoch <= epoch'[p]
      /\ PrefixOf(m.ciphertext.key.master, master_secret'[p])
  BY <1>1, <1>2, <1>3, Zenon
<1> QED
  BY <1>1, <1>4, <1>5, Zenon DEF SealedBy, PrefixOf

\* The secret that start_rekey draws is the one its id names.
LEMMA FreshEphemeral == \A p, k : FreshSecret(p, k) = EphemeralOf(FreshId(p, k))
  BY Zenon DEF FreshSecret, FreshId, EphemeralOf

-----------------------------------------------------------------------------
(* The invariant is inductive: one lemma for each kind of step.            *)

KeepsStep == Chained' /\ Unmet' /\ Handshakes' /\ Pending' /\ Lockstep'

\* Two ends that do not rotate stay aligned.
LEMMA StayAligned ==
  ASSUME NEW p \in Processes, NEW q \in Processes, Aligned(p, q),
         master_secret'[p] = master_secret[p], master_secret'[q] = master_secret[q],
         epoch'[p] = epoch[p], epoch'[q] = epoch[q],
         pending_rekey[p] # {} => pending_rekey'[p] # {},
         pending_rekey[q] # {} => pending_rekey'[q] # {}
  PROVE  Aligned(p, q)'
<1>1. CASE epoch[p] = epoch[q] /\ master_secret[p] = master_secret[q]
  BY <1>1, Zenon DEF Aligned
<1>2. CASE Trails(p, q)
  BY <1>2, Zenon DEF Aligned, Trails, PrefixOf
<1>3. CASE Trails(q, p)
  BY <1>3, Zenon DEF Aligned, Trails, PrefixOf
<1> QED
  BY <1>1, <1>2, <1>3, Zenon DEF Aligned

\* Steps that touch neither masters nor handshakes.
LEMMA QuietKeepsStep ==
  ASSUME StepInv, TypeOK', Quiet
  PROVE  KeepsStep
<1>0. Chained /\ Unmet /\ Handshakes /\ Pending /\ Lockstep
  BY Zenon DEF StepInv
<1>1. Chained' /\ Unmet'
  BY <1>0, Zenon DEF Quiet, Chained, Unmet, StaticSecret
<1>2. Handshakes'
  BY <1>0, Zenon
     DEF Quiet, Handshakes, SealedBy, RequestOf, ResponseOf, Author, PrefixOf, EphemeralOf
<1>3. Pending'
  BY <1>0, Zenon DEF Quiet, Pending, EphemeralOf
<1>4. Lockstep'
  <2> SUFFICES ASSUME NEW p \in Processes, NEW q \in Processes, Paired(p, q)
               PROVE  Aligned(p, q)'
    BY Zenon DEF Quiet, Lockstep, Paired, StaticSecret
  <2> QED
    BY <1>0, StayAligned, Zenon DEF Quiet, Lockstep
<1> QED
  BY <1>1, <1>2, <1>3, <1>4, Zenon DEF KeepsStep

\* encrypt_line and start_rekey.
LEMMA SpeakingKeepsStep ==
  ASSUME StepInv, TypeOK', NEW p \in Processes, NEW out, Speaks(p, out)
  PROVE  KeepsStep
<1>0. TypeOK /\ Chained /\ Unmet /\ Handshakes /\ Pending /\ Lockstep
  BY Zenon DEF StepInv, NonceInv
<1>1. /\ peer_public_key[p] # {} /\ UNCHANGED <<peer_public_key, master_secret, epoch>>
      /\ sent' = sent \cup out
  BY Zenon DEF Speaks
<1>2. Chained' /\ Unmet'
  BY <1>0, <1>1, Zenon DEF Chained, Unmet, StaticSecret
<1>3. \A r \in Processes : pending_rekey[r] # {} => pending_rekey'[r] # {}
  <2>1. CASE UNCHANGED pending_rekey
    BY <2>1, Zenon
  <2>2. ASSUME NEW k, StartRekey(p, k)
        PROVE  \A r \in Processes : pending_rekey[r] # {} => pending_rekey'[r] # {}
    BY <1>0, <2>2, Zenon DEF StartRekey, TypeOK
  <2> QED
    BY <2>1, <2>2, Zenon DEF Speaks
<1>4. Grown
  BY <1>0, <1>1, <1>3, GrownSame, Zenon
<1>5. Handshakes'
  <2>1. ASSUME NEW m \in sent PROVE SealedBy(m)' /\ RequestOf(m)' /\ ResponseOf(m)'
    BY <1>4, OldHandshakes, Zenon
  <2>2. ASSUME NEW m \in out PROVE SealedBy(m)' /\ RequestOf(m)' /\ ResponseOf(m)'
    <3>1. PICK k, payload :
            /\ m = Encrypt(p, k, payload)
            /\ \/ payload = Chat
               \/ /\ payload = RekeyRequest(FreshId(p, k), FreshSecret(p, k))
                  /\ pending_rekey'[p] # {}
      BY <2>2, Zenon DEF Speaks
    <3>2. Author(m) = p /\ m.ciphertext.payload = payload /\ SealedBy(m)'
      BY <1>0, <1>1, <1>4, <3>1, SealedNow
    <3>3. payload.type # "RekeyResponse"
      BY <3>1 DEF Chat, RekeyRequest
    <3>4. ResponseOf(m)'
      BY <3>2, <3>3, Zenon DEF ResponseOf
    <3>5. CASE payload = Chat
      <4>1. payload.type # "RekeyRequest"
        BY <3>5 DEF Chat
      <4> QED
        BY <3>2, <3>4, <4>1, Zenon DEF RequestOf
    <3>6. CASE payload = RekeyRequest(FreshId(p, k), FreshSecret(p, k)) /\ pending_rekey'[p] # {}
      <4>1. payload.rekey_id = FreshId(p, k) /\ payload.ephemeral_public_key = FreshSecret(p, k)
        BY <3>6, Zenon DEF RekeyRequest
      <4>2. payload.ephemeral_public_key = EphemeralOf(payload.rekey_id)
        BY <4>1, FreshEphemeral, Zenon
      <4>3. RequestOf(m)'
        BY <3>2, <3>6, <4>2, Zenon DEF RequestOf, Author, EphemeralOf
      <4> QED
        BY <3>2, <3>4, <4>3, Zenon
    <3> QED
      BY <3>1, <3>5, <3>6, Zenon
  <2> QED
    BY <1>1, <2>1, <2>2, Zenon DEF Handshakes
<1>6. Pending'
  <2>1. CASE UNCHANGED pending_rekey
    BY <1>0, <2>1, Zenon DEF Pending, EphemeralOf
  <2>2. ASSUME NEW k, StartRekey(p, k) PROVE Pending'
    <3> SUFFICES ASSUME NEW r \in Processes, NEW w \in pending_rekey'[r]
                 PROVE  w.ephemeral_secret = EphemeralOf(w.rekey_id)
      BY Zenon DEF Pending, EphemeralOf
    <3>1. CASE r # p
      <4>1. w \in pending_rekey[r]
        BY <1>0, <2>2, <3>1, Zenon DEF StartRekey, TypeOK
      <4> QED
        BY <1>0, <4>1, Zenon DEF Pending
    <3>2. CASE r = p
      <4>1. w = [rekey_id |-> FreshId(p, k), ephemeral_secret |-> FreshSecret(p, k)]
        BY <1>0, <2>2, <3>2, Zenon DEF StartRekey, TypeOK
      <4>2. w.rekey_id = FreshId(p, k) /\ w.ephemeral_secret = FreshSecret(p, k)
        BY <4>1, Zenon
      <4> QED
        BY <4>2, FreshEphemeral, Zenon
    <3> QED
      BY <3>1, <3>2, Zenon
  <2> QED
    BY <2>1, <2>2, Zenon DEF Speaks
<1>7. Lockstep'
  <2> SUFFICES ASSUME NEW r \in Processes, NEW q \in Processes, Paired(r, q)
               PROVE  Aligned(r, q)'
    BY <1>1, Zenon DEF Lockstep, Paired, StaticSecret
  <2> QED
    BY <1>0, <1>1, <1>3, StayAligned, Zenon DEF Lockstep
<1> QED
  BY <1>2, <1>5, <1>6, <1>7, Zenon DEF KeepsStep

\* The end that rotates is paired with the author of what it opened, so whoever is paired
\* with the one is the other.
LEMMA OpenedPair ==
  ASSUME StepInv, NEW p \in Processes, NEW m \in net, Opens(p, m)
  PROVE  /\ Author(m) \in Processes /\ Author(m) # p
         /\ Paired(p, Author(m)) /\ Paired(Author(m), p)
         /\ peer_public_key[p] # {} /\ peer_public_key[Author(m)] # {}
         /\ Aligned(p, Author(m))
         /\ \A q \in Processes : Paired(p, q) => q = Author(m)
<1>1. Author(m) \in Processes /\ Paired(p, Author(m))
  BY OpenedByPeer, Zenon
<1>2. NonceInv /\ Lockstep
  BY Zenon DEF StepInv
<1>3. Aligned(p, Author(m))
  BY <1>1, <1>2, Zenon DEF Lockstep
<1> QED
  BY <1>1, <1>2, <1>3, PairedOnce, Zenon

\* What a rotation of p keeps, whoever else it concerns.
LEMMA RotationKeepsRest ==
  ASSUME StepInv, NEW p \in Processes, NEW m \in net, Opens(p, m),
         NEW link \in SUBSET Secrets, Rotated(p, link), UNCHANGED peer_public_key,
         \A r \in Processes : r # p => pending_rekey'[r] = pending_rekey[r],
         Aligned(p, Author(m))', Aligned(Author(m), p)'
  PROVE  Chained' /\ Unmet' /\ Grown /\ Lockstep'
<1> DEFINE r == Author(m)
<1>0. TypeOK /\ NonceInv /\ Chained /\ Unmet /\ Lockstep
  BY Zenon DEF StepInv, NonceInv
<1>1. /\ r \in Processes /\ r # p /\ Paired(p, r) /\ peer_public_key[p] # {}
      /\ \A q \in Processes : Paired(p, q) => q = r
  BY OpenedPair, Zenon
<1>2. /\ \A q \in Processes : q # p => master_secret'[q] = master_secret[q] /\ epoch'[q] = epoch[q]
      /\ epoch'[p] = epoch[p] + 1 /\ Len(master_secret'[p]) = epoch[p] + 2
  BY <1>0, <1>1, RotatedFacts, Zenon
<1>3. Grown
  BY <1>0, <1>1, GrownRotated, Zenon
<1>4. Chained'
  <2> SUFFICES ASSUME NEW q \in Processes
               PROVE  IF peer_public_key[q] = {} THEN master_secret'[q] = <<>>
                                                 ELSE Len(master_secret'[q]) = epoch'[q] + 1
    BY Zenon DEF Chained
  <2>1. CASE q = p
    <3>1. epoch[p] \in Nat
      BY <1>0, SessionTypes, Zenon
    <3>2. Len(master_secret'[p]) = epoch'[p] + 1
      BY <1>2, <3>1
    <3> QED
      BY <1>1, <2>1, <3>2, Zenon
  <2>2. CASE q # p
    BY <1>0, <1>2, <2>2, Zenon DEF Chained
  <2> QED
    BY <2>1, <2>2, Zenon
<1>5. Unmet'
  <2> SUFFICES ASSUME NEW q \in Processes, NEW o \in Processes,
                      StaticSecret(o) \in peer_public_key[q], StaticSecret(q) \notin peer_public_key[o]
               PROVE  epoch'[q] = 0
    BY Zenon DEF Unmet, StaticSecret
  <2>1. CASE q = p
    <3>1. peer_public_key[p] = {StaticSecret(r)} /\ StaticSecret(p) \in peer_public_key[r]
      BY <1>1, Zenon DEF Paired
    <3>2. StaticSecret(o) = StaticSecret(r)
      BY <2>1, <3>1, Zenon
    <3>3. o = r
      BY <3>2, StaticSecretInjective, Zenon
    <3> QED
      BY <2>1, <3>1, <3>3, Zenon
  <2>2. CASE q # p
    BY <1>0, <1>2, <2>2, Zenon DEF Unmet
  <2> QED
    BY <2>1, <2>2, Zenon
<1>6. Lockstep'
  <2> SUFFICES ASSUME NEW q \in Processes, NEW o \in Processes, Paired(q, o)
               PROVE  Aligned(q, o)'
    BY Zenon DEF Lockstep, Paired, StaticSecret
  <2>1. Paired(o, q)
    BY Zenon DEF Paired
  <2>2. CASE q = p
    <3>1. o = r
      BY <1>1, <2>2, Zenon
    <3> QED
      BY <2>2, <3>1, Zenon
  <2>3. CASE o = p
    <3>1. q = r
      BY <1>1, <2>1, <2>3, Zenon
    <3> QED
      BY <2>3, <3>1, Zenon
  <2>4. CASE q # p /\ o # p
    <3>1. Aligned(q, o)
      BY <1>0, Zenon DEF Lockstep
    <3> QED
      BY <1>2, <2>4, <3>1, StayAligned, Zenon
  <2> QED
    BY <2>2, <2>3, <2>4, Zenon
<1> QED
  BY <1>3, <1>4, <1>5, <1>6, Zenon

\* The end that answers a request holds the master of the end that sent it, which waits.
LEMMA ResponderIsEven ==
  ASSUME StepInv, NEW p \in Processes, NEW m \in net, NEW out, Responds(p, m, out)
  PROVE  /\ Author(m) \in Processes /\ Author(m) # p
         /\ peer_public_key[p] # {} /\ m \in sent
         /\ epoch[p] = epoch[Author(m)] /\ master_secret[p] = master_secret[Author(m)]
         /\ pending_rekey[Author(m)] # {}
         /\ m.ciphertext.payload.type = "RekeyRequest"
         /\ {FreshSecret(p, 1), m.ciphertext.payload.ephemeral_public_key} \in SUBSET Secrets
<1> DEFINE r == Author(m)
<1>0. TypeOK /\ Handshakes
  BY Zenon DEF StepInv, NonceInv
<1>1. /\ OpensAs(p, m, "RekeyRequest") /\ Opens(p, m) /\ pending_rekey[p] = {}
      /\ m.ciphertext.payload.type = "RekeyRequest"
  BY Zenon DEF Responds, OpensAs
<1>2. {FreshSecret(p, 1), m.ciphertext.payload.ephemeral_public_key} \in SUBSET Secrets
  BY <1>0, <1>1, SharedType, Zenon DEF DiffieHellman
<1>3. /\ r \in Processes /\ r # p /\ Aligned(p, r) /\ peer_public_key[p] # {}
      /\ m \in sent /\ m.epoch = epoch[p]
  BY <1>1, OpenedPair, OpenedByPeer, Zenon
<1>4. SealedBy(m) /\ RequestOf(m)
  BY <1>0, <1>3, Zenon DEF Handshakes
<1>5. epoch[p] \in Nat /\ epoch[r] \in Nat
  BY <1>0, <1>3, SessionTypes, Zenon
<1>6. epoch[p] = epoch[r] /\ master_secret[p] = master_secret[r]
  <2>1. ~Trails(p, r)
    BY <1>1, Zenon DEF Trails
  <2>2. epoch[p] <= epoch[r]
    BY <1>3, <1>4, Zenon DEF SealedBy
  <2>3. ~Trails(r, p)
    <3>1. epoch[p] # epoch[r] + 1
      BY <1>5, <2>2
    <3> QED
      BY <3>1, Zenon DEF Trails
  <2> QED
    BY <1>3, <2>1, <2>3, Zenon DEF Aligned
<1>7. pending_rekey[r] # {}
  BY <1>1, <1>3, <1>4, <1>6, Zenon DEF RequestOf
<1> QED
  BY <1>1, <1>2, <1>3, <1>6, <1>7, Zenon

\* Afterwards it is the one ahead.
LEMMA RespondingKeepsStep ==
  ASSUME StepInv, TypeOK', NEW p \in Processes, NEW m \in net, NEW out, Responds(p, m, out)
  PROVE  KeepsStep
<1> DEFINE r == Author(m)
           link == {FreshSecret(p, 1), m.ciphertext.payload.ephemeral_public_key}
<1>0. TypeOK /\ Chained /\ Handshakes /\ Pending
  BY Zenon DEF StepInv, NonceInv
<1>1. /\ Opens(p, m) /\ Rotated(p, link) /\ UNCHANGED <<peer_public_key, pending_rekey>>
      /\ out \subseteq {Reply(p, m.ciphertext.payload)} /\ sent' = sent \cup out
  BY Zenon DEF Responds, OpensAs
<1>2. /\ r \in Processes /\ r # p /\ peer_public_key[p] # {} /\ m \in sent
      /\ epoch[p] = epoch[r] /\ master_secret[p] = master_secret[r] /\ pending_rekey[r] # {}
      /\ m.ciphertext.payload.type = "RekeyRequest" /\ link \in SUBSET Secrets
  BY ResponderIsEven, Zenon
<1> HIDE DEF link
<1>3. epoch[p] \in Nat
  BY <1>0, SessionTypes, Zenon
<1>4. RequestOf(m)
  BY <1>0, <1>2, Zenon DEF Handshakes
<1>5. /\ \A q \in Processes : q # p => master_secret'[q] = master_secret[q] /\ epoch'[q] = epoch[q]
      /\ epoch'[p] = epoch[p] + 1
      /\ PrefixOf(master_secret[p], master_secret'[p])
      /\ master_secret'[p][epoch[p] + 2] = link
  BY <1>0, <1>1, <1>2, RotatedFacts, Zenon
<1>6. Trails(r, p)'
  <2>1. epoch'[p] = epoch'[r] + 1 /\ master_secret'[r] = master_secret[p]
    BY <1>2, <1>5, Zenon
  <2> QED
    BY <1>1, <1>2, <1>5, <2>1, Zenon DEF Trails, PrefixOf
<1>7. Aligned(p, r)' /\ Aligned(r, p)'
  BY <1>6, Zenon DEF Aligned
<1>8. Chained' /\ Unmet' /\ Grown /\ Lockstep'
  BY <1>1, <1>2, <1>7, RotationKeepsRest, Zenon
<1>9. Handshakes'
  <2>1. ASSUME NEW n \in sent PROVE SealedBy(n)' /\ RequestOf(n)' /\ ResponseOf(n)'
    BY <1>8, OldHandshakes, Zenon
  <2>2. ASSUME NEW n \in out PROVE SealedBy(n)' /\ RequestOf(n)' /\ ResponseOf(n)'
    <3> DEFINE id == m.ciphertext.payload.rekey_id
               response == RekeyResponse(id, FreshSecret(p, 1))
    <3>1. n = Encrypt(p, 1, response)
      BY <1>1, <2>2, Zenon DEF Reply
    <3>2. /\ response.type = "RekeyResponse" /\ response.rekey_id = id
          /\ response.ephemeral_public_key = FreshSecret(p, 1)
      BY Zenon DEF RekeyResponse
    <3> HIDE DEF response
    <3>3. Author(n) = p /\ n.epoch = epoch[p] /\ n.ciphertext.payload = response /\ SealedBy(n)'
      BY <1>0, <1>2, <1>8, <3>1, SealedNow
    <3>4. RequestOf(n)'
      <4>1. n.ciphertext.payload.type # "RekeyRequest"
        BY <3>2, <3>3
      <4> QED
        BY <4>1, Zenon DEF RequestOf
    <3>5. master_secret'[p][epoch[p] + 2] = {FreshSecret(p, 1), EphemeralOf(id)}
      <4>1. m.ciphertext.payload.ephemeral_public_key = EphemeralOf(id)
        BY <1>2, <1>4, Zenon DEF RequestOf
      <4> QED
        BY <1>5, <4>1, Zenon DEF link
    <3>6. n.epoch < epoch'[p]
      BY <1>3, <1>5, <3>3, NatOrder, Zenon
    <3>7. ResponseOf(n)'
      <4>1. /\ n.ciphertext.payload.ephemeral_public_key = FreshSecret(p, 1)
            /\ n.ciphertext.payload.rekey_id = id
        BY <3>2, <3>3, Zenon
      <4>2. master_secret'[p][n.epoch + 2] =
              {n.ciphertext.payload.ephemeral_public_key,
               EphemeralOf(n.ciphertext.payload.rekey_id)}
        BY <3>3, <3>5, <4>1, Zenon
      <4> QED
        BY <3>3, <3>6, <4>2, Zenon DEF ResponseOf, Author, EphemeralOf
    <3> QED
      BY <3>3, <3>4, <3>7, Zenon
  <2> QED
    BY <1>1, <2>1, <2>2, Zenon DEF Handshakes
<1>10. Pending'
  BY <1>0, <1>1, Zenon DEF Pending, EphemeralOf
<1> QED
  BY <1>8, <1>9, <1>10, Zenon DEF KeepsStep

\* The end that completes its handshake is the one behind: it gets the link that the other
\* end already has.
LEMMA CompletionCatchesUp ==
  ASSUME StepInv, NEW p \in Processes, NEW m \in net, NEW w, Completes(p, m, w)
  PROVE  /\ Trails(p, Author(m))
         /\ master_secret' = [master_secret EXCEPT ![p] = master_secret[Author(m)]]
         /\ master_secret'[p] = master_secret[Author(m)]
         /\ epoch'[p] = epoch[Author(m)]
         /\ {w.ephemeral_secret, m.ciphertext.payload.ephemeral_public_key} \in SUBSET Secrets
<1> DEFINE r == Author(m)
           payload == m.ciphertext.payload
           link == {w.ephemeral_secret, payload.ephemeral_public_key}
<1>0. TypeOK /\ Chained /\ Handshakes /\ Pending
  BY Zenon DEF StepInv, NonceInv
<1>1. /\ Opens(p, m) /\ w \in pending_rekey[p] /\ w.rekey_id = payload.rekey_id
      /\ Rotated(p, link) /\ payload.type = "RekeyResponse"
  BY Zenon DEF Completes, OpensAs
<1>2. /\ r \in Processes /\ Aligned(p, r) /\ peer_public_key[p] # {} /\ peer_public_key[r] # {}
      /\ m \in sent /\ m.epoch = epoch[p]
  BY <1>1, OpenedPair, OpenedByPeer, Zenon
<1>3. /\ epoch[p] \in Nat /\ epoch[r] \in Nat
      /\ master_secret[p] \in Seq(SUBSET Secrets) /\ master_secret[r] \in Seq(SUBSET Secrets)
  BY <1>0, <1>2, SessionTypes, Zenon
<1>4. epoch[p] < epoch[r] /\ master_secret[r][epoch[p] + 2] =
                               {payload.ephemeral_public_key, EphemeralOf(payload.rekey_id)}
  BY <1>0, <1>1, <1>2, Zenon DEF Handshakes, ResponseOf
<1>5. Trails(p, r)
  <2>1. epoch[p] # epoch[r] /\ epoch[p] # epoch[r] + 1
    BY <1>3, <1>4
  <2> QED
    BY <1>2, <2>1, Zenon DEF Aligned, Trails
<1>6. link = master_secret[r][epoch[p] + 2]
  <2>1. w.ephemeral_secret = EphemeralOf(payload.rekey_id)
    BY <1>0, <1>1, Zenon DEF Pending
  <2> QED
    BY <1>4, <2>1, Zenon
<1> HIDE DEF link
<1>7. /\ Len(master_secret[p]) = epoch[p] + 1 /\ Len(master_secret[r]) = epoch[p] + 2
      /\ PrefixOf(master_secret[p], master_secret[r]) /\ epoch[r] = epoch[p] + 1
  <2>1. epoch[r] = epoch[p] + 1 /\ PrefixOf(master_secret[p], master_secret[r])
    BY <1>5, Zenon DEF Trails
  <2>2. Len(master_secret[p]) = epoch[p] + 1 /\ Len(master_secret[r]) = epoch[r] + 1
    BY <1>0, <1>2, Zenon DEF Chained
  <2>3. Len(master_secret[r]) = epoch[p] + 2
    BY <1>3, <2>1, <2>2
  <2> QED
    BY <2>1, <2>2, <2>3, Zenon
<1>8. Append(master_secret[p], link) = master_secret[r]
  BY <1>3, <1>6, <1>7, AppendOfPrefix, Zenon
<1>9. link \in SUBSET Secrets
  BY <1>3, <1>6, <1>7
<1>10. /\ master_secret' = [master_secret EXCEPT ![p] = master_secret[r]]
       /\ master_secret'[p] = master_secret[r] /\ epoch'[p] = epoch[r]
  BY <1>0, <1>1, <1>7, <1>8, Zenon DEF Rotated, TypeOK
<1> QED
  BY <1>5, <1>9, <1>10, Zenon DEF link

\* The response is applied: both ends hold the same master again.
LEMMA CompletingKeepsStep ==
  ASSUME StepInv, TypeOK', NEW p \in Processes, NEW m \in net, NEW w, Completes(p, m, w)
  PROVE  KeepsStep
<1> DEFINE r == Author(m)
           link == {w.ephemeral_secret, m.ciphertext.payload.ephemeral_public_key}
<1>0. TypeOK /\ Chained /\ Handshakes /\ Pending
  BY Zenon DEF StepInv, NonceInv
<1>1. /\ Opens(p, m) /\ Rotated(p, link) /\ UNCHANGED <<peer_public_key, sent>>
      /\ pending_rekey' = [pending_rekey EXCEPT ![p] = {}]
  BY Zenon DEF Completes, OpensAs
<1>2. master_secret'[p] = master_secret[r] /\ epoch'[p] = epoch[r] /\ link \in SUBSET Secrets
  BY CompletionCatchesUp, Zenon
<1> HIDE DEF link
<1>3. r \in Processes /\ r # p /\ peer_public_key[p] # {}
  BY <1>1, OpenedPair, Zenon
<1>4. master_secret'[r] = master_secret[r] /\ epoch'[r] = epoch[r]
  BY <1>0, <1>1, <1>2, <1>3, RotatedFacts, Zenon
<1>5. Aligned(p, r)' /\ Aligned(r, p)'
  BY <1>2, <1>4, Zenon DEF Aligned
<1>6. \A q \in Processes : q # p => pending_rekey'[q] = pending_rekey[q]
  BY <1>0, <1>1, Zenon DEF TypeOK
<1>7. Chained' /\ Unmet' /\ Grown /\ Lockstep'
  BY <1>1, <1>2, <1>5, <1>6, RotationKeepsRest, Zenon
<1>8. Handshakes'
  <2>1. ASSUME NEW n \in sent PROVE SealedBy(n)' /\ RequestOf(n)' /\ ResponseOf(n)'
    BY <1>7, OldHandshakes, Zenon
  <2> QED
    BY <1>1, <2>1, Zenon DEF Handshakes
<1>9. Pending'
  <2>1. pending_rekey'[p] = {}
    BY <1>0, <1>1, Zenon DEF TypeOK
  <2> QED
    BY <1>0, <1>6, <2>1, Zenon DEF Pending, EphemeralOf
<1> QED
  BY <1>7, <1>8, <1>9, Zenon DEF KeepsStep

\* What accepting the key of q does to the state of each process.
LEMMA AcceptsFacts ==
  ASSUME TypeOK, NEW p \in Processes, NEW q \in Processes, Accepts(p, q)
  PROVE  /\ p # q
         /\ peer_public_key[p] = {} /\ peer_public_key'[p] = {StaticSecret(q)}
         /\ master_secret'[p] = <<{StaticSecret(p), StaticSecret(q)}>>
         /\ epoch'[p] = 0 /\ pending_rekey'[p] = {}
         /\ \A o \in Processes : o # p =>
              /\ peer_public_key'[o] = peer_public_key[o] /\ master_secret'[o] = master_secret[o]
              /\ epoch'[o] = epoch[o] /\ pending_rekey'[o] = pending_rekey[o]
<1>1. p # q
  BY PeerIdType, Zenon DEF Accepts
<1> QED
  BY <1>1, Zenon DEF Accepts, TypeOK

\* Whoever already holds a session with the accepting process has not rotated, and starts
\* from the same master.
LEMMA PeerHasWaited ==
  ASSUME StepInv, NEW p \in Processes, NEW q \in Processes,
         peer_public_key[p] = {}, StaticSecret(p) \in peer_public_key[q]
  PROVE  epoch[q] = 0 /\ master_secret[q] = <<{StaticSecret(p), StaticSecret(q)}>>
<1>0. TypeOK /\ KeyOrigin /\ Chained /\ Unmet
  BY Zenon DEF StepInv, NonceInv
<1>1. epoch[q] = 0
  BY <1>0, Zenon DEF Unmet
<1>2. Len(master_secret[q]) = epoch[q] + 1
  BY <1>0, Zenon DEF Chained
<1>3. master_secret[q][1] = {StaticSecret(p), StaticSecret(q)}
  <2>1. master_secret[q][1] = {StaticSecret(q), StaticSecret(p)}
    BY <1>0, Zenon DEF KeyOrigin
  <2> QED
    BY <2>1, Zenon
<1>4. Len(master_secret[q]) = 1
  BY <1>1, <1>2
<1>5. master_secret[q] \in Seq(SUBSET Secrets)
  BY <1>0, SessionTypes, Zenon
<1> QED
  BY <1>1, <1>3, <1>4, <1>5, OneLink, Zenon

\* CryptoSession::new: the accepting end starts level with its peer.
LEMMA AcceptingKeepsStep ==
  ASSUME StepInv, TypeOK', NEW p \in Processes, NEW q \in Processes, Accepts(p, q)
  PROVE  KeepsStep
<1>0. TypeOK /\ NonceInv /\ Chained /\ Unmet /\ Handshakes /\ Pending /\ Lockstep
  BY Zenon DEF StepInv, NonceInv
<1>1. /\ p # q
      /\ peer_public_key[p] = {} /\ peer_public_key'[p] = {StaticSecret(q)}
      /\ master_secret'[p] = <<{StaticSecret(p), StaticSecret(q)}>>
      /\ epoch'[p] = 0 /\ pending_rekey'[p] = {}
  BY <1>0, AcceptsFacts, Zenon
<1>2. \A o \in Processes : o # p =>
        /\ peer_public_key'[o] = peer_public_key[o] /\ master_secret'[o] = master_secret[o]
        /\ epoch'[o] = epoch[o] /\ pending_rekey'[o] = pending_rekey[o]
  BY <1>0, AcceptsFacts, Zenon
<1>3. Chained'
  <2> SUFFICES ASSUME NEW o \in Processes
               PROVE  IF peer_public_key'[o] = {} THEN master_secret'[o] = <<>>
                                                  ELSE Len(master_secret'[o]) = epoch'[o] + 1
    BY Zenon DEF Chained
  <2>1. CASE o = p
    <3>1. Len(master_secret'[p]) = epoch'[p] + 1
      BY <1>1
    <3> QED
      BY <1>1, <2>1, <3>1, Zenon
  <2>2. CASE o # p
    BY <1>0, <1>2, <2>2, Zenon DEF Chained
  <2> QED
    BY <2>1, <2>2, Zenon
<1>4. Unmet'
  <2> SUFFICES ASSUME NEW a \in Processes, NEW b \in Processes,
                      StaticSecret(b) \in peer_public_key'[a],
                      StaticSecret(a) \notin peer_public_key'[b]
               PROVE  epoch'[a] = 0
    BY Zenon DEF Unmet, StaticSecret
  <2>1. CASE a = p
    BY <1>1, <2>1, Zenon
  <2>2. CASE a # p
    <3>1. StaticSecret(b) \in peer_public_key[a] /\ epoch'[a] = epoch[a]
      BY <1>2, <2>2, Zenon
    <3>2. StaticSecret(a) \notin peer_public_key[b]
      BY <1>1, <1>2, Zenon
    <3> QED
      BY <1>0, <3>1, <3>2, Zenon DEF Unmet
  <2> QED
    BY <2>1, <2>2, Zenon
<1>5. Handshakes'
  <2>1. Grown
    BY <1>0, GrownAccepts, Zenon
  <2>2. ASSUME NEW n \in sent PROVE SealedBy(n)' /\ RequestOf(n)' /\ ResponseOf(n)'
    BY <2>1, OldHandshakes, Zenon
  <2> QED
    BY <2>2, Zenon DEF Handshakes, Accepts
<1>6. Pending'
  BY <1>0, <1>1, <1>2, Zenon DEF Pending, EphemeralOf
<1>7. ASSUME NEW b \in Processes, Paired(p, b)' PROVE Aligned(p, b)' /\ Aligned(b, p)'
  <2>1. peer_public_key'[p] = {StaticSecret(b)} /\ peer_public_key'[b] = {StaticSecret(p)}
    BY <1>7, Zenon DEF Paired, StaticSecret
  <2>2. b = q
    <3>1. StaticSecret(b) = StaticSecret(q)
      BY <1>1, <2>1, Zenon
    <3> QED
      BY <3>1, StaticSecretInjective, Zenon
  <2>3. StaticSecret(p) \in peer_public_key[q] /\ q # p
    BY <1>1, <1>2, <2>1, <2>2, Zenon
  <2>4. epoch[q] = 0 /\ master_secret[q] = <<{StaticSecret(p), StaticSecret(q)}>>
    BY <1>1, <2>3, PeerHasWaited, Zenon
  <2>5. epoch'[p] = epoch'[q] /\ master_secret'[p] = master_secret'[q]
    BY <1>1, <1>2, <2>3, <2>4, Zenon
  <2> QED
    BY <2>2, <2>5, Zenon DEF Aligned
<1>8. Lockstep'
  <2> SUFFICES ASSUME NEW a \in Processes, NEW b \in Processes, Paired(a, b)'
               PROVE  Aligned(a, b)'
    BY Zenon DEF Lockstep
  <2>1. Paired(b, a)'
    BY Zenon DEF Paired
  <2>2. CASE a = p
    BY <1>7, <2>2, Zenon
  <2>3. CASE b = p
    BY <1>7, <2>1, <2>3, Zenon
  <2>4. CASE a # p /\ b # p
    <3>1. Paired(a, b)
      BY <1>2, <2>4, Zenon DEF Paired, StaticSecret
    <3>2. Aligned(a, b)
      BY <1>0, <3>1, Zenon DEF Lockstep
    <3> QED
      BY <1>2, <2>4, <3>2, StayAligned, Zenon
  <2> QED
    BY <2>2, <2>3, <2>4, Zenon
<1> QED
  BY <1>3, <1>4, <1>5, <1>6, <1>8, Zenon DEF KeepsStep

\* The invariant holds at the start.
LEMMA StepInvInit == Init => StepInv
<1> SUFFICES ASSUME Init PROVE StepInv
  BY Zenon
<1>1. NonceInv /\ IdInv
  BY NonceInvInit, Zenon DEF IdInv, NetWasSent, IdsDrawn, IdsDiffer, Init
<1>2. Chained /\ Unmet /\ Pending
  BY Zenon DEF Init, Chained, Unmet, Pending
<1>3. Handshakes
  BY Zenon DEF Init, Handshakes
<1>4. Lockstep
  BY Zenon DEF Init, Lockstep, Paired
<1> QED
  BY <1>1, <1>2, <1>3, <1>4, Zenon DEF StepInv

\* Every step keeps the invariant.
LEMMA StepInvNext == StepInv /\ [Next]_vars => StepInv'
<1> SUFFICES ASSUME StepInv, [Next]_vars PROVE StepInv'
  BY Zenon
<1>0. TypeOK /\ KeyOrigin
  BY Zenon DEF StepInv, NonceInv
<1>1. TypeOK' /\ NonceInv' /\ IdInv'
  BY <1>0, TypeNext, NonceInvNext, IdInvNext, Zenon DEF StepInv
<1>2. KeepsStep
  BY <1>0, <1>1, StepKinds, QuietKeepsStep, SpeakingKeepsStep, RespondingKeepsStep,
     CompletingKeepsStep, AcceptingKeepsStep, Zenon
<1> QED
  BY <1>1, <1>2, Zenon DEF StepInv, KeepsStep

\* The invariant holds throughout.
LEMMA StepInvariant == Spec => []StepInv
  BY StepInvInit, StepInvNext, PTL DEF Spec

-----------------------------------------------------------------------------
(* The properties.                                                         *)

\* A prefix that lacks one entry, as a SubSeq.
LEMMA PrefixIsSubSeq ==
  ASSUME NEW s \in Seq(SUBSET Secrets), NEW t \in Seq(SUBSET Secrets),
         PrefixOf(s, t), Len(t) = Len(s) + 1
  PROVE  s = SubSeq(t, 1, Len(t) - 1)
<1>1. /\ SubSeq(t, 1, Len(t) - 1) \in Seq(SUBSET Secrets)
      /\ Len(SubSeq(t, 1, Len(t) - 1)) = Len(s)
  OBVIOUS
<1>2. \A i \in 1..Len(s) : SubSeq(t, 1, Len(t) - 1)[i] = s[i]
  BY DEF PrefixOf
<1> QED
  BY <1>1, <1>2, SameEntries, Zenon

\* An end that trails is behind in the sense of InStep.
LEMMA TrailsBehind ==
  ASSUME StepInv, NEW p \in Processes, NEW q \in Processes, Paired(p, q), Trails(p, q)
  PROVE  Behind(p, q)
<1>0. TypeOK /\ NonceInv /\ Chained
  BY Zenon DEF StepInv, NonceInv
<1>1. Len(master_secret[p]) = epoch[p] + 1 /\ Len(master_secret[q]) = epoch[q] + 1
  BY <1>0, PairedOnce, Zenon DEF Chained
<1>2. epoch[q] = epoch[p] + 1 /\ pending_rekey[p] # {} /\ PrefixOf(master_secret[p], master_secret[q])
  BY Zenon DEF Trails
<1>3. Len(master_secret[q]) = Len(master_secret[p]) + 1
  BY <1>1, <1>2, Zenon
<1>4. master_secret[p] = SubSeq(master_secret[q], 1, Len(master_secret[q]) - 1)
  BY <1>0, <1>2, <1>3, PrefixIsSubSeq, SessionTypes, Zenon
<1> QED
  BY <1>2, <1>4, Zenon DEF Behind

\* Two paired ends never diverge, however handshakes, repeated requests, lost responses and
\* restarts interleave (start_rekey, handle_session_payload, commit_staged_rekey).
\* Inductive invariant: StepInv.
THEOREM EndsStayInStep == Spec => []InStep
<1>1. StepInv => InStep
  <2> SUFFICES ASSUME StepInv, NEW p \in Processes, NEW q \in Processes, Paired(p, q)
               PROVE  \/ epoch[p] = epoch[q] /\ master_secret[p] = master_secret[q]
                      \/ Behind(p, q)
                      \/ Behind(q, p)
    BY Zenon DEF InStep
  <2>1. Paired(q, p)
    BY Zenon DEF Paired
  <2>2. Aligned(p, q)
    BY Zenon DEF StepInv, Lockstep
  <2> QED
    BY <2>1, <2>2, TrailsBehind, Zenon DEF Aligned
<1> QED
  BY <1>1, StepInvariant, PTL

\* An envelope is sealed under its own header and for its own epoch (encrypt_payload).
LabelledAs(m) ==
    /\ m.ciphertext.nonce = m.nonce
    /\ m.ciphertext.aad = AssociatedData(m.sender, m.recipient, m.message_id, m.epoch)
    /\ m.ciphertext.key.info = {m.sender, m.recipient}
    /\ m.ciphertext.key.epoch = m.epoch

Labelled == \A m \in sent : LabelledAs(m)

\* encrypt_payload seals an envelope under its own header.
LEMMA EncryptLabelled == \A p, k, payload : LabelledAs(Encrypt(p, k, payload))
<1> SUFFICES ASSUME NEW p, NEW k, NEW payload PROVE LabelledAs(Encrypt(p, k, payload))
  BY Zenon
<1> DEFINE e == Encrypt(p, k, payload)
<1>1. /\ e.sender = LocalId[p] /\ e.recipient = PeerId(p) /\ e.epoch = epoch[p]
      /\ e.message_id = FreshId(p, k) /\ e.ciphertext.nonce = e.nonce
  BY Zenon DEF Encrypt, Seal
<1>2. /\ e.ciphertext.aad = AssociatedData(LocalId[p], PeerId(p), FreshId(p, k), epoch[p])
      /\ e.ciphertext.key = CipherFor(p, epoch[p])
  BY Zenon DEF Encrypt, Seal
<1> HIDE DEF e
<1>3. e.ciphertext.key.info = {LocalId[p], PeerId(p)} /\ e.ciphertext.key.epoch = epoch[p]
  <2>1. /\ CipherFor(p, epoch[p]).info = {LocalId[p], PeerId(p)}
        /\ CipherFor(p, epoch[p]).epoch = epoch[p]
    BY Zenon DEF CipherFor, SessionInfo
  <2> QED
    BY <1>2, <2>1, Zenon
<1>4. LabelledAs(e)
  BY <1>1, <1>2, <1>3, Zenon DEF LabelledAs
<1> QED
  BY <1>4, Zenon DEF e

\* Every envelope is made by encrypt_payload.
LEMMA LabelledNext == TypeOK /\ KeyOrigin /\ Labelled /\ [Next]_vars => Labelled'
<1> SUFFICES ASSUME TypeOK, KeyOrigin, Labelled, [Next]_vars, NEW m \in sent'
             PROVE  LabelledAs(m)
  BY Zenon DEF Labelled, LabelledAs, AssociatedData
<1>1. CASE m \in sent
  BY <1>1, Zenon DEF Labelled
<1>2. CASE m \notin sent
  <2>1. \E p, k, payload : m = Encrypt(p, k, payload)
    <3>1. ASSUME NEW p \in Processes, NEW out, Speaks(p, out)
          PROVE  \E k, payload : m = Encrypt(p, k, payload)
      BY <1>2, <3>1, Zenon DEF Speaks
    <3>2. ASSUME NEW p \in Processes, NEW n \in net, NEW out, Responds(p, n, out)
          PROVE  \E k, payload : m = Encrypt(p, k, payload)
      BY <1>2, <3>2, Zenon DEF Responds, Reply
    <3>3. ASSUME \/ Quiet
                 \/ \E p \in Processes, n \in net : \E w : Completes(p, n, w)
                 \/ \E p, q \in Processes : Accepts(p, q)
          PROVE  FALSE
      BY <1>2, <3>3, Zenon DEF Quiet, Completes, Accepts
    <3> QED
      BY <3>1, <3>2, <3>3, StepKinds, Zenon
  <2> QED
    BY <2>1, EncryptLabelled, Zenon
<1> QED
  BY <1>1, <1>2, Zenon

\* Two prefixes of one length are one.
LEMMA PrefixesMeet ==
  ASSUME NEW s \in Seq(SUBSET Secrets), NEW t \in Seq(SUBSET Secrets),
         NEW u \in Seq(SUBSET Secrets),
         PrefixOf(s, u), PrefixOf(t, u), Len(s) = Len(t)
  PROVE  s = t
<1>1. \A i \in 1..Len(s) : t[i] = s[i]
  BY Zenon DEF PrefixOf
<1> QED
  BY <1>1, SameEntries, Zenon

\* The invariant and the labels suffice for reading the current epoch.
LEMMA ReadableNow == StepInv /\ Labelled => CurrentEpochReadable
<1> SUFFICES ASSUME StepInv, Labelled, NEW p \in Processes, NEW q \in Processes, NEW m \in net,
                    Between(q, p, m), m.epoch = epoch[p], NotSeen(p, m)
             PROVE  Decrypts(p, m)
  BY Zenon DEF CurrentEpochReadable
<1>0. TypeOK /\ NonceInv /\ KeyOrigin /\ NetWasSent /\ Chained /\ Handshakes /\ Lockstep
  BY Zenon DEF StepInv, NonceInv, IdInv
<1>1. m \in sent /\ Author(m) = q /\ Paired(p, q)
  BY <1>0, Zenon DEF Between, NetWasSent, Author
<1>2. SealedBy(m) /\ LabelledAs(m) /\ Aligned(p, q)
  BY <1>0, <1>1, Zenon DEF Handshakes, Labelled, Lockstep
<1> DEFINE master == m.ciphertext.key.master
<1>3. /\ m.sender = LocalId[q] /\ m.recipient = PeerId(q)
      /\ Len(master) = epoch[p] + 1 /\ epoch[p] <= epoch[q]
      /\ PrefixOf(master, master_secret[q])
  BY <1>1, <1>2, Zenon DEF SealedBy
<1>4. /\ epoch[p] \in Nat /\ epoch[q] \in Nat
      /\ master_secret[p] \in Seq(SUBSET Secrets) /\ master_secret[q] \in Seq(SUBSET Secrets)
  BY <1>0, SessionTypes, Zenon
<1>5. m.ciphertext.key \in Keys /\ master \in Seq(SUBSET Secrets)
  <2>1. m \in Envelopes
    BY <1>0, <1>1, Zenon DEF TypeOK
  <2>2. m.ciphertext.key \in Keys
    BY <2>1 DEF Envelopes
  <2> QED
    BY <2>2 DEF Keys
<1> HIDE DEF master
<1>6. master = master_secret[p]
  <2>1. PrefixOf(master_secret[p], master_secret[q])
    <3>1. epoch[p] # epoch[q] + 1
      BY <1>3, <1>4
    <3>2. ~Trails(q, p)
      BY <3>1, Zenon DEF Trails
    <3>3. PrefixOf(master_secret[p], master_secret[p])
      BY <1>4, SeqLenNat, PrefixRefl, Zenon
    <3> QED
      BY <1>2, <3>2, <3>3, Zenon DEF Aligned, Trails
  <2>2. Len(master_secret[p]) = epoch[p] + 1
    BY <1>0, <1>1, PairedOnce, Zenon DEF Chained
  <2> QED
    BY <1>3, <1>4, <1>5, <2>1, <2>2, PrefixesMeet, Zenon
<1>7. LocalId[q] = PeerId(p) /\ LocalId[p] = PeerId(q)
  <2>1. ASSUME NEW a \in Processes, NEW b \in Processes, StaticSecret(b) \in peer_public_key[a]
        PROVE  LocalId[b] = PeerId(a)
    <3>1. PICK r \in Processes : StaticSecret(b) = StaticSecret(r) /\ LocalId[r] = PeerId(a)
      BY <1>0, <2>1, Zenon DEF KeyOrigin
    <3> QED
      BY <3>1, StaticSecretInjective, Zenon
  <2>2. StaticSecret(q) \in peer_public_key[p] /\ StaticSecret(p) \in peer_public_key[q]
    BY <1>1, Zenon DEF Paired
  <2> QED
    BY <2>1, <2>2, Zenon
<1>8. FromPeer(p, m)
  BY <1>3, <1>7, Zenon DEF FromPeer
<1>9. m.ciphertext.key = CipherFor(p, m.epoch)
  <2>1. m.ciphertext.key.info = SessionInfo(p)
    <3>1. m.ciphertext.key.info = {PeerId(p), LocalId[p]}
      BY <1>2, <1>3, <1>7, Zenon DEF LabelledAs
    <3> QED
      BY <3>1, Zenon DEF SessionInfo
  <2>2. m.ciphertext.key.master = master_secret[p] /\ m.ciphertext.key.epoch = m.epoch
    BY <1>2, <1>6, Zenon DEF LabelledAs, master
  <2>3. ASSUME NEW k \in Keys
        PROVE  k = [master |-> k.master, info |-> k.info, epoch |-> k.epoch]
    BY DEF Keys
  <2> QED
    BY <1>5, <2>1, <2>2, <2>3, Zenon DEF CipherFor
<1>10. Authentic(p, m)
  BY <1>2, <1>9, Zenon DEF Authentic, CanOpen, LabelledAs
<1> QED
  BY <1>8, <1>10, Zenon DEF Decrypts, KnownEpoch

\* Rotation never makes an end unable to read its own epoch: what the paired peer sealed in
\* it, and was not accepted before, decrypts (cipher_for, decrypt, encrypt_payload).
THEOREM OwnEpochReadable == Spec => []CurrentEpochReadable
<1>1. Init => Labelled
  BY Zenon DEF Init, Labelled
<1>2. StepInv /\ Labelled /\ [Next]_vars => Labelled'
  BY LabelledNext, Zenon DEF StepInv, NonceInv
<1> QED
  BY <1>1, <1>2, StepInvariant, ReadableNow, PTL DEF Spec

-----------------------------------------------------------------------------
(* Freshness of the secrets that rotations mix in.                         *)

\* The counter of drawn values has passed a secret; a static one counts as number 0.
WasDrawn(s) == s[3] <= drawn[s[2]]

DrawnLinks ==
    \A p \in Processes : \A i \in 1..Len(master_secret[p]) :
        \A s \in master_secret[p][i] : WasDrawn(s)
DrawnPending == \A p \in Processes : \A w \in pending_rekey[p] : WasDrawn(w.ephemeral_secret)
DrawnOffers ==
    \A m \in sent : m.ciphertext.payload.type # "Chat" =>
        WasDrawn(m.ciphertext.payload.ephemeral_public_key)

SecretsDrawn == DrawnLinks /\ DrawnPending /\ DrawnOffers

DrawnGrows == \A q \in Processes : drawn[q] \in Nat /\ drawn'[q] \in Nat /\ drawn[q] <= drawn'[q]

\* Adding to one counter.
LEMMA CounterGrows ==
  ASSUME NEW f \in [Processes -> Nat], NEW p \in Processes, NEW k \in Nat, NEW q \in Processes
  PROVE  f[q] <= [f EXCEPT ![p] = f[p] + k][q]
<1>1. f[q] \in Nat
  BY Zenon
<1>2. f[q] <= f[q] + k /\ f[q] <= f[q]
  BY <1>1
<1>3. [f EXCEPT ![p] = f[p] + k][q] = IF q = p THEN f[p] + k ELSE f[q]
  BY Zenon
<1> QED
  BY <1>2, <1>3, Zenon

\* No step takes back a drawn value.
LEMMA DrawnGrowsNext == TypeOK /\ TypeOK' /\ [Next]_vars => DrawnGrows
<1> SUFFICES ASSUME TypeOK, TypeOK', [Next]_vars PROVE DrawnGrows
  BY Zenon
<1>0. /\ drawn \in [Processes -> Nat]
      /\ \A q \in Processes : drawn[q] \in Nat /\ drawn'[q] \in Nat /\ drawn[q] <= drawn[q]
  <2>1. \A q \in Processes : drawn[q] \in Nat /\ drawn'[q] \in Nat
    BY Zenon DEF TypeOK
  <2> QED
    BY <2>1, NatOrder, Zenon DEF TypeOK
<1>1. CASE UNCHANGED drawn
  BY <1>0, <1>1, Zenon DEF DrawnGrows
<1>2. ASSUME NEW p \in Processes, NEW k \in Nat, drawn' = [drawn EXCEPT ![p] = drawn[p] + k]
      PROVE  DrawnGrows
  BY <1>0, <1>2, CounterGrows, Zenon DEF DrawnGrows
<1>3. ASSUME NEW p \in Processes, ReadLine(p)
      PROVE  DrawnGrows
  <2>1. CASE RekeyCommandFails(p) \/ LineFails(p)
    BY <1>1, <2>1, Zenon DEF RekeyCommandFails, LineFails, cryptoVars
  <2>2. CASE ChatLine(p) \/ RekeyCommand(p)
    <3>1. drawn' = [drawn EXCEPT ![p] = drawn[p] + 1]
      BY <2>2, Zenon DEF ChatLine, RekeyCommand, AdvanceNonce
    <3> QED
      BY <1>2, <3>1, Zenon
  <2>3. CASE ChatLineThenRekey(p) \/ RequestNotSent(p)
    <3>1. drawn' = [drawn EXCEPT ![p] = drawn[p] + 2]
      BY <2>3, Zenon DEF ChatLineThenRekey, RequestNotSent, EncryptLineAndRequest, AdvanceNonce
    <3> QED
      BY <1>2, <3>1, Zenon
  <2> QED
    BY <1>3, <2>1, <2>2, <2>3, Zenon DEF ReadLine
<1>4. ASSUME NEW p \in Processes, NEW m \in net, Handle(p, m)
      PROVE  DrawnGrows
  <2>1. CASE ReceiveRekeyRequest(p, m) \/ ResponseNotSent(p, m) \/ StageWithoutReply(p, m)
    <3>1. drawn' = [drawn EXCEPT ![p] = drawn[p] + 1]
      BY <2>1, Zenon
         DEF ReceiveRekeyRequest, ResponseNotSent, StageWithoutReply, RotateAsResponder, AdvanceNonce
    <3> QED
      BY <1>2, <3>1, Zenon
  <2>2. CASE \/ AcceptPeerKey(p, m) \/ IgnorePeerKey(p, m) \/ RejectEnvelope(p, m)
             \/ ReceiveChat(p, m) \/ ReceiveRekeyResponse(p, m) \/ RefuseHandshake(p, m)
    BY <1>1, <2>2, Zenon
       DEF AcceptPeerKey, NewCryptoSession, IgnorePeerKey, RejectEnvelope, ReceiveChat,
           ReceiveRekeyResponse, RefuseHandshake, cryptoVars
  <2> QED
    BY <1>4, <2>1, <2>2, Zenon DEF Handle
<1>5. ASSUME NEW p \in Processes, Start(p) \/ RetryPeerKey(p) \/ Quit(p)
      PROVE  DrawnGrows
  BY <1>1, <1>5, Zenon DEF Start, RetryPeerKey, Quit, cryptoVars
<1>6. ASSUME NEW m \in net, RelayRefuses(m)
      PROVE  DrawnGrows
  BY <1>1, <1>6, Zenon DEF RelayRefuses, cryptoVars
<1>7. CASE UNCHANGED vars
  BY <1>1, <1>7, Zenon DEF vars, cryptoVars
<1> QED
  BY <1>3, <1>4, <1>5, <1>6, <1>7, Zenon DEF Next, Receive

\* What was drawn stays drawn.
LEMMA DrawnStays ==
  ASSUME DrawnGrows, NEW s \in Secrets, WasDrawn(s)
  PROVE  WasDrawn(s)'
<1>1. s[2] \in Processes /\ s[3] \in Nat
  BY DEF Secrets
<1>2. /\ drawn[s[2]] \in Nat /\ drawn'[s[2]] \in Nat /\ drawn[s[2]] <= drawn'[s[2]]
      /\ s[3] <= drawn[s[2]]
  BY <1>1, Zenon DEF DrawnGrows, WasDrawn
<1>3. s[3] <= drawn'[s[2]]
  BY <1>1, <1>2
<1> QED
  BY <1>3, Zenon DEF WasDrawn

\* The values a step draws.
LEMMA FreshIsDrawn ==
  ASSUME TypeOK', NEW p \in Processes, NEW k, drawn'[p] = drawn[p] + k, NEW s, s = FreshSecret(p, k)
  PROVE  WasDrawn(s)'
<1>1. s[2] = p /\ s[3] = drawn[p] + k
  BY Zenon DEF FreshSecret, EphemeralSecret
<1>2. drawn'[p] \in Nat
  BY Zenon DEF TypeOK
<1>3. drawn'[p] <= drawn'[p]
  BY <1>2, NatOrder, Zenon
<1>4. s[3] <= drawn'[s[2]]
  BY <1>1, <1>3, Zenon
<1> QED
  BY <1>4, Zenon DEF WasDrawn

\* The secrets a process holds or has offered are drawn after the step, too.
LEMMA OldDrawn ==
  ASSUME TypeOK, SecretsDrawn, DrawnGrows
  PROVE  /\ \A q \in Processes : \A i \in 1..Len(master_secret[q]) :
              \A s \in master_secret[q][i] : WasDrawn(s)'
         /\ \A q \in Processes : \A w \in pending_rekey[q] : WasDrawn(w.ephemeral_secret)'
         /\ \A m \in sent : m.ciphertext.payload.type # "Chat" =>
              WasDrawn(m.ciphertext.payload.ephemeral_public_key)'
<1>1. ASSUME NEW q \in Processes, NEW i \in 1..Len(master_secret[q]), NEW s \in master_secret[q][i]
      PROVE  WasDrawn(s)'
  <2>1. master_secret[q] \in Seq(SUBSET Secrets)
    BY SessionTypes, Zenon
  <2>2. s \in Secrets
    BY <1>1, <2>1
  <2>3. WasDrawn(s)
    BY <1>1, Zenon DEF SecretsDrawn, DrawnLinks
  <2> QED
    BY <2>2, <2>3, DrawnStays, Zenon
<1>2. ASSUME NEW q \in Processes, NEW w \in pending_rekey[q]
      PROVE  WasDrawn(w.ephemeral_secret)'
  <2> DEFINE s == w.ephemeral_secret
  <2>1. w \in [rekey_id : Ids, ephemeral_secret : Secrets]
    BY <1>2, Zenon DEF TypeOK
  <2>2. s \in Secrets
    BY <2>1
  <2>3. WasDrawn(s)
    BY <1>2, Zenon DEF SecretsDrawn, DrawnPending
  <2> HIDE DEF s
  <2>4. WasDrawn(s)'
    BY <2>2, <2>3, DrawnStays, Zenon
  <2> QED
    BY <2>4, Zenon DEF s, WasDrawn
<1>3. ASSUME NEW m \in sent, m.ciphertext.payload.type # "Chat"
      PROVE  WasDrawn(m.ciphertext.payload.ephemeral_public_key)'
  <2> DEFINE s == m.ciphertext.payload.ephemeral_public_key
  <2>1. m \in Envelopes
    BY <1>3, Zenon DEF TypeOK
  <2>2. m.ciphertext.payload \in Payloads
    BY <2>1 DEF Envelopes
  <2>3. s \in Secrets
    BY <1>3, <2>2 DEF Payloads, Chat
  <2>4. WasDrawn(s)
    BY <1>3, Zenon DEF SecretsDrawn, DrawnOffers
  <2> HIDE DEF s
  <2>5. WasDrawn(s)'
    BY <2>3, <2>4, DrawnStays, Zenon
  <2> QED
    BY <2>5, Zenon DEF s, WasDrawn
<1> QED
  BY <1>1, <1>2, <1>3, Zenon

\* An entry of Append(s, x) is x or an entry of s.
LEMMA AppendEntries ==
  \A s \in Seq(SUBSET Secrets), x \in SUBSET Secrets : \A i \in 1..Len(Append(s, x)) :
      Append(s, x)[i] = x \/ (i \in 1..Len(s) /\ Append(s, x)[i] = s[i])
  OBVIOUS

\* A rotation mixes in a link of drawn secrets.
LEMMA RotatedDrawn ==
  ASSUME TypeOK, SecretsDrawn, DrawnGrows, NEW p \in Processes, NEW link \in SUBSET Secrets,
         Rotated(p, link), \A s \in link : WasDrawn(s)'
  PROVE  DrawnLinks'
<1> SUFFICES ASSUME NEW q \in Processes, NEW i \in 1..Len(master_secret'[q]),
                    NEW s \in master_secret'[q][i]
             PROVE  WasDrawn(s)'
  BY Zenon DEF DrawnLinks, WasDrawn
<1>1. CASE q # p
  <2>1. master_secret'[q] = master_secret[q]
    BY <1>1, Zenon DEF Rotated, TypeOK
  <2> QED
    BY <2>1, OldDrawn, Zenon
<1>2. CASE q = p
  <2>1. master_secret'[p] = Append(master_secret[p], link)
    BY Zenon DEF Rotated, TypeOK
  <2>2. \A x \in Seq(SUBSET Secrets) : \A j \in 1..Len(Append(x, link)) :
          Append(x, link)[j] = link \/ (j \in 1..Len(x) /\ Append(x, link)[j] = x[j])
    BY AppendEntries, Zenon
  <2>3. \/ master_secret'[p][i] = link
        \/ i \in 1..Len(master_secret[p]) /\ master_secret'[p][i] = master_secret[p][i]
    <3>1. master_secret[p] \in Seq(SUBSET Secrets)
      BY SessionTypes, Zenon
    <3>2. i \in 1..Len(Append(master_secret[p], link))
      BY <1>2, <2>1, Zenon
    <3>3. \/ Append(master_secret[p], link)[i] = link
          \/ /\ i \in 1..Len(master_secret[p])
             /\ Append(master_secret[p], link)[i] = master_secret[p][i]
      BY <2>2, <3>1, <3>2, Zenon
    <3> QED
      BY <2>1, <3>3, Zenon
  <2>4. CASE master_secret'[p][i] = link
    BY <1>2, <2>4, Zenon
  <2>5. CASE i \in 1..Len(master_secret[p]) /\ master_secret'[p][i] = master_secret[p][i]
    <3>1. s \in master_secret[p][i]
      BY <1>2, <2>5, Zenon
    <3> QED
      BY <2>5, <3>1, OldDrawn, Zenon
  <2> QED
    BY <2>3, <2>4, <2>5, Zenon
<1> QED
  BY <1>1, <1>2, Zenon

\* Every step keeps to drawn secrets.
LEMMA SecretsDrawnNext == StepInv /\ SecretsDrawn /\ [Next]_vars => SecretsDrawn'
<1> SUFFICES ASSUME StepInv, SecretsDrawn, [Next]_vars PROVE SecretsDrawn'
  BY Zenon
<1>0. TypeOK /\ TypeOK' /\ KeyOrigin /\ DrawnGrows
  BY TypeNext, DrawnGrowsNext, Zenon DEF StepInv, NonceInv
<1>a. /\ \A q \in Processes : \A i \in 1..Len(master_secret[q]) :
           \A s \in master_secret[q][i] : WasDrawn(s)'
      /\ \A q \in Processes : \A w \in pending_rekey[q] : WasDrawn(w.ephemeral_secret)'
      /\ \A m \in sent : m.ciphertext.payload.type # "Chat" =>
           WasDrawn(m.ciphertext.payload.ephemeral_public_key)'
  BY <1>0, OldDrawn, Zenon
<1>b. UNCHANGED master_secret => DrawnLinks'
  BY <1>a, Zenon DEF DrawnLinks, WasDrawn
<1>c. (\A q \in Processes : pending_rekey'[q] \subseteq pending_rekey[q]) => DrawnPending'
  BY <1>a, Zenon DEF DrawnPending, WasDrawn
<1>d. UNCHANGED sent => DrawnOffers'
  BY <1>a, Zenon DEF DrawnOffers, WasDrawn
<1>1. CASE Quiet
  BY <1>1, <1>b, <1>c, <1>d, Zenon DEF Quiet, SecretsDrawn
<1>2. ASSUME NEW p \in Processes, NEW out, Speaks(p, out) PROVE SecretsDrawn'
  <2>1. DrawnLinks'
    BY <1>2, <1>b, Zenon DEF Speaks
  <2>2. DrawnPending'
    <3>1. CASE UNCHANGED pending_rekey
      BY <1>c, <3>1, Zenon
    <3>2. ASSUME NEW k, StartRekey(p, k), drawn'[p] = drawn[p] + k PROVE DrawnPending'
      <4> SUFFICES ASSUME NEW q \in Processes, NEW w \in pending_rekey'[q]
                   PROVE  WasDrawn(w.ephemeral_secret)'
        BY Zenon DEF DrawnPending, WasDrawn
      <4>1. CASE q # p
        <5>1. w \in pending_rekey[q]
          BY <1>0, <3>2, <4>1, Zenon DEF StartRekey, TypeOK
        <5> QED
          BY <1>a, <5>1, Zenon
      <4>2. CASE q = p
        <5>1. w = [rekey_id |-> FreshId(p, k), ephemeral_secret |-> FreshSecret(p, k)]
          BY <1>0, <3>2, <4>2, Zenon DEF StartRekey, TypeOK
        <5>2. w.ephemeral_secret = FreshSecret(p, k)
          BY <5>1, Zenon
        <5>3. ASSUME NEW s, s = FreshSecret(p, k) PROVE WasDrawn(s)'
          BY <1>0, <3>2, <5>3, FreshIsDrawn, Zenon
        <5> QED
          BY <5>2, <5>3, Zenon DEF WasDrawn
      <4> QED
        BY <4>1, <4>2, Zenon
    <3> QED
      BY <1>2, <3>1, <3>2, Zenon DEF Speaks
  <2>3. DrawnOffers'
    <3> SUFFICES ASSUME NEW m \in sent', m.ciphertext.payload.type # "Chat"
                 PROVE  WasDrawn(m.ciphertext.payload.ephemeral_public_key)'
      BY Zenon DEF DrawnOffers, WasDrawn
    <3>1. CASE m \in sent
      BY <1>a, <3>1, Zenon
    <3>2. CASE m \in out
      <4>1. PICK k, payload :
              /\ m = Encrypt(p, k, payload)
              /\ \/ payload = Chat
                 \/ /\ payload = RekeyRequest(FreshId(p, k), FreshSecret(p, k))
                    /\ drawn'[p] = drawn[p] + k
        BY <1>2, <3>2, Zenon DEF Speaks
      <4>2. m.ciphertext.payload = payload
        BY <4>1, Zenon DEF Encrypt, Seal
      <4>3. payload = RekeyRequest(FreshId(p, k), FreshSecret(p, k)) /\ drawn'[p] = drawn[p] + k
        <5>1. Chat.type = "Chat"
          BY Zenon DEF Chat
        <5> QED
          BY <4>1, <4>2, <5>1, Zenon
      <4>4. m.ciphertext.payload.ephemeral_public_key = FreshSecret(p, k)
        <5>1. RekeyRequest(FreshId(p, k), FreshSecret(p, k)).ephemeral_public_key = FreshSecret(p, k)
          BY Zenon DEF RekeyRequest
        <5> QED
          BY <4>2, <4>3, <5>1, Zenon
      <4>5. ASSUME NEW s, s = FreshSecret(p, k) PROVE WasDrawn(s)'
        BY <1>0, <4>3, <4>5, FreshIsDrawn, Zenon
      <4> QED
        BY <4>4, <4>5, Zenon DEF WasDrawn
    <3> QED
      BY <1>2, <3>1, <3>2, Zenon DEF Speaks
  <2> QED
    BY <2>1, <2>2, <2>3, Zenon DEF SecretsDrawn
<1>3. ASSUME NEW p \in Processes, NEW m \in net, NEW out, Responds(p, m, out) PROVE SecretsDrawn'
  <2> DEFINE public == m.ciphertext.payload.ephemeral_public_key
             link == {FreshSecret(p, 1), public}
  <2>1. /\ Rotated(p, link) /\ UNCHANGED pending_rekey /\ drawn'[p] = drawn[p] + 1
        /\ out \subseteq {Reply(p, m.ciphertext.payload)} /\ sent' = sent \cup out
    BY <1>3, Zenon DEF Responds
  <2>2. m \in sent /\ m.ciphertext.payload.type = "RekeyRequest" /\ link \in SUBSET Secrets
    BY <1>3, ResponderIsEven, Zenon
  <2>3. ASSUME NEW s, s = FreshSecret(p, 1) PROVE WasDrawn(s)'
    BY <1>0, <2>1, <2>3, FreshIsDrawn, Zenon
  <2>4. ASSUME NEW s, s = public PROVE WasDrawn(s)'
    <3>1. m.ciphertext.payload.type # "Chat"
      BY <2>2
    <3>2. WasDrawn(m.ciphertext.payload.ephemeral_public_key)'
      BY <1>a, <2>2, <3>1, Zenon
    <3> QED
      BY <2>4, <3>2, Zenon DEF WasDrawn
  <2>5. \A s \in link : WasDrawn(s)'
    BY <2>3, <2>4, Zenon
  <2> HIDE DEF link, public
  <2>6. DrawnLinks'
    BY <1>0, <2>1, <2>2, <2>5, RotatedDrawn, Zenon
  <2>7. DrawnPending'
    BY <1>c, <2>1, Zenon
  <2>8. DrawnOffers'
    <3> SUFFICES ASSUME NEW n \in sent', n.ciphertext.payload.type # "Chat"
                 PROVE  WasDrawn(n.ciphertext.payload.ephemeral_public_key)'
      BY Zenon DEF DrawnOffers, WasDrawn
    <3>1. CASE n \in sent
      BY <1>a, <3>1, Zenon
    <3>2. CASE n \in out
      <4> DEFINE response == RekeyResponse(m.ciphertext.payload.rekey_id, FreshSecret(p, 1))
      <4>1. n = Encrypt(p, 1, response)
        BY <2>1, <3>2, Zenon DEF Reply
      <4>2. response.ephemeral_public_key = FreshSecret(p, 1)
        BY Zenon DEF RekeyResponse
      <4> HIDE DEF response
      <4>3. n.ciphertext.payload = response
        BY <4>1, Zenon DEF Encrypt, Seal
      <4>4. n.ciphertext.payload.ephemeral_public_key = FreshSecret(p, 1)
        BY <4>2, <4>3, Zenon
      <4> QED
        BY <2>3, <4>4, Zenon DEF WasDrawn
    <3> QED
      BY <2>1, <3>1, <3>2, Zenon
  <2> QED
    BY <2>6, <2>7, <2>8, Zenon DEF SecretsDrawn
<1>4. ASSUME NEW p \in Processes, NEW m \in net, NEW w, Completes(p, m, w) PROVE SecretsDrawn'
  <2> DEFINE public == m.ciphertext.payload.ephemeral_public_key
             link == {w.ephemeral_secret, public}
  <2>1. /\ Rotated(p, link) /\ pending_rekey' = [pending_rekey EXCEPT ![p] = {}]
        /\ UNCHANGED sent /\ w \in pending_rekey[p] /\ Opens(p, m)
        /\ m.ciphertext.payload.type = "RekeyResponse"
    BY <1>4, Zenon DEF Completes, OpensAs
  <2>2. m \in sent /\ link \in SUBSET Secrets
    BY <1>4, <2>1, CompletionCatchesUp, OpenedByPeer, Zenon
  <2>3. ASSUME NEW s, s = w.ephemeral_secret PROVE WasDrawn(s)'
    <3>1. WasDrawn(w.ephemeral_secret)'
      BY <1>a, <2>1, Zenon
    <3> QED
      BY <2>3, <3>1, Zenon DEF WasDrawn
  <2>4. ASSUME NEW s, s = public PROVE WasDrawn(s)'
    <3>1. m.ciphertext.payload.type # "Chat"
      BY <2>1
    <3>2. WasDrawn(m.ciphertext.payload.ephemeral_public_key)'
      BY <1>a, <2>2, <3>1, Zenon
    <3> QED
      BY <2>4, <3>2, Zenon DEF WasDrawn
  <2>5. \A s \in link : WasDrawn(s)'
    BY <2>3, <2>4, Zenon
  <2> HIDE DEF link, public
  <2>6. DrawnLinks'
    BY <1>0, <2>1, <2>2, <2>5, RotatedDrawn, Zenon
  <2>7. DrawnPending'
    <3>1. \A q \in Processes : pending_rekey'[q] \subseteq pending_rekey[q]
      BY <1>0, <2>1, Zenon DEF TypeOK
    <3> QED
      BY <1>c, <3>1, Zenon
  <2>8. DrawnOffers'
    BY <1>d, <2>1, Zenon
  <2> QED
    BY <2>6, <2>7, <2>8, Zenon DEF SecretsDrawn
<1>5. ASSUME NEW p \in Processes, NEW q \in Processes, Accepts(p, q) PROVE SecretsDrawn'
  <2> DEFINE link == {StaticSecret(p), StaticSecret(q)}
  <2>1. /\ master_secret'[p] = <<link>> /\ pending_rekey'[p] = {}
        /\ \A o \in Processes : o # p =>
             /\ master_secret'[o] = master_secret[o] /\ pending_rekey'[o] = pending_rekey[o]
    BY <1>0, <1>5, AcceptsFacts, Zenon
  <2>2. ASSUME NEW r \in Processes, NEW s, s = StaticSecret(r) PROVE WasDrawn(s)'
    <3>1. s[2] = r /\ s[3] = 0
      BY <2>2, Zenon DEF StaticSecret
    <3>2. drawn'[r] \in Nat
      BY <1>0, Zenon DEF TypeOK
    <3>3. 0 <= drawn'[r]
      BY <3>2
    <3>4. s[3] <= drawn'[s[2]]
      BY <3>1, <3>3, Zenon
    <3> QED
      BY <3>4, Zenon DEF WasDrawn
  <2>3. \A s \in link : WasDrawn(s)'
    BY <2>2, Zenon
  <2> HIDE DEF link
  <2>4. DrawnLinks'
    <3> SUFFICES ASSUME NEW o \in Processes, NEW i \in 1..Len(master_secret'[o]),
                        NEW s \in master_secret'[o][i]
                 PROVE  WasDrawn(s)'
      BY Zenon DEF DrawnLinks, WasDrawn
    <3>1. CASE o # p
      <4>1. master_secret'[o] = master_secret[o]
        BY <2>1, <3>1, Zenon
      <4> QED
        BY <1>a, <4>1, Zenon
    <3>2. CASE o = p
      <4>1. \A j \in 1..Len(<<link>>) : <<link>>[j] = link
        OBVIOUS
      <4>2. master_secret'[p][i] = link
        BY <2>1, <3>2, <4>1, Zenon
      <4> QED
        BY <2>3, <3>2, <4>2, Zenon
    <3> QED
      BY <3>1, <3>2, Zenon
  <2>5. DrawnPending'
    <3>1. \A o \in Processes : pending_rekey'[o] \subseteq pending_rekey[o]
      BY <2>1, Zenon
    <3> QED
      BY <1>c, <3>1, Zenon
  <2>6. DrawnOffers'
    BY <1>5, <1>d, Zenon DEF Accepts
  <2> QED
    BY <2>4, <2>5, <2>6, Zenon DEF SecretsDrawn
<1> QED
  BY <1>0, <1>1, <1>2, <1>3, <1>4, <1>5, StepKinds, Zenon

-----------------------------------------------------------------------------
(* The masters are chains of the abstract ratchet.                         *)

\* A prefix that lacks one entry, in the terms of the ratchet.
LEMMA PrefixOneAhead ==
  ASSUME NEW s \in Seq(SUBSET Secrets), NEW t \in Seq(SUBSET Secrets),
         PrefixOf(s, t), Len(t) = Len(s) + 1
  PROVE  KeyRatchet!OneAhead(t, s)
<1>1. SubSeq(t, 1, Len(s)) \in Seq(SUBSET Secrets) /\ Len(SubSeq(t, 1, Len(s))) = Len(s)
  OBVIOUS
<1>2. \A i \in 1..Len(s) : s[i] = SubSeq(t, 1, Len(s))[i]
  BY DEF PrefixOf
<1>3. SubSeq(t, 1, Len(s)) = s
  BY <1>1, <1>2, SameEntries, Zenon
<1> QED
  BY <1>3, Zenon DEF KeyRatchet!OneAhead

\* An established master is not empty.
LEMMA ChainOpened ==
  ASSUME TypeOK, Chained, NEW p \in Processes, peer_public_key[p] # {}
  PROVE  master_secret[p] # <<>>
<1>1. Len(master_secret[p]) = epoch[p] + 1 /\ epoch[p] \in Nat
  BY SessionTypes, Zenon DEF Chained
<1>2. Len(master_secret[p]) # 0 /\ Len(<<>>) = 0
  BY <1>1
<1> QED
  BY <1>2, Zenon

\* CryptoSession::new opens a chain.
LEMMA AcceptingOpens ==
  ASSUME StepInv, NEW p \in Processes, NEW q \in Processes, Accepts(p, q)
  PROVE  KeyRatchet!Open(p)
<1> DEFINE link == {StaticSecret(p), StaticSecret(q)}
<1>0. TypeOK /\ KeyOrigin /\ Chained
  BY Zenon DEF StepInv, NonceInv
<1>1. p # q /\ peer_public_key[p] = {} /\ master_secret'[p] = <<link>>
  BY <1>0, AcceptsFacts, Zenon
<1>2. master_secret[p] = <<>>
  BY <1>0, <1>1, Zenon DEF Chained
<1>3. Len(master_secret'[p]) = 1 /\ master_secret'[p][1] = link
  <2>1. Len(<<link>>) = 1 /\ <<link>>[1] = link
    OBVIOUS
  <2> QED
    BY <1>1, <2>1, Zenon
<1>4. ASSUME NEW o \in Processes, master_secret[o] # <<>>, master_secret[o][1] = link
      PROVE  master_secret[o] = <<link>>
  <2>1. peer_public_key[o] # {}
    BY <1>0, <1>4, Zenon DEF Chained
  <2>2. PICK k \in peer_public_key[o] : TRUE
    BY <2>1, Zenon
  <2>3. {StaticSecret(o), k} = {StaticSecret(p), StaticSecret(q)}
    BY <1>0, <1>4, <2>2, Zenon DEF KeyOrigin
  <2>4. StaticSecret(o) # StaticSecret(p)
    <3>1. o # p
      BY <1>1, <2>1, Zenon
    <3> QED
      BY <3>1, StaticSecretInjective, Zenon
  <2>5. StaticSecret(o) = StaticSecret(q) /\ k = StaticSecret(p)
    BY <2>3, <2>4, Zenon
  <2>6. o = q
    BY <2>5, StaticSecretInjective, Zenon
  <2> QED
    BY <1>1, <2>2, <2>5, <2>6, PeerHasWaited, Zenon
<1>5. master_secret' = [master_secret EXCEPT ![p] = master_secret'[p]]
  BY <1>1, Zenon DEF Accepts
<1> HIDE DEF link
<1> QED
  BY <1>1, <1>2, <1>3, <1>4, <1>5, Zenon DEF KeyRatchet!Open, KeyRatchet!Grows

\* The responder leads, with a secret nobody has used.
LEMMA RespondingLeads ==
  ASSUME StepInv, TypeOK', SecretsDrawn, NEW p \in Processes, NEW m \in net, NEW out,
         Responds(p, m, out)
  PROVE  KeyRatchet!Lead(p)
<1> DEFINE link == {FreshSecret(p, 1), m.ciphertext.payload.ephemeral_public_key}
<1>0. TypeOK /\ Chained
  BY Zenon DEF StepInv, NonceInv
<1>1. /\ Author(m) \in Processes \ {p} /\ master_secret[Author(m)] = master_secret[p]
      /\ peer_public_key[p] # {} /\ link \in SUBSET Secrets
  BY ResponderIsEven, Zenon
<1>2. Rotated(p, link)
  BY Zenon DEF Responds
<1>3. ~KeyRatchet!Used(link)
  <2> SUFFICES ASSUME NEW q \in Processes, NEW i \in 1..Len(master_secret[q]),
                      master_secret[q][i] = link
               PROVE  FALSE
    BY Zenon DEF KeyRatchet!Used
  <2>1. WasDrawn(FreshSecret(p, 1))
    BY Zenon DEF SecretsDrawn, DrawnLinks
  <2>2. drawn[p] + 1 <= drawn[p]
    BY <2>1, Zenon DEF WasDrawn, FreshSecret, EphemeralSecret
  <2>3. drawn[p] \in Nat
    BY <1>0, Zenon DEF TypeOK
  <2> QED
    BY <2>2, <2>3
<1> HIDE DEF link
<1>4. /\ Len(master_secret'[p]) = epoch[p] + 2
      /\ PrefixOf(master_secret[p], master_secret'[p])
      /\ master_secret'[p][epoch[p] + 2] = link
  BY <1>0, <1>1, <1>2, RotatedFacts, Zenon
<1>5. /\ master_secret[p] \in Seq(SUBSET Secrets) /\ master_secret'[p] \in Seq(SUBSET Secrets)
      /\ epoch[p] \in Nat /\ Len(master_secret[p]) = epoch[p] + 1
  BY <1>0, <1>1, Zenon DEF TypeOK, Chained
<1>6. KeyRatchet!OneAhead(master_secret'[p], master_secret[p])
  <2>1. Len(master_secret'[p]) = Len(master_secret[p]) + 1
    BY <1>4, <1>5
  <2> QED
    BY <1>4, <1>5, <2>1, PrefixOneAhead, Zenon
<1>7. ~KeyRatchet!Used(master_secret'[p][Len(master_secret'[p])])
  BY <1>3, <1>4, Zenon
<1>8. master_secret' = [master_secret EXCEPT ![p] = master_secret'[p]]
  BY <1>0, <1>2, Zenon DEF Rotated, TypeOK
<1>9. master_secret[p] # <<>>
  BY <1>0, <1>1, ChainOpened, Zenon
<1> QED
  BY <1>1, <1>6, <1>7, <1>8, <1>9, Zenon DEF KeyRatchet!Lead, KeyRatchet!Grows

\* The initiator follows.
LEMMA CompletingFollows ==
  ASSUME StepInv, NEW p \in Processes, NEW m \in net, NEW w, Completes(p, m, w)
  PROVE  KeyRatchet!Follow(p)
<1> DEFINE r == Author(m)
<1>0. TypeOK /\ Chained
  BY Zenon DEF StepInv, NonceInv
<1>1. Opens(p, m)
  BY Zenon DEF Completes, OpensAs
<1>2. r \in Processes \ {p} /\ peer_public_key[p] # {} /\ peer_public_key[r] # {}
  BY <1>1, OpenedPair, Zenon
<1>3. Trails(p, r) /\ master_secret' = [master_secret EXCEPT ![p] = master_secret[r]]
  BY CompletionCatchesUp, Zenon
<1>4. /\ Len(master_secret[p]) = epoch[p] + 1 /\ Len(master_secret[r]) = epoch[r] + 1
      /\ epoch[r] = epoch[p] + 1 /\ PrefixOf(master_secret[p], master_secret[r])
  BY <1>0, <1>2, <1>3, Zenon DEF Chained, Trails
<1>5. Len(master_secret[r]) = Len(master_secret[p]) + 1
  BY <1>4, Zenon
<1>6. master_secret[p] \in Seq(SUBSET Secrets) /\ master_secret[r] \in Seq(SUBSET Secrets)
  BY <1>0, <1>2, Zenon DEF TypeOK
<1>7. KeyRatchet!OneAhead(master_secret[r], master_secret[p])
  BY <1>4, <1>5, <1>6, PrefixOneAhead, Zenon
<1>8. master_secret[p] # <<>>
  BY <1>0, <1>2, ChainOpened, Zenon
<1> HIDE DEF r
<1> QED
  BY <1>2, <1>3, <1>7, <1>8, Zenon DEF KeyRatchet!Follow, KeyRatchet!Grows

\* Every change of a master is a step of the ratchet: opened once, led by the responder with
\* a fresh secret, followed by the initiator (CryptoSession::new, commit_staged_rekey,
\* apply_next_master).
THEOREM RatchetImplemented == Spec => ImplementsRatchet
<1>1. Init => KeyRatchet!Init
  BY Zenon DEF Init, KeyRatchet!Init
<1>2. Init => SecretsDrawn
  <2> SUFFICES ASSUME Init PROVE SecretsDrawn
    BY Zenon
  <2>1. DrawnLinks
    BY DEF Init, DrawnLinks
  <2> QED
    BY <2>1, Zenon DEF Init, SecretsDrawn, DrawnPending, DrawnOffers
<1>3. StepInv /\ SecretsDrawn /\ [Next]_vars => [KeyRatchet!Next]_master_secret
  <2> SUFFICES ASSUME StepInv, SecretsDrawn, [Next]_vars
               PROVE  [KeyRatchet!Next]_master_secret
    BY Zenon
  <2>0. TypeOK /\ TypeOK' /\ KeyOrigin
    BY TypeNext, Zenon DEF StepInv, NonceInv
  <2>1. CASE Quiet \/ \E p \in Processes : \E out : Speaks(p, out)
    BY <2>1, Zenon DEF Quiet, Speaks
  <2>2. ASSUME NEW p \in Processes, NEW m \in net, NEW out, Responds(p, m, out)
        PROVE  KeyRatchet!Next
    BY <2>0, <2>2, RespondingLeads, Zenon DEF KeyRatchet!Next
  <2>3. ASSUME NEW p \in Processes, NEW m \in net, NEW w, Completes(p, m, w)
        PROVE  KeyRatchet!Next
    BY <2>3, CompletingFollows, Zenon DEF KeyRatchet!Next
  <2>4. ASSUME NEW p \in Processes, NEW q \in Processes, Accepts(p, q)
        PROVE  KeyRatchet!Next
    BY <2>4, AcceptingOpens, Zenon DEF KeyRatchet!Next
  <2> QED
    BY <2>0, <2>1, <2>2, <2>3, <2>4, StepKinds, Zenon
<1> QED
  BY <1>1, <1>2, <1>3, SecretsDrawnNext, StepInvariant, PTL
     DEF Spec, ImplementsRatchet, KeyRatchet!Spec
=============================================================================
