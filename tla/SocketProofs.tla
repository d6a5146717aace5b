---------------------------- MODULE SocketProofs ----------------------------
(***************************************************************************)
(* What the clients put into their sockets: every event of posted was      *)
(* sent, and every envelope is posted once, by the process that encrypted  *)
(* it.  What they take out: a nonce is marked when an envelope opens.      *)
(***************************************************************************)
EXTENDS ChatOverRelay, ClientSessionProofs, FiniteSetTheorems

\* The keys that p posts are its own.
OwnKeys(p, events) ==
    \A i \in 1..Len(events) : events[i].type # "EncryptedMessage" => events[i] = PeerKey(p)

\* What a process posted was sent, and it posts each of its envelopes once.
Posted ==
    /\ posted \in [Processes -> Seq(Envelopes \cup PeerKeys)]
    /\ \A p \in Processes : OwnKeys(p, posted[p])
    /\ \A p \in Processes : \A i \in 1..Len(posted[p]) :
         /\ posted[p][i] \in net
         /\ posted[p][i].type = "EncryptedMessage" =>
              /\ Author(posted[p][i]) = p
              /\ \A j \in 1..Len(posted[p]) : posted[p][j] = posted[p][i] => j = i

\* p posts the sequence out, whose envelopes are new.
Posts(p, out) ==
    /\ posted' = [posted EXCEPT ![p] = posted[p] \o out]
    /\ out \in Seq(net') /\ OwnKeys(p, out)
    /\ \A i \in 1..Len(out) : out[i].type = "EncryptedMessage" =>
         /\ Author(out[i]) = p /\ out[i] \notin sent
         /\ \A j \in 1..Len(out) : out[j] = out[i] => j = i

\* The history of events only grows (NetIsHistory).
LEMMA NetGrows == [Next]_vars => net \subseteq net'
<1>1. \A m : AfterDelivery(m) = net
  BY NetIsHistory, Zenon DEF AfterDelivery
<1>2. ASSUME NEW p \in Processes, Start(p) \/ RetryPeerKey(p) \/ Quit(p) \/ ReadLine(p)
      PROVE  net \subseteq net'
  BY <1>2, Zenon DEF Start, RetryPeerKey, Quit, ReadLine, ChatLine, ChatLineThenRekey,
     RequestNotSent, RekeyCommand, RekeyCommandFails, LineFails, Emit
<1>3. ASSUME NEW p \in Processes, NEW m, Handle(p, m)
      PROVE  net \subseteq net'
  BY <1>1, <1>3, Zenon DEF Handle, AcceptPeerKey, IgnorePeerKey, RejectEnvelope, ReceiveChat,
     ReceiveRekeyRequest, ResponseNotSent, StageWithoutReply, ReceiveRekeyResponse,
     RefuseHandshake, Emit
<1>4. ASSUME NEW m, RelayRefuses(m) PROVE net \subseteq net'
  BY <1>1, <1>4, Zenon DEF RelayRefuses
<1> QED
  BY <1>2, <1>3, <1>4, Zenon DEF Next, Receive, vars

\* Posting what is new keeps the order of counters.
LEMMA PostingKeepsPosted ==
  ASSUME TypeOK', NetWasSent, Posted, net \subseteq net', NEW p \in Processes, NEW out,
         Posts(p, out)
  PROVE  Posted'
<1>1. /\ posted[p] \in Seq(Envelopes \cup PeerKeys)
      /\ posted \in [Processes -> Seq(Envelopes \cup PeerKeys)]
  BY Zenon DEF Posted
<1>2. out \in Seq(net') /\ posted' = [posted EXCEPT ![p] = posted[p] \o out]
  BY Zenon DEF Posts
<1>3. net' \subseteq Envelopes \cup PeerKeys
  BY Zenon DEF TypeOK
<1>4. out \in Seq(Envelopes \cup PeerKeys)
  BY <1>2, <1>3
<1>5. /\ posted[p] \o out \in Seq(Envelopes \cup PeerKeys)
      /\ Len(posted[p] \o out) = Len(posted[p]) + Len(out)
      /\ \A i \in 1..Len(posted[p]) : (posted[p] \o out)[i] = posted[p][i]
      /\ \A i \in 1..Len(posted[p] \o out) : i \notin 1..Len(posted[p]) =>
            i - Len(posted[p]) \in 1..Len(out) /\ (posted[p] \o out)[i] = out[i - Len(posted[p])]
  BY <1>1, <1>4
<1>6. /\ posted' \in [Processes -> Seq(Envelopes \cup PeerKeys)]
      /\ posted'[p] = posted[p] \o out
      /\ \A q \in Processes : q # p => posted'[q] = posted[q]
  BY <1>1, <1>2, <1>5, Zenon
<1>7. ASSUME NEW i \in 1..Len(posted[p]), posted[p][i].type = "EncryptedMessage"
      PROVE  posted[p][i] \in sent
  BY <1>7, Zenon DEF Posted, NetWasSent
<1>8. ASSUME NEW i \in 1..Len(out), out[i].type = "EncryptedMessage"
      PROVE  /\ out[i] \notin sent /\ Author(out[i]) = p
             /\ \A j \in 1..Len(out) : out[j] = out[i] => j = i
  BY <1>8, Zenon DEF Posts
<1>9. ASSUME NEW i \in 1..Len(out) PROVE out[i] \in net'
  BY <1>2
<1>10. ASSUME NEW i \in 1..Len(posted'[p])
       PROVE  /\ posted'[p][i] \in net'
              /\ posted'[p][i].type = "EncryptedMessage" =>
                   /\ Author(posted'[p][i]) = p
                   /\ \A j \in 1..Len(posted'[p]) : posted'[p][j] = posted'[p][i] => j = i
  <2> DEFINE n == Len(posted[p])
  <2>0. n \in Nat /\ Len(out) \in Nat
    BY <1>1, <1>4
  <2>1. CASE i \in 1..n
    <3>1. posted'[p][i] = posted[p][i] /\ posted[p][i] \in net
      BY <1>5, <1>6, <2>1, Zenon DEF Posted
    <3>2. ASSUME posted[p][i].type = "EncryptedMessage", NEW j \in 1..Len(posted'[p]),
                 posted'[p][j] = posted[p][i]
          PROVE  j = i
      <4>1. CASE j \in 1..n
        <5>1. posted[p][j] = posted[p][i]
          BY <1>5, <1>6, <3>2, <4>1, Zenon
        <5> QED
          BY <2>1, <3>2, <4>1, <5>1, Zenon DEF Posted
      <4>2. CASE j \notin 1..n
        <5>1. j - n \in 1..Len(out) /\ out[j - n] = posted[p][i]
          BY <1>5, <1>6, <3>2, <4>2, Zenon
        <5>2. out[j - n] \notin sent
          BY <1>8, <3>2, <5>1, Zenon
        <5> QED
          BY <1>7, <2>1, <3>2, <5>1, <5>2, Zenon
      <4> QED
        BY <4>1, <4>2, Zenon
    <3>3. posted[p][i].type = "EncryptedMessage" => Author(posted[p][i]) = p
      BY <2>1, Zenon DEF Posted
    <3> QED
      BY <3>1, <3>2, <3>3, Zenon
  <2>2. CASE i \notin 1..n
    <3>1. i - n \in 1..Len(out) /\ posted'[p][i] = out[i - n]
      BY <1>5, <1>6, <2>2, Zenon
    <3>2. out[i - n] \in net'
      BY <1>9, <3>1, Zenon
    <3>3. ASSUME out[i - n].type = "EncryptedMessage", NEW j \in 1..Len(posted'[p]),
                 posted'[p][j] = out[i - n]
          PROVE  j = i
      <4>0. out[i - n] \notin sent
        BY <1>8, <3>1, <3>3, Zenon
      <4>1. CASE j \in 1..n
        <5>1. posted[p][j] = out[i - n]
          BY <1>5, <1>6, <3>3, <4>1, Zenon
        <5> QED
          BY <1>7, <3>3, <4>0, <4>1, <5>1, Zenon
      <4>2. CASE j \notin 1..n
        <5>1. j - n \in 1..Len(out) /\ out[j - n] = out[i - n]
          BY <1>5, <1>6, <3>3, <4>2, Zenon
        <5>2. j - n = i - n
          BY <1>8, <3>1, <3>3, <5>1, Zenon
        <5> HIDE DEF n
        <5> QED
          BY <2>0, <5>2
      <4> QED
        BY <4>1, <4>2, Zenon
    <3>4. out[i - n].type = "EncryptedMessage" => Author(out[i - n]) = p
      BY <1>8, <3>1, Zenon
    <3> QED
      BY <3>1, <3>2, <3>3, <3>4, Zenon
  <2> QED
    BY <2>1, <2>2, Zenon
<1>11. ASSUME NEW q \in Processes, q # p, NEW i \in 1..Len(posted'[q])
       PROVE  /\ posted'[q][i] \in net'
              /\ posted'[q][i].type = "EncryptedMessage" =>
                   /\ Author(posted'[q][i]) = q
                   /\ \A j \in 1..Len(posted'[q]) : posted'[q][j] = posted'[q][i] => j = i
  <2>1. posted'[q] = posted[q]
    BY <1>6, <1>11, Zenon
  <2>2. posted[q][i] \in net
    BY <1>11, <2>1, Zenon DEF Posted
  <2> QED
    BY <1>11, <2>1, <2>2, Zenon DEF Posted
<1>12. ASSUME NEW q \in Processes PROVE OwnKeys(q, posted'[q])
  <2>0. OwnKeys(q, posted[q])
    BY Zenon DEF Posted
  <2>1. CASE q # p
    BY <1>6, <2>0, <2>1, Zenon
  <2>2. CASE q = p
    <3>1. OwnKeys(p, out)
      BY Zenon DEF Posts
    <3> SUFFICES ASSUME NEW i \in 1..Len(posted'[p]), posted'[p][i].type # "EncryptedMessage"
                 PROVE  posted'[p][i] = PeerKey(p)
      BY <2>2, Zenon DEF OwnKeys
    <3>2. CASE i \in 1..Len(posted[p])
      BY <1>5, <1>6, <2>0, <2>2, <3>2, Zenon DEF OwnKeys
    <3>3. CASE i \notin 1..Len(posted[p])
      <4>1. PICK k : k = i - Len(posted[p])
        BY Zenon
      <4>2. k \in 1..Len(out) /\ posted'[p][i] = out[k]
        BY <1>5, <1>6, <3>3, <4>1, Zenon
      <4> QED
        BY <3>1, <4>2, Zenon DEF OwnKeys
    <3> QED
      BY <3>2, <3>3, Zenon
  <2> QED
    BY <2>1, <2>2, Zenon
<1> QED
  BY <1>6, <1>10, <1>11, <1>12, Zenon DEF Posted

\* The counters of what p encrypts in a step follow the last one and each other.
LEMMA EncryptedInOrder ==
  ASSUME NEW p, next_outbound_nonce[p] \in Nat, NEW out, Encrypts(p, out)
  PROVE  /\ \A m \in out : /\ Author(m) = p
                           /\ m.nonce[2] \in next_outbound_nonce[p] + 1 .. next_outbound_nonce[p] + 2
         /\ Cardinality(out) \in Nat
         /\ \A i \in 1..Cardinality(out) : \E m \in out : m.nonce[2] = next_outbound_nonce[p] + i
<1>1. CASE out = {}
  <2>1. Cardinality({}) = 0
    BY FS_EmptySet, Zenon
  <2> QED
    BY <1>1, <2>1
<1>2. ASSUME NEW a, out = {Encrypt(p, 1, a)}
      PROVE  /\ \A m \in out : /\ Author(m) = p
                               /\ m.nonce[2] = next_outbound_nonce[p] + 1
             /\ Cardinality(out) = 1
             /\ \E m \in out : m.nonce[2] = next_outbound_nonce[p] + 1
  <2>1. Cardinality({Encrypt(p, 1, a)}) = 1
    BY FS_Singleton, Zenon
  <2>2. Author(Encrypt(p, 1, a)) = p /\ Encrypt(p, 1, a).nonce[2] = next_outbound_nonce[p] + 1
    BY EncryptFacts
  <2> QED
    BY <1>2, <2>1, <2>2, Zenon
<1>3. ASSUME NEW a, NEW b, out = {Encrypt(p, 1, a), Encrypt(p, 2, b)}
      PROVE  /\ \A m \in out : /\ Author(m) = p
                               /\ \/ m.nonce[2] = next_outbound_nonce[p] + 1
                                  \/ m.nonce[2] = next_outbound_nonce[p] + 2
             /\ Cardinality(out) = 2
             /\ \E m \in out : m.nonce[2] = next_outbound_nonce[p] + 1
             /\ \E m \in out : m.nonce[2] = next_outbound_nonce[p] + 2
  <2>1. next_outbound_nonce[p] + 1 # next_outbound_nonce[p] + 2
    BY NewCounters, Zenon
  <2>2. /\ Author(Encrypt(p, 1, a)) = p /\ Author(Encrypt(p, 2, b)) = p
        /\ Encrypt(p, 1, a).nonce[2] = next_outbound_nonce[p] + 1
        /\ Encrypt(p, 2, b).nonce[2] = next_outbound_nonce[p] + 2
    BY EncryptFacts
  <2>3. Encrypt(p, 2, b) \notin {Encrypt(p, 1, a)}
    BY <2>1, <2>2, Zenon
  <2>4. IsFiniteSet({Encrypt(p, 1, a)}) /\ Cardinality({Encrypt(p, 1, a)}) = 1
    BY FS_Singleton, Zenon
  <2>5. Cardinality({Encrypt(p, 1, a)} \cup {Encrypt(p, 2, b)}) = 1 + 1
    BY <2>3, <2>4, FS_AddElement, Zenon
  <2>6. out = {Encrypt(p, 1, a)} \cup {Encrypt(p, 2, b)} /\ 1 + 1 = 2
    BY <1>3, SMT
  <2>7. Cardinality(out) = 2
    BY <2>5, <2>6, Zenon
  <2> QED
    BY <1>3, <2>2, <2>7, Zenon
<1>4. CASE \E a : out = {Encrypt(p, 1, a)}
  <2>1. PICK a : out = {Encrypt(p, 1, a)}
    BY <1>4, Zenon
  <2>2. /\ \A m \in out : Author(m) = p /\ m.nonce[2] = next_outbound_nonce[p] + 1
        /\ Cardinality(out) = 1
        /\ \E m \in out : m.nonce[2] = next_outbound_nonce[p] + 1
    BY <1>2, <2>1, Zenon
  <2>3. /\ next_outbound_nonce[p] + 1 \in next_outbound_nonce[p] + 1 .. next_outbound_nonce[p] + 2
        /\ 1 \in Nat /\ 1..1 = {1}
    OBVIOUS
  <2> QED
    BY <2>2, <2>3, Zenon
<1>5. CASE \E a, b : out = {Encrypt(p, 1, a), Encrypt(p, 2, b)}
  <2>1. PICK a, b : out = {Encrypt(p, 1, a), Encrypt(p, 2, b)}
    BY <1>5, Zenon
  <2>2. /\ \A m \in out : /\ Author(m) = p
                          /\ \/ m.nonce[2] = next_outbound_nonce[p] + 1
                             \/ m.nonce[2] = next_outbound_nonce[p] + 2
        /\ Cardinality(out) = 2
        /\ \E m \in out : m.nonce[2] = next_outbound_nonce[p] + 1
        /\ \E m \in out : m.nonce[2] = next_outbound_nonce[p] + 2
    BY <1>3, <2>1, Zenon
  <2>3. /\ next_outbound_nonce[p] + 1 \in next_outbound_nonce[p] + 1 .. next_outbound_nonce[p] + 2
        /\ next_outbound_nonce[p] + 2 \in next_outbound_nonce[p] + 1 .. next_outbound_nonce[p] + 2
        /\ 2 \in Nat /\ 1..2 = {1, 2}
    OBVIOUS
  <2> QED
    BY <2>2, <2>3, Zenon
<1> QED
  BY <1>1, <1>4, <1>5, Zenon DEF Encrypts

\* A function on an initial segment of the numbers is a sequence.
LEMMA FunctionIsSeq ==
  \A T : \A n \in Nat : \A f \in [1..n -> T] : f \in Seq(T) /\ Len(f) = n
  BY SMT

\* The envelopes that p encrypts in a step are new and each is posted once.
LEMMA OutgoingIsNew ==
  ASSUME NonceInv, NEW p \in Processes, NEW out, Encrypts(p, out), out \subseteq net',
         sent' = sent \cup out
  PROVE  /\ Outgoing(p) \in Seq(net')
         /\ \A i \in 1..Len(Outgoing(p)) :
              /\ Outgoing(p)[i].type = "EncryptedMessage"
              /\ Author(Outgoing(p)[i]) = p /\ Outgoing(p)[i] \notin sent
              /\ \A j \in 1..Len(Outgoing(p)) : Outgoing(p)[j] = Outgoing(p)[i] => j = i
<1>1. next_outbound_nonce[p] \in Nat
  BY CountersAreNat, Zenon DEF NonceInv, TypeOK
<1>2. /\ \A m \in out : /\ Author(m) = p
                        /\ m.nonce[2] \in next_outbound_nonce[p] + 1 .. next_outbound_nonce[p] + 2
      /\ Cardinality(out) \in Nat
      /\ \A i \in 1..Cardinality(out) : \E m \in out : m.nonce[2] = next_outbound_nonce[p] + i
  BY <1>1, EncryptedInOrder, Zenon
<1>3. ASSUME NEW m \in out PROVE m \notin sent
  <2>1. ~(m.nonce[2] <= next_outbound_nonce[p])
    BY <1>1, <1>2, NewCounters
  <2> QED
    BY <1>2, <2>1, Zenon DEF NonceInv, SentInSession
<1>4. sent' \ sent = out
  BY <1>3, SMT
<1>5. PICK k \in Nat : k = Cardinality(sent' \ sent) /\ k = Cardinality(out)
  BY <1>2, <1>4, Zenon
<1>6. /\ \A T : (\A i \in 1..k : Outgoing(p)[i] \in T) => Outgoing(p) \in [1..k -> T]
      /\ \A i \in 1..k :
           Outgoing(p)[i] = CHOOSE m \in sent' \ sent : m.nonce[2] = next_outbound_nonce[p] + i
  <2>1. \A i \in 1..Cardinality(sent' \ sent) :
           Outgoing(p)[i] = CHOOSE m \in sent' \ sent : m.nonce[2] = next_outbound_nonce[p] + i
    BY Zenon DEF Outgoing
  <2>2. \A T : (\A i \in 1..Cardinality(sent' \ sent) : Outgoing(p)[i] \in T)
                  => Outgoing(p) \in [1..Cardinality(sent' \ sent) -> T]
    BY Zenon DEF Outgoing
  <2> QED
    BY <1>5, <2>1, <2>2, Zenon
<1>7. ASSUME NEW i \in 1..k
      PROVE  Outgoing(p)[i] \in out /\ Outgoing(p)[i].nonce[2] = next_outbound_nonce[p] + i
  <2>1. \E m \in sent' \ sent : m.nonce[2] = next_outbound_nonce[p] + i
    BY <1>2, <1>4, <1>5, Zenon
  <2>2. Outgoing(p)[i] = CHOOSE m \in sent' \ sent : m.nonce[2] = next_outbound_nonce[p] + i
    BY <1>6, Zenon
  <2>3. /\ Outgoing(p)[i] \in sent' \ sent
        /\ Outgoing(p)[i].nonce[2] = next_outbound_nonce[p] + i
    BY <2>1, <2>2, Zenon
  <2> QED
    BY <1>4, <2>3, Zenon
<1>8. Outgoing(p) \in Seq(net') /\ Len(Outgoing(p)) = k
  <2>1. \A i \in 1..k : Outgoing(p)[i] \in net'
    BY <1>7, Zenon
  <2>2. Outgoing(p) \in [1..k -> net']
    BY <1>6, <2>1, Zenon
  <2> QED
    BY <2>2, FunctionIsSeq, Zenon
<1>9. ASSUME NEW i \in 1..k, NEW j \in 1..k, Outgoing(p)[j] = Outgoing(p)[i] PROVE j = i
  <2>1. next_outbound_nonce[p] + i = next_outbound_nonce[p] + j
    BY <1>7, <1>9, Zenon
  <2> QED
    BY <1>1, <2>1, SMT
<1>10. \A m \in out : m.type = "EncryptedMessage"
  <2> SUFFICES ASSUME NEW m \in out PROVE m.type = "EncryptedMessage"
    BY Zenon
  <2>1. \E i, a : m = Encrypt(p, i, a)
    BY Zenon DEF Encrypts
  <2> QED
    BY <2>1, EncryptedType, Zenon
<1>11. \A i \in 1..k : /\ Outgoing(p)[i].type = "EncryptedMessage"
                         /\ Author(Outgoing(p)[i]) = p /\ Outgoing(p)[i] \notin sent
  BY <1>2, <1>3, <1>7, <1>10, Zenon
<1> QED
  BY <1>8, <1>9, <1>11, Zenon

\* Posting one's key, or nothing.
LEMMA PostingKey ==
  ASSUME NEW p \in Processes, NEW out \in Seq({PeerKey(p)}), Post(p, out),
         Len(out) > 0 => PeerKey(p) \in net'
  PROVE  Posts(p, out)
<1>1. \A i \in 1..Len(out) : out[i] = PeerKey(p)
  OBVIOUS
<1>2. out \in Seq(net')
  OBVIOUS
<1>3. PeerKey(p).type = "PeerKey"
  BY Zenon DEF PeerKey
<1>4. \A i \in 1..Len(out) : out[i].type # "EncryptedMessage"
  BY <1>1, <1>3, Zenon
<1> QED
  BY <1>1, <1>2, <1>4, Zenon DEF Posts, Post, OwnKeys

\* Posting what was encrypted in the step.
LEMMA PostingOutgoing ==
  ASSUME NonceInv, NEW p \in Processes, ReadLine(p) \/ \E m : Handle(p, m), Post(p, Outgoing(p))
  PROVE  Posts(p, Outgoing(p))
<1>1. PICK out : Encrypts(p, out) /\ out \subseteq net' /\ sent' = sent \cup out
  BY EnvelopesSent, Zenon
<1>2. /\ Outgoing(p) \in Seq(net')
      /\ \A i \in 1..Len(Outgoing(p)) :
           /\ Outgoing(p)[i].type = "EncryptedMessage"
           /\ Author(Outgoing(p)[i]) = p /\ Outgoing(p)[i] \notin sent
           /\ \A j \in 1..Len(Outgoing(p)) : Outgoing(p)[j] = Outgoing(p)[i] => j = i
  BY <1>1, OutgoingIsNew, Zenon
<1> QED
  BY <1>2, Zenon DEF Posts, Post, OwnKeys

\* What the timer and stdin post.
LEMMA ActingPosts ==
  ASSUME NonceInv, NEW p \in Processes, ClientActs(p)
  PROVE  UNCHANGED posted \/ \E out : Posts(p, out)
<1>1. CASE (Start(p) \/ RetryPeerKey(p)) /\ Post(p, <<PeerKey(p)>>)
  <2>1. PeerKey(p) \in net'
    BY <1>1, Zenon DEF Start, RetryPeerKey
  <2>2. <<PeerKey(p)>> \in Seq({PeerKey(p)})
    OBVIOUS
  <2>3. Posts(p, <<PeerKey(p)>>)
    BY <1>1, <2>1, <2>2, PostingKey, Zenon
  <2> QED
    BY <2>3, Zenon
<1>2. CASE ReadLine(p) /\ Post(p, Outgoing(p))
  BY <1>2, PostingOutgoing, Zenon
<1> QED
  BY <1>1, <1>2, Zenon DEF ClientActs

\* What the handling of an event posts.
LEMMA HandlingPosts ==
  ASSUME NonceInv, NEW p \in Processes, ReadEvent(p)
  PROVE  \E out : Posts(p, out)
<1>1. PICK m : /\ Handle(p, m)
               /\ Post(p, IF m.type = "PeerKey" /\ AcceptsKey(p, m)
                          THEN Server!AsSequence(PeerKeyReply(p, m)) ELSE Outgoing(p))
  BY Zenon DEF ReadEvent
<1>2. CASE m.type = "PeerKey" /\ AcceptsKey(p, m)
  <2>1. AcceptPeerKey(p, m)
    BY <1>1, <1>2, Zenon DEF Handle, IgnorePeerKey, RejectEnvelope, ReceiveChat,
       ReceiveRekeyRequest, ResponseNotSent, RotateAsResponder, StageWithoutReply,
       ReceiveRekeyResponse, RefuseHandshake, OpensAs, Opens
  <2>2. PeerKeyReply(p, m) \subseteq net'
    BY <2>1, Zenon DEF AcceptPeerKey
  <2>3. PeerKeyReply(p, m) = {} \/ PeerKeyReply(p, m) = {PeerKey(p)}
    BY Zenon DEF PeerKeyReply
  <2>4. CASE PeerKeyReply(p, m) = {}
    <3>1. Post(p, <<>>)
      BY <1>1, <1>2, <2>4, Zenon DEF Server!AsSequence
    <3>2. <<>> \in Seq({PeerKey(p)}) /\ ~(Len(<<>>) > 0)
      OBVIOUS
    <3>3. Posts(p, <<>>)
      BY <3>1, <3>2, PostingKey, Zenon
    <3> QED
      BY <3>3, Zenon
  <2>5. CASE PeerKeyReply(p, m) = {PeerKey(p)}
    <3>1. PeerKeyReply(p, m) # {} /\ (CHOOSE d \in {PeerKey(p)} : TRUE) = PeerKey(p)
      BY <2>5, Zenon
    <3>2. Post(p, <<PeerKey(p)>>)
      BY <1>1, <1>2, <2>5, <3>1, Zenon DEF Server!AsSequence
    <3>3. <<PeerKey(p)>> \in Seq({PeerKey(p)}) /\ PeerKey(p) \in net'
      BY <2>2, <2>5
    <3>4. Posts(p, <<PeerKey(p)>>)
      BY <3>2, <3>3, PostingKey, Zenon
    <3> QED
      BY <3>4, Zenon
  <2> QED
    BY <2>3, <2>4, <2>5, Zenon
<1>3. CASE ~(m.type = "PeerKey" /\ AcceptsKey(p, m))
  <2>1. Post(p, Outgoing(p))
    BY <1>1, <1>3, Zenon
  <2>2. Posts(p, Outgoing(p))
    BY <1>1, <2>1, PostingOutgoing, Zenon
  <2> QED
    BY <2>2, Zenon
<1> QED
  BY <1>2, <1>3, Zenon

\* What was posted stays where it is.
LEMMA PostedGrows ==
  ASSUME Posted, UNCHANGED posted \/ \E p \in Processes : \E out : Posts(p, out),
         NEW q \in Processes
  PROVE  /\ Len(posted[q]) <= Len(posted'[q])
         /\ \A i \in 1..Len(posted[q]) : posted'[q][i] = posted[q][i]
<1>1. /\ posted[q] \in Seq(Envelopes \cup PeerKeys)
      /\ posted \in [Processes -> Seq(Envelopes \cup PeerKeys)]
  BY Zenon DEF Posted
<1>2. CASE posted'[q] = posted[q]
  BY <1>1, <1>2
<1>3. ASSUME NEW out, NEW S, out \in Seq(S), posted'[q] = posted[q] \o out
      PROVE  /\ Len(posted[q]) <= Len(posted'[q])
             /\ \A i \in 1..Len(posted[q]) : posted'[q][i] = posted[q][i]
  BY <1>1, <1>3
<1>4. ASSUME NEW p \in Processes, NEW out, Posts(p, out)
      PROVE  posted'[q] = posted[q] \/ (posted'[q] = posted[q] \o out /\ out \in Seq(net'))
  <2>1. posted' = [posted EXCEPT ![p] = posted[p] \o out] /\ out \in Seq(net')
    BY <1>4, Zenon DEF Posts
  <2> QED
    BY <1>1, <2>1, Zenon
<1> QED
  BY <1>2, <1>3, <1>4, Zenon

\* A step in which nothing is posted.
LEMMA SilenceKeepsPosted ==
  ASSUME Posted, UNCHANGED posted, net \subseteq net'
  PROVE  Posted'
<1>1. posted' = posted /\ \A p \in Processes : \A i \in 1..Len(posted[p]) : posted[p][i] \in net'
  BY Zenon DEF Posted
<1> QED
  BY <1>1, Zenon DEF Posted

-----------------------------------------------------------------------------
(* What the processes read.                                                *)

\* All that the relay wrote to p or queued for it.
Frames(p) == written[p] \o queue[p]

\* What the clients rely on at the relay: a frame that carries an event names one that the
\* relay has read, and no other frame of the same socket names it.
FramesTagged ==
    \A p \in Processes :
        /\ \E S : written[p] \in Seq(S) /\ queue[p] \in Seq(S)
        /\ \A i \in 1..Len(Frames(p)) : ~IsControl(Frames(p)[i]) =>
             /\ Frames(p)[i].tag[1] \in Processes
             /\ Frames(p)[i].tag[2] \in 1..received[Frames(p)[i].tag[1]]
             /\ \A j \in 1..Len(Frames(p)) :
                  (/\ ~IsControl(Frames(p)[j])
                   /\ Frames(p)[j].tag[1] = Frames(p)[i].tag[1]
                   /\ Frames(p)[j].tag[2] = Frames(p)[i].tag[2]) => j = i

\* The relay only adds to what it wrote.
FramesStay ==
    \A p \in Processes :
        /\ Len(written[p]) \in Nat /\ Len(written'[p]) \in Nat
        /\ Len(written[p]) <= Len(written'[p])
        /\ \A i \in 1..Len(written[p]) : written'[p][i] = written[p][i]

\* Nothing is read that was not sent, in either direction.
Counts ==
    /\ read \in [Processes -> Nat] /\ received \in [Processes -> Nat]
    /\ \A p \in Processes : read[p] <= Len(written[p]) /\ received[p] <= Len(posted[p])

\* The k-th frame that p got is an envelope of its peer, with the epoch and nonce s.
OpenedAt(p, k, s) ==
    /\ ~IsControl(written[p][k])
    /\ Carried(written[p][k]).type = "EncryptedMessage"
    /\ s = <<Carried(written[p][k]).epoch, Carried(written[p][k]).nonce>>
    /\ Author(Carried(written[p][k])) \in Processes
    /\ Paired(p, Author(Carried(written[p][k])))

\* A nonce counts as seen because of a frame that was read.
SeenWasRead ==
    \A p \in Processes : \A s \in inbound_nonces[p] : \E k \in 1..read[p] : OpenedAt(p, k, s)

\* A step of the system posts nothing, or what one process has to say.
LEMMA StepPosts ==
  ASSUME NonceInv, [SystemNext]_systemVars
  PROVE  UNCHANGED posted \/ \E p \in Processes : \E out : Posts(p, out)
<1>1. CASE UNCHANGED systemVars
  BY <1>1, Zenon DEF systemVars, socketVars
<1>2. ASSUME NEW p \in Processes,
             ReadControl(p) \/ SocketCloses(p) \/ ConnectionBreaks(p) \/ ServerActs(p)
      PROVE  UNCHANGED posted
  BY <1>2, Zenon DEF ReadControl, SocketCloses, ConnectionBreaks, ServerActs, socketVars
<1> QED
  BY <1>1, <1>2, ActingPosts, HandlingPosts, Zenon DEF SystemNext, Turns

\* The relay counts an event when it reads one that was posted.
LEMMA RelayCounts ==
  ASSUME [SystemNext]_systemVars
  PROVE  \/ UNCHANGED received
         \/ \E p \in Processes : /\ received[p] < Len(posted[p])
                                 /\ received' = [received EXCEPT ![p] = received[p] + 1]
<1>1. CASE UNCHANGED systemVars
  BY <1>1, Zenon DEF systemVars, serverVars
<1>2. ASSUME NEW p \in Processes, ClientActs(p) \/ ReadControl(p) \/ ReadEvent(p) \/ SocketCloses(p)
      PROVE  UNCHANGED received
  BY <1>2, Zenon DEF ClientActs, ReadControl, ReadEvent, SocketCloses, serverVars
<1>3. ASSUME NEW p \in Processes, Server!Task(p) PROVE UNCHANGED received
  BY <1>3, Zenon DEF Server!Task, Server!Authorize, Server!RefuseDuplicate, Server!Register,
     Server!InsertHandle, Server!OnConnect, Server!RouteAccepted, Server!RouteRejected,
     Server!ReportError, Server!DrainTargets, Server!DeliverEvent, Server!DeliveryFails,
     Server!RemoveHandle, Server!Unregister, Server!Disconnect, Server!OnDisconnect,
     Server!Return, Server!taskVars
<1>4. ASSUME NEW p \in Processes,
             \/ ServerHello(p) \/ ServerLoses(p) \/ ConnectionBreaks(p)
             \/ Server!LeaveLoop(p) \/ Server!Write(p)
      PROVE  UNCHANGED received
  BY <1>4, Zenon DEF ServerHello, ServerLoses, ConnectionBreaks, Server!ReadHello, Server!NoHello,
     Server!SocketEnds, Server!WriterEnds, Server!LeaveLoop, Server!Write, Server!Return,
     Server!taskVars
<1>5. ASSUME NEW p \in Processes, ServerReceives(p)
      PROVE  /\ received[p] < Len(posted[p])
             /\ received' = [received EXCEPT ![p] = received[p] + 1]
  BY <1>5, Zenon DEF ServerReceives, Server!ReceiveEvent
<1> QED
  BY <1>1, <1>2, <1>3, <1>4, <1>5, Zenon DEF SystemNext, Turns, ServerActs

\* A client counts a frame when it reads one that was written.
LEMMA ClientCounts ==
  ASSUME [SystemNext]_systemVars
  PROVE  \/ UNCHANGED read
         \/ \E p \in Processes : /\ read[p] < Len(written[p])
                                 /\ read' = [read EXCEPT ![p] = read[p] + 1]
<1>1. CASE UNCHANGED systemVars
  BY <1>1, Zenon DEF systemVars, socketVars
<1>2. ASSUME NEW p \in Processes,
             ClientActs(p) \/ SocketCloses(p) \/ ConnectionBreaks(p) \/ ServerActs(p)
      PROVE  UNCHANGED read
  BY <1>2, Zenon DEF ClientActs, SocketCloses, ConnectionBreaks, ServerActs, socketVars
<1>3. ASSUME NEW p \in Processes, ReadControl(p) \/ ReadEvent(p)
      PROVE  read[p] < Len(written[p]) /\ read' = [read EXCEPT ![p] = read[p] + 1]
  BY <1>3, Zenon DEF ReadControl, ReadEvent, Unread
<1> QED
  BY <1>1, <1>2, <1>3, Zenon DEF SystemNext, Turns

\* A counter that passes no bound.
LEMMA CountUp ==
  ASSUME NEW f \in [Processes -> Nat], NEW g, NEW p \in Processes, NEW a, NEW b,
         a \in Nat, b \in Nat, f[p] <= a, a <= b,
         \/ g = f
         \/ \E q \in Processes : (q = p => f[p] < a) /\ g = [f EXCEPT ![q] = f[q] + 1]
  PROVE  /\ g \in [Processes -> Nat] /\ f[p] <= g[p] /\ g[p] <= b
<1>1. f[p] \in Nat
  OBVIOUS
<1>2. CASE g = f
  BY <1>1, <1>2
<1>3. ASSUME NEW q \in Processes, q = p => f[p] < a, g = [f EXCEPT ![q] = f[q] + 1]
      PROVE  /\ g \in [Processes -> Nat] /\ f[p] <= g[p] /\ g[p] <= b
  <2>1. f[q] + 1 \in Nat
    OBVIOUS
  <2>2. g \in [Processes -> Nat]
    BY <1>3, <2>1, Zenon
  <2>3. CASE q = p
    <3>1. g[p] = f[p] + 1
      BY <1>3, <2>3, Zenon
    <3> QED
      BY <1>1, <1>3, <2>2, <2>3, <3>1
  <2>4. CASE q # p
    <3>1. g[p] = f[p]
      BY <1>3, <2>4, Zenon
    <3> QED
      BY <1>1, <2>2, <3>1
  <2> QED
    BY <2>3, <2>4, Zenon
<1> QED
  BY <1>2, <1>3, Zenon

\* Both counters stay within what was sent, and only grow.
LEMMA CountsNext ==
  ASSUME NonceInv, Posted, Counts, FramesStay, [SystemNext]_systemVars
  PROVE  Counts' /\ \A p \in Processes : read[p] <= read'[p]
<1>1. ASSUME NEW p \in Processes
      PROVE  /\ Len(posted[p]) \in Nat /\ Len(posted'[p]) \in Nat
             /\ Len(posted[p]) <= Len(posted'[p])
  <2>1. Len(posted[p]) <= Len(posted'[p])
    BY StepPosts, PostedGrows, Zenon
  <2>2. Len(posted[p]) \in Nat
    BY DEF Posted
  <2>3. CASE posted'[p] = posted[p]
    BY <2>1, <2>2, <2>3, Zenon
  <2>4. ASSUME NEW out, out \in Seq(net'), posted'[p] = posted[p] \o out
        PROVE  Len(posted'[p]) \in Nat
    <3>1. posted[p] \in Seq(Envelopes \cup PeerKeys)
      BY Zenon DEF Posted
    <3> QED
      BY <2>4, <3>1
  <2>5. posted \in [Processes -> Seq(Envelopes \cup PeerKeys)]
    BY Zenon DEF Posted
  <2>6. posted'[p] = posted[p] \/ \E out : out \in Seq(net') /\ posted'[p] = posted[p] \o out
    BY <2>5, StepPosts, Zenon DEF Posts
  <2> QED
    BY <2>1, <2>2, <2>3, <2>4, <2>6, Zenon
<1>2. read \in [Processes -> Nat] /\ received \in [Processes -> Nat]
  BY Zenon DEF Counts
<1>3. ASSUME NEW p \in Processes
      PROVE  read' \in [Processes -> Nat] /\ read[p] <= read'[p] /\ read'[p] <= Len(written'[p])
  <2>1. /\ Len(written[p]) \in Nat /\ Len(written'[p]) \in Nat
        /\ read[p] <= Len(written[p]) /\ Len(written[p]) <= Len(written'[p])
    BY Zenon DEF FramesStay, Counts
  <2>2. \/ read' = read
        \/ \E q \in Processes : /\ q = p => read[p] < Len(written[p])
                                /\ read' = [read EXCEPT ![q] = read[q] + 1]
    BY ClientCounts, Zenon
  <2> QED
    BY <1>2, <2>1, <2>2, CountUp, Zenon
<1>4. ASSUME NEW p \in Processes
      PROVE  received' \in [Processes -> Nat] /\ received'[p] <= Len(posted'[p])
  <2>1. received[p] <= Len(posted[p])
    BY Zenon DEF Counts
  <2>2. \/ received' = received
        \/ \E q \in Processes : /\ q = p => received[p] < Len(posted[p])
                                /\ received' = [received EXCEPT ![q] = received[q] + 1]
    BY RelayCounts, Zenon
  <2> QED
    BY <1>1, <1>2, <2>1, <2>2, CountUp, Zenon
<1>5. read' \in [Processes -> Nat] /\ received' \in [Processes -> Nat]
  BY <1>2, <1>3, <1>4, ClientCounts, RelayCounts, Zenon
<1> QED
  BY <1>3, <1>4, <1>5, Zenon DEF Counts

\* Two sequences, one after the other.
LEMMA Joined ==
  ASSUME NEW S, NEW s \in Seq(S), NEW t \in Seq(S)
  PROVE  /\ Len(s \o t) = Len(s) + Len(t)
         /\ \A i \in 1..Len(s) : i \in 1..Len(s \o t) /\ (s \o t)[i] = s[i]
         /\ \A i \in 1..Len(t) : (s \o t)[Len(s) + i] = t[i]
<1>1. Len(s \o t) = Len(s) + Len(t)
  OBVIOUS
<1>2. \A i \in 1..Len(s) : i \in 1..Len(s \o t) /\ (s \o t)[i] = s[i]
  OBVIOUS
<1>3. \A i \in 1..Len(t) : (s \o t)[Len(s) + i] = t[i]
  OBVIOUS
<1> QED
  BY <1>1, <1>2, <1>3, Zenon

\* What follows the first n elements comes after them.
LEMMA AfterFirst ==
  ASSUME NEW S, NEW s \in Seq(S), NEW t \in Seq(S), NEW n \in Nat, n <= Len(s),
         NEW x \in Range(SubSeq(s, n + 1, Len(s)) \o t)
  PROVE  \E i \in 1..Len(s \o t) : (s \o t)[i] = x /\ i \notin 1..n
<1>1. PICK u : u = SubSeq(s, n + 1, Len(s))
  BY Zenon
<1>2. u \in Seq(S)
  BY <1>1
<1>3. Len(u) = Len(s) - n
  BY <1>1
<1>4. \A i \in 1..Len(u) : u[i] = s[n + i]
  BY <1>1, <1>3
<1>a. /\ \A i \in 1..Len(u) : (u \o t)[i] = u[i]
      /\ \A i \in 1..Len(t) : (u \o t)[Len(u) + i] = t[i]
  BY <1>2
<1>b. /\ Len(s \o t) = Len(s) + Len(t)
      /\ \A i \in 1..Len(s) : i \in 1..Len(s \o t) /\ (s \o t)[i] = s[i]
      /\ \A i \in 1..Len(t) : (s \o t)[Len(s) + i] = t[i]
  BY Joined
<1>5. PICK i \in DOMAIN (u \o t) : (u \o t)[i] = x
  BY <1>1, Zenon DEF Range
<1>6. Len(u) \in Nat /\ Len(t) \in Nat /\ i \in 1..(Len(u) + Len(t)) /\ Len(s) \in Nat
  BY <1>2, <1>5
<1>7. CASE i \in 1..Len(u)
  <2>1. x = s[n + i]
    BY <1>a, <1>4, <1>5, <1>7, Zenon
  <2>2. n + i \in 1..Len(s) /\ n + i \notin 1..n
    BY <1>3, <1>6, <1>7
  <2> QED
    BY <1>b, <2>1, <2>2, Zenon
<1>8. CASE i \notin 1..Len(u)
  <2>1. PICK j \in 1..Len(t) : i = Len(u) + j
    <3>1. i - Len(u) \in 1..Len(t) /\ i = Len(u) + (i - Len(u))
      BY <1>6, <1>8
    <3> QED
      BY <3>1, Zenon
  <2>2. x = t[j]
    BY <1>a, <1>5, <2>1, Zenon
  <2>3. Len(s) + j \in 1..(Len(s) + Len(t)) /\ Len(s) + j \notin 1..n
    BY <1>6, <2>1
  <2> QED
    BY <1>b, <2>2, <2>3, Zenon
<1> QED
  BY <1>7, <1>8, Zenon

\* The frame at a position of what was written.
LEMMA FrameWritten ==
  ASSUME FramesTagged, NEW p \in Processes, NEW k \in 1..Len(written[p])
  PROVE  k \in 1..Len(Frames(p)) /\ Frames(p)[k] = written[p][k]
<1>1. PICK S : written[p] \in Seq(S) /\ queue[p] \in Seq(S)
  BY Zenon DEF FramesTagged
<1>2. PICK w \in Seq(S), v \in Seq(S) : w = written[p] /\ v = queue[p]
  BY <1>1, Zenon
<1>3. \A i \in 1..Len(w) : i \in 1..Len(w \o v) /\ (w \o v)[i] = w[i]
  BY Joined
<1> QED
  BY <1>2, <1>3, Zenon DEF Frames

\* An event that was written was posted.
LEMMA WrittenWasPosted ==
  ASSUME FramesTagged, Posted, Counts, NEW p \in Processes, NEW k \in 1..Len(Frames(p)),
         ~IsControl(Frames(p)[k])
  PROVE  /\ Frames(p)[k].tag[1] \in Processes
         /\ Frames(p)[k].tag[2] \in 1..Len(posted[Frames(p)[k].tag[1]])
<1>1. /\ Frames(p)[k].tag[1] \in Processes
      /\ Frames(p)[k].tag[2] \in 1..received[Frames(p)[k].tag[1]]
  BY Zenon DEF FramesTagged
<1>2. PICK q \in Processes : q = Frames(p)[k].tag[1]
  BY <1>1, Zenon
<1>3. /\ received[q] \in Nat /\ received[q] <= Len(posted[q])
      /\ posted[q] \in Seq(Envelopes \cup PeerKeys)
  BY Zenon DEF Counts, Posted
<1>4. \A n \in 1..received[q] : n \in 1..Len(posted[q])
  BY <1>3
<1> QED
  BY <1>1, <1>2, <1>4, Zenon

\* What a frame carries does not change.
LEMMA CarriedStays ==
  ASSUME NonceInv, FramesTagged, Posted, Counts, [SystemNext]_systemVars, NEW p \in Processes,
         NEW k \in 1..Len(written[p]), ~IsControl(written[p][k]), FramesStay
  PROVE  /\ written'[p][k] = written[p][k]
         /\ Carried(written[p][k])' = Carried(written[p][k])
<1>1. written'[p][k] = written[p][k]
  BY Zenon DEF FramesStay
<1>2. PICK f : f = written[p][k] /\ f = written'[p][k]
  BY <1>1, Zenon
<1>3. f.tag[1] \in Processes /\ f.tag[2] \in 1..Len(posted[f.tag[1]])
  <2>1. k \in 1..Len(Frames(p)) /\ Frames(p)[k] = f
    BY <1>2, FrameWritten, Zenon
  <2>2. ~IsControl(Frames(p)[k])
    BY <1>2, <2>1, Zenon
  <2> QED
    BY <2>1, <2>2, WrittenWasPosted, Zenon
<1>4. posted'[f.tag[1]][f.tag[2]] = posted[f.tag[1]][f.tag[2]]
  BY <1>3, StepPosts, PostedGrows, Zenon
<1> QED
  BY <1>1, <1>2, <1>4, Zenon DEF Carried

\* A frame that was opened stays the peer's envelope.
LEMMA OpenedStays ==
  ASSUME NonceInv, FramesTagged, Posted, Counts, [SystemNext]_systemVars, FramesStay, [Next]_vars,
         NEW p \in Processes, NEW k \in 1..Len(written[p]), NEW s, OpenedAt(p, k, s)
  PROVE  OpenedAt(p, k, s)'
<1>1. /\ written'[p][k] = written[p][k]
      /\ Carried(written[p][k])' = Carried(written[p][k])
  BY CarriedStays, Zenon DEF OpenedAt
<1>2. PICK m : m = Carried(written[p][k]) /\ m = Carried(written[p][k])'
  BY <1>1, Zenon
<1>3. Author(m) \in Processes /\ Paired(p, Author(m))
  BY <1>2, Zenon DEF OpenedAt
<1>4. Paired(p, Author(m))'
  BY <1>3, PairedStays, Zenon DEF NonceInv
<1>5. /\ ~IsControl(written[p][k]) /\ m.type = "EncryptedMessage" /\ s = <<m.epoch, m.nonce>>
  BY <1>2, Zenon DEF OpenedAt
<1>6. ~IsControl(written[p][k])'
  BY <1>1, <1>5, Zenon DEF IsControl
<1>7. Author(Carried(written[p][k])') = Author(m) /\ Author(Carried(written[p][k]))' = Author(m)
  BY <1>2, Zenon DEF Author
<1> QED
  BY <1>2, <1>3, <1>4, <1>5, <1>6, <1>7, Zenon DEF OpenedAt, Author, Paired

\* A step marks a nonce only for the frame it reads.
LEMMA SeenNext ==
  ASSUME NonceInv, FramesTagged, Posted, Counts, SeenWasRead, [SystemNext]_systemVars, FramesStay,
         [Next]_vars,
         \A p \in Processes, m \in net : Opens(p, m) =>
            Author(m) \in Processes /\ Paired(p, Author(m))
  PROVE  SeenWasRead'
<1>0. Counts' /\ (\A p \in Processes : read[p] <= read'[p])
  BY CountsNext, Zenon
<1>1. ASSUME NEW p \in Processes, NEW s \in inbound_nonces[p]
      PROVE  \E k \in 1..read'[p] : OpenedAt(p, k, s)'
  <2>1. PICK k \in 1..read[p] : OpenedAt(p, k, s)
    BY Zenon DEF SeenWasRead
  <2>2. /\ read[p] \in Nat /\ read'[p] \in Nat /\ read[p] <= read'[p] /\ Len(written[p]) \in Nat
        /\ read[p] <= Len(written[p])
    BY <1>0, Zenon DEF Counts, FramesStay
  <2>3. k \in 1..Len(written[p]) /\ k \in 1..read'[p]
    BY <2>2
  <2> QED
    BY <2>1, <2>3, OpenedStays, Zenon
<1>2. ASSUME NEW p \in Processes, ReadEvent(p), NEW q \in Processes, NEW s \in inbound_nonces'[q]
      PROVE  \E k \in 1..read'[q] : OpenedAt(q, k, s)'
  <2>1. PICK m : m = Carried(NextFrame(p)) /\ Handle(p, m)
    BY <1>2, Zenon DEF ReadEvent
  <2>2. CASE s \in inbound_nonces[q]
    BY <1>1, <2>2, Zenon
  <2>3. CASE q = p /\ Opens(p, m) /\ s = <<m.epoch, m.nonce>>
    <3>1. m \in net /\ m.type = "EncryptedMessage" /\ Author(m) \in Processes /\ Paired(p, Author(m))
      BY <2>3, Zenon DEF Opens, Delivered
    <3>2. PICK k : k = read[p] + 1
      BY Zenon
    <3>3. OpenedAt(p, k, s)
      BY <1>2, <2>1, <2>3, <3>1, <3>2, Zenon DEF OpenedAt, ReadEvent, NextFrame
    <3>4. read \in [Processes -> Nat] /\ read[p] < Len(written[p]) /\ Len(written[p]) \in Nat
      BY <1>2, Zenon DEF Counts, FramesStay, ReadEvent, Unread
    <3>5. read' = [read EXCEPT ![p] = read[p] + 1]
      BY <1>2, Zenon DEF ReadEvent
    <3>6. read'[p] = k
      BY <3>2, <3>4, <3>5, Zenon
    <3>7. k \in 1..Len(written[p]) /\ k \in 1..k
      BY <3>2, <3>4
    <3> QED
      BY <2>3, <3>3, <3>6, <3>7, OpenedStays, Zenon
  <2> QED
    BY <2>1, <2>2, <2>3, OpeningMarks, Zenon DEF NonceInv
<1>3. CASE UNCHANGED inbound_nonces
  BY <1>1, <1>3, Zenon DEF SeenWasRead
<1>4. CASE UNCHANGED systemVars
  BY <1>3, <1>4, Zenon DEF systemVars, vars, cryptoVars
<1>5. ASSUME NEW p \in Processes, ClientActs(p) \/ SocketCloses(p) PROVE UNCHANGED inbound_nonces
  BY <1>5, OthersMarkNone, Zenon DEF ClientActs, SocketCloses
<1>6. ASSUME NEW p \in Processes, ReadControl(p) \/ ConnectionBreaks(p) \/ ServerActs(p)
      PROVE  UNCHANGED inbound_nonces
  BY <1>6, Zenon DEF ReadControl, ConnectionBreaks, ServerActs, vars, cryptoVars
<1>7. ASSUME NEW p \in Processes, ReadEvent(p) PROVE SeenWasRead'
  BY <1>2, <1>7, Zenon DEF SeenWasRead
<1> QED
  BY <1>3, <1>4, <1>5, <1>6, <1>7, Zenon DEF SystemNext, Turns

\* What is still to be read is not among what was read.
LEMMA UnreadFrames ==
  ASSUME FramesTagged, Counts, NEW p \in Processes, NEW f \in IncomingEvents(p)
  PROVE  \E i \in 1..Len(Frames(p)) : /\ Frames(p)[i] = f /\ ~IsControl(f)
                                      /\ i \notin 1..read[p]
<1>1. PICK S : written[p] \in Seq(S) /\ queue[p] \in Seq(S)
  BY Zenon DEF FramesTagged
<1>2. read[p] \in Nat /\ read[p] <= Len(written[p])
  BY Zenon DEF Counts
<1>3. PICK w \in Seq(S), v \in Seq(S), n \in Nat : w = written[p] /\ v = queue[p] /\ n = read[p]
  BY <1>1, <1>2, Zenon
<1>4. f \in Range(SubSeq(w, n + 1, Len(w)) \o v) /\ ~IsControl(f) /\ n <= Len(w)
  BY <1>2, <1>3, Zenon DEF IncomingEvents, Incoming
<1>5. \E i \in 1..Len(w \o v) : (w \o v)[i] = f /\ i \notin 1..n
  BY <1>4, AfterFirst
<1> QED
  BY <1>3, <1>4, <1>5, Zenon DEF Frames

\* The envelope that a frame carries was sent by the process that the tag names.
LEMMA CarriedEnvelope ==
  ASSUME FramesTagged, Posted, Counts, NetWasSent, NEW p \in Processes,
         NEW k \in 1..Len(Frames(p)), ~IsControl(Frames(p)[k]),
         Carried(Frames(p)[k]).type = "EncryptedMessage"
  PROVE  /\ Carried(Frames(p)[k]) \in net /\ Carried(Frames(p)[k]) \in sent
         /\ Author(Carried(Frames(p)[k])) = Frames(p)[k].tag[1]
         /\ Frames(p)[k].tag[1] \in Processes
         /\ Frames(p)[k].tag[2] \in 1..Len(posted[Frames(p)[k].tag[1]])
<1>1. /\ Frames(p)[k].tag[1] \in Processes
      /\ Frames(p)[k].tag[2] \in 1..Len(posted[Frames(p)[k].tag[1]])
  BY WrittenWasPosted, Zenon
<1>2. PICK q \in Processes : q = Frames(p)[k].tag[1]
  BY <1>1, Zenon
<1>3. PICK n \in 1..Len(posted[q]) : n = Frames(p)[k].tag[2]
  BY <1>1, <1>2, Zenon
<1>4. Carried(Frames(p)[k]) = posted[q][n]
  BY <1>2, <1>3, Zenon DEF Carried
<1>5. posted[q][n] \in net /\ Author(posted[q][n]) = q
  BY <1>4, Zenon DEF Posted
<1> QED
  BY <1>1, <1>2, <1>4, <1>5, Zenon DEF NetWasSent

\* No envelope is in two frames of a socket.
LEMMA OneFrame ==
  ASSUME FramesTagged, Posted, Counts, NetWasSent, NEW p \in Processes,
         NEW i \in 1..Len(Frames(p)), ~IsControl(Frames(p)[i]),
         NEW k \in 1..Len(Frames(p)), ~IsControl(Frames(p)[k]),
         Carried(Frames(p)[i]).type = "EncryptedMessage",
         Carried(Frames(p)[k]) = Carried(Frames(p)[i])
  PROVE  k = i
<1>1. PICK f, g : f = Frames(p)[i] /\ g = Frames(p)[k]
  BY Zenon
<1>2. /\ Carried(f).type = "EncryptedMessage" /\ Carried(g).type = "EncryptedMessage"
      /\ Carried(g) = Carried(f)
  BY <1>1, Zenon
<1>3. /\ Author(Carried(f)) = f.tag[1]
      /\ f.tag[1] \in Processes /\ f.tag[2] \in 1..Len(posted[f.tag[1]])
  BY <1>1, <1>2, CarriedEnvelope, Zenon
<1>4. /\ Author(Carried(g)) = g.tag[1]
      /\ g.tag[1] \in Processes /\ g.tag[2] \in 1..Len(posted[g.tag[1]])
  BY <1>1, <1>2, CarriedEnvelope, Zenon
<1>5. PICK q \in Processes : q = f.tag[1] /\ q = g.tag[1]
  BY <1>2, <1>3, <1>4, Zenon
<1>6. PICK n \in 1..Len(posted[q]) : n = f.tag[2]
  BY <1>3, <1>5, Zenon
<1>7. PICK l \in 1..Len(posted[q]) : l = g.tag[2]
  BY <1>4, <1>5, Zenon
<1>8. posted[q][n] = posted[q][l] /\ posted[q][n].type = "EncryptedMessage"
  BY <1>2, <1>5, <1>6, <1>7, Zenon DEF Carried
<1>9. n = l
  BY <1>8, Zenon DEF Posted
<1>10. g.tag[1] = f.tag[1] /\ g.tag[2] = f.tag[2] /\ ~IsControl(f) /\ ~IsControl(g)
  BY <1>1, <1>5, <1>6, <1>7, <1>9, Zenon
<1> QED
  BY <1>1, <1>10, Zenon DEF FramesTagged

\* An envelope that is still to be read has not been seen, and so it opens when its epoch
\* is the current one.
LEMMA UnreadOpens ==
  ASSUME NonceInv, NetWasSent, FramesTagged, Posted, Counts, SeenWasRead, CurrentEpochReadable,
         \A p, q, r \in Processes : Paired(p, q) /\ Paired(p, r) => q = r
  PROVE  CurrentEpochOpens
<1> SUFFICES ASSUME NEW p \in Processes, NEW q \in Processes, NEW f \in IncomingEvents(p),
                    Between(q, p, Carried(f)), Carried(f).epoch = epoch[p]
             PROVE  Decrypts(p, Carried(f))
  BY Zenon DEF CurrentEpochOpens
<1>1. PICK i \in 1..Len(Frames(p)) : Frames(p)[i] = f /\ ~IsControl(f) /\ i \notin 1..read[p]
  BY UnreadFrames, Zenon
<1>2. PICK m : m = Carried(f)
  BY Zenon
<1>3. m.type = "EncryptedMessage" /\ Author(m) = q /\ Paired(p, q)
  BY <1>2, Zenon DEF Between, Author
<1>4. m \in net /\ m \in sent
  BY <1>1, <1>2, <1>3, CarriedEnvelope, Zenon
<1>5. ASSUME <<m.epoch, m.nonce>> \in inbound_nonces[p] PROVE FALSE
  <2>1. PICK k \in 1..read[p] : OpenedAt(p, k, <<m.epoch, m.nonce>>)
    BY <1>5, Zenon DEF SeenWasRead
  <2>2. read[p] \in Nat /\ read[p] <= Len(written[p])
    BY Zenon DEF Counts
  <2>3. Len(written[p]) \in Nat
    <3>1. PICK S : written[p] \in Seq(S)
      BY Zenon DEF FramesTagged
    <3> QED
      BY <3>1
  <2>4. k \in 1..Len(written[p])
    BY <2>2, <2>3
  <2>5. k \in 1..Len(Frames(p)) /\ Frames(p)[k] = written[p][k]
    BY <2>4, FrameWritten, Zenon
  <2>6. PICK g, n : g = Frames(p)[k] /\ n = Carried(g)
    BY Zenon
  <2>7. /\ ~IsControl(g) /\ n.type = "EncryptedMessage"
        /\ <<m.epoch, m.nonce>> = <<n.epoch, n.nonce>>
        /\ Author(n) \in Processes /\ Paired(p, Author(n))
    BY <2>1, <2>5, <2>6, Zenon DEF OpenedAt
  <2>8. n \in sent
    BY <2>5, <2>6, <2>7, CarriedEnvelope, Zenon
  <2>9. m.nonce = n.nonce /\ Author(n) = Author(m)
    BY <1>3, <2>7, Zenon
  <2>10. m = n
    BY <1>4, <2>8, <2>9, Zenon DEF NonceInv, CountersDiffer
  <2>11. k = i
    BY <1>1, <1>2, <1>3, <2>5, <2>6, <2>7, <2>10, OneFrame, Zenon
  <2> QED
    BY <1>1, <2>11, Zenon
<1>6. NotSeen(p, m)
  BY <1>5, Zenon DEF NotSeen
<1> QED
  BY <1>2, <1>4, <1>6, Zenon DEF CurrentEpochReadable

-----------------------------------------------------------------------------
(* What the relay has in hand.                                             *)

\* An envelope is for the peer of its author.
ForPeer == \A m \in sent : m.recipient = PeerId(Author(m))

\* The event that a task has in hand is the last one it read from its socket, and is for
\* the peer of the client there.
InHand ==
    \A p \in Processes : \A e \in event[p] :
        /\ received[p] \in 1..Len(posted[p])
        /\ e.type = posted[p][received[p]].type /\ e.to = PeerId(p)

\* An Ack is for an envelope that was read.
AcksForEnvelopes ==
    \A a \in accepted : a.event.type = "Ack" =>
        /\ a.event.tag[1] \in Processes /\ a.event.tag[2] \in 1..received[a.event.tag[1]]
        /\ posted[a.event.tag[1]][a.event.tag[2]].type = "EncryptedMessage"

\* What the clients rely on at the relay: it makes an Ack of an envelope that it has in hand.
AcksMade ==
    \A a \in accepted' : a.event.type = "Ack" =>
        \/ a \in accepted
        \/ \E p \in Processes : /\ \E e \in event[p] : e.type = "EncryptedMessage"
                                /\ a.event.tag = <<p, received[p]>>

\* What the router sees of an event that p posted.
LEMMA HeaderOfPosted ==
  ASSUME Posted, NetWasSent, ForPeer, NEW p \in Processes, NEW k \in 1..Len(posted[p])
  PROVE  Header(posted[p][k]).to = PeerId(p) /\ Header(posted[p][k]).type = posted[p][k].type
<1>1. PICK m : m = posted[p][k]
  BY Zenon
<1>2. m \in net /\ (m.type # "EncryptedMessage" => m = PeerKey(p))
  BY <1>1, Zenon DEF Posted, OwnKeys
<1>3. CASE m.type = "EncryptedMessage"
  <2>1. m \in sent /\ Author(m) = p
    BY <1>1, <1>2, <1>3, Zenon DEF NetWasSent, Posted
  <2>2. m.recipient = PeerId(p)
    BY <2>1, Zenon DEF ForPeer
  <2>3. Header(m).to = m.recipient /\ Header(m).type = "EncryptedMessage"
    BY <1>3 DEF Header
  <2> QED
    BY <1>1, <1>3, <2>2, <2>3, Zenon
<1>4. CASE m = PeerKey(p)
  <2>1. m.type = "PeerKey" /\ m.to = PeerId(p)
    BY <1>4, Zenon DEF PeerKey
  <2>2. Header(m).to = m.to /\ Header(m).type = "PeerKey"
    BY <2>1 DEF Header
  <2> QED
    BY <1>1, <2>1, <2>2, Zenon
<1> QED
  BY <1>2, <1>3, <1>4, Zenon

\* A task gets an event from its socket, or keeps or drops the one it has.
LEMMA RelayHands ==
  ASSUME NEW S, event \in [Processes -> SUBSET S], received \in [Processes -> Nat],
         [SystemNext]_systemVars, NEW p \in Processes
  PROVE  \/ event'[p] \subseteq event[p] /\ received'[p] = received[p]
         \/ ServerReceives(p) /\ UNCHANGED posted
<1>1. CASE UNCHANGED systemVars
  BY <1>1, Zenon DEF systemVars, serverVars
<1>2. ASSUME NEW q \in Processes, ClientActs(q) \/ ReadControl(q) \/ ReadEvent(q) \/ SocketCloses(q)
      PROVE  UNCHANGED <<event, received>>
  BY <1>2, Zenon DEF ClientActs, ReadControl, ReadEvent, SocketCloses, serverVars
<1>3. ASSUME NEW q \in Processes,
             \/ Server!Task(q) \/ ServerHello(q) \/ ServerLoses(q) \/ Server!LeaveLoop(q)
             \/ Server!Write(q) \/ ConnectionBreaks(q)
      PROVE  event'[p] \subseteq event[p] /\ received'[p] = received[p]
  <2>1. CASE Server!Task(q)
    <3>1. UNCHANGED received /\ event' \in {event, [event EXCEPT ![q] = {}]}
      BY <2>1, Zenon DEF Server!Task, Server!Authorize, Server!RefuseDuplicate, Server!Register,
         Server!InsertHandle, Server!OnConnect, Server!RouteAccepted, Server!RouteRejected,
         Server!ReportError, Server!DrainTargets, Server!DeliverEvent, Server!DeliveryFails,
         Server!RemoveHandle, Server!Unregister, Server!Disconnect, Server!OnDisconnect,
         Server!Return, Server!taskVars
    <3> QED
      BY <3>1, Zenon
  <2>2. CASE \/ ServerHello(q) \/ ServerLoses(q) \/ Server!LeaveLoop(q) \/ Server!Write(q)
             \/ ConnectionBreaks(q)
    <3>1. UNCHANGED received /\ event' \in {event, [event EXCEPT ![q] = {}]}
      BY <2>2, Zenon DEF ServerHello, ServerLoses, ConnectionBreaks, Server!ReadHello, Server!NoHello,
         Server!SocketEnds, Server!WriterEnds, Server!LeaveLoop, Server!Write, Server!Return,
         Server!taskVars
    <3> QED
      BY <3>1, Zenon
  <2> QED
    BY <1>3, <2>1, <2>2, Zenon
<1>4. ASSUME NEW q \in Processes, ServerReceives(q), q # p
      PROVE  event'[p] \subseteq event[p] /\ received'[p] = received[p]
  <2>1. /\ \E T : event' = [event EXCEPT ![q] = T]
        /\ \E n : received' = [received EXCEPT ![q] = n]
    BY <1>4, Zenon DEF ServerReceives, Server!ReceiveEvent
  <2> QED
    BY <1>4, <2>1, Zenon
<1>5. ASSUME NEW q \in Processes, ConnectionBreaks(q) \/ ServerActs(q)
      PROVE  \/ event'[p] \subseteq event[p] /\ received'[p] = received[p]
             \/ ServerReceives(p) /\ UNCHANGED posted
  BY <1>3, <1>4, <1>5, Zenon DEF ServerActs, socketVars
<1> QED
  BY <1>1, <1>2, <1>5, Zenon DEF SystemNext, Turns

\* What the relay has read stays read, and stays what it is.
LEMMA EventsStay ==
  ASSUME NEW S, event \in [Processes -> SUBSET S], NonceInv, Posted, Posted', Counts,
         [SystemNext]_systemVars, NEW p \in Processes, NEW i \in 1..received[p]
  PROVE  /\ i \in 1..Len(posted'[p]) /\ posted'[p][i] = posted[p][i]
         /\ i \in 1..received'[p]
<1>1. received \in [Processes -> Nat] /\ received[p] \in Nat /\ received[p] <= Len(posted[p])
  BY Zenon DEF Counts
<1>2. /\ Len(posted[p]) <= Len(posted'[p])
      /\ \A j \in 1..Len(posted[p]) : posted'[p][j] = posted[p][j]
  BY StepPosts, PostedGrows, Zenon
<1>3. Len(posted[p]) \in Nat /\ Len(posted'[p]) \in Nat
  <2>1. \A s \in Seq(Envelopes \cup PeerKeys) : Len(s) \in Nat
    OBVIOUS
  <2> QED
    BY <2>1, Zenon DEF Posted
<1>4. i \in 1..Len(posted[p]) /\ i \in 1..Len(posted'[p])
  BY <1>1, <1>2, <1>3, SMT
<1>5. received'[p] = received[p] \/ received'[p] = received[p] + 1
  <2>1. ServerReceives(p) => received'[p] = received[p] + 1
    BY <1>1, Zenon DEF ServerReceives, Server!ReceiveEvent
  <2> QED
    BY <1>1, <2>1, RelayHands, Zenon
<1>6. i \in 1..received'[p]
  BY <1>1, <1>5, SMT
<1> QED
  BY <1>2, <1>4, <1>6, Zenon

\* What a task has in hand came from its client.
LEMMA InHandNext ==
  ASSUME NEW S, event \in [Processes -> SUBSET S], NonceInv, NetWasSent, ForPeer, Posted, Posted',
         Counts, InHand, [SystemNext]_systemVars
  PROVE  InHand'
<1> SUFFICES ASSUME NEW p \in Processes, NEW e \in event'[p]
             PROVE  /\ received'[p] \in 1..Len(posted'[p])
                    /\ e.type = posted'[p][received'[p]].type /\ e.to = PeerId(p)
  BY Zenon DEF InHand
<1>0. received \in [Processes -> Nat] /\ received[p] \in Nat
  BY Zenon DEF Counts
<1>1. CASE event'[p] \subseteq event[p] /\ received'[p] = received[p]
  <2>1. received[p] \in 1..Len(posted[p]) /\ e.type = posted[p][received[p]].type /\ e.to = PeerId(p)
    BY <1>1, Zenon DEF InHand
  <2>2. received[p] \in 1..received[p]
    BY <1>0, <2>1, SMT
  <2>3. received[p] \in 1..Len(posted'[p]) /\ posted'[p][received[p]] = posted[p][received[p]]
    BY <2>2, EventsStay, Zenon
  <2> QED
    BY <1>1, <2>1, <2>3, Zenon
<1>2. CASE ServerReceives(p) /\ UNCHANGED posted
  <2>1. PICK k : k = received[p] + 1
    BY Zenon
  <2>2. received'[p] = k /\ received[p] < Len(posted[p]) /\ posted' = posted
    BY <1>0, <1>2, <2>1, Zenon DEF ServerReceives, Server!ReceiveEvent
  <2>3. k \in 1..Len(posted[p])
    <3>1. Len(posted[p]) \in Nat
      <4>1. \A s \in Seq(Envelopes \cup PeerKeys) : Len(s) \in Nat
        OBVIOUS
      <4> QED
        BY <4>1, Zenon DEF Posted
    <3> QED
      BY <1>0, <2>1, <2>2, <3>1, SMT
  <2>4. PICK x : event' = [event EXCEPT ![p] = {x}]
    BY <1>2, Zenon DEF ServerReceives, Server!ReceiveEvent
  <2>5. \A f \in event'[p] : f = e
    <3>1. event'[p] = {x}
      BY <2>4, Zenon
    <3> QED
      BY <3>1, Zenon
  <2>6. [type |-> e.type, from |-> e.from, to |-> e.to] = Header(posted[p][k])
    BY <1>2, <2>1, <2>5, Zenon DEF ServerReceives
  <2>7. PICK h : h = Header(posted[p][k])
    BY Zenon
  <2>8. h.type = e.type /\ h.to = e.to
    <3>1. h = [type |-> e.type, from |-> e.from, to |-> e.to]
      BY <2>6, <2>7, Zenon
    <3> QED
      BY <3>1, Zenon
  <2>9. h.to = PeerId(p) /\ h.type = posted[p][k].type
    BY <2>3, <2>7, HeaderOfPosted, Zenon
  <2> QED
    BY <2>2, <2>3, <2>8, <2>9, Zenon
<1> QED
  BY <1>0, <1>1, <1>2, RelayHands, Zenon

\* An Ack is for an envelope.
LEMMA AcksNext ==
  ASSUME NEW S, event \in [Processes -> SUBSET S], NonceInv, Posted, Posted', Counts, InHand,
         AcksForEnvelopes, AcksMade, [SystemNext]_systemVars
  PROVE  AcksForEnvelopes'
<1> SUFFICES ASSUME NEW a \in accepted', a.event.type = "Ack"
             PROVE  /\ a.event.tag[1] \in Processes
                    /\ a.event.tag[2] \in 1..received'[a.event.tag[1]]
                    /\ posted'[a.event.tag[1]][a.event.tag[2]].type = "EncryptedMessage"
  BY Zenon DEF AcksForEnvelopes
<1>1. PICK p : p = a.event.tag[1]
  BY Zenon
<1>2. PICK n : n = a.event.tag[2]
  BY Zenon
<1>3. p \in Processes /\ n \in 1..received[p] /\ posted[p][n].type = "EncryptedMessage"
  <2>1. CASE a \in accepted
    BY <1>1, <1>2, <2>1, Zenon DEF AcksForEnvelopes
  <2>2. CASE \E q \in Processes : /\ \E e \in event[q] : e.type = "EncryptedMessage"
                                  /\ a.event.tag = <<q, received[q]>>
    <3>1. PICK q \in Processes : /\ \E e \in event[q] : e.type = "EncryptedMessage"
                                 /\ a.event.tag = <<q, received[q]>>
      BY <2>2, Zenon
    <3>2. a.event.tag[1] = q /\ a.event.tag[2] = received[q]
      BY <3>1
    <3>3. p = q /\ n = received[p]
      BY <1>1, <1>2, <3>2, Zenon
    <3>4. received[q] \in 1..Len(posted[q]) /\ posted[q][received[q]].type = "EncryptedMessage"
      BY <3>1, Zenon DEF InHand
    <3>5. /\ p \in Processes /\ n = received[p] /\ n \in 1..Len(posted[p])
          /\ posted[p][n].type = "EncryptedMessage"
      BY <3>3, <3>4, Zenon
    <3>6. received[p] \in Nat
      BY <3>5, Zenon DEF Counts
    <3> QED
      BY <3>5, <3>6, SMT
  <2> QED
    BY <2>1, <2>2, Zenon DEF AcksMade
<1>4. n \in 1..received'[p] /\ posted'[p][n] = posted[p][n]
  BY <1>3, EventsStay, Zenon
<1> QED
  BY <1>1, <1>2, <1>3, <1>4, Zenon

\* A client that has posted keys only, as far as the relay has read, is owed no Ack.
LEMMA NoneOwed ==
  ASSUME AcksForEnvelopes, NEW p, \A i \in 1..received[p] : posted[p][i].type = "PeerKey"
  PROVE  \A a \in accepted : a.event.type = "Ack" => a.event.tag[1] # p
<1> SUFFICES ASSUME NEW a \in accepted, a.event.type = "Ack", a.event.tag[1] = p PROVE FALSE
  BY Zenon
<1>1. PICK n : n = a.event.tag[2]
  BY Zenon
<1>2. n \in 1..received[p] /\ posted[p][n].type = "EncryptedMessage"
  BY <1>1, Zenon DEF AcksForEnvelopes
<1>3. posted[p][n].type = "PeerKey"
  BY <1>2, Zenon
<1> QED
  BY <1>2, <1>3
=============================================================================
