----------------------------- MODULE WireProofs -----------------------------
(***************************************************************************)
(* What clients and relay make of text, for ids, keys, pins and frames of  *)
(* any length: the bytes that are derived from two client ids determine    *)
(* the ids, and what one end encodes the other decodes.                    *)
(***************************************************************************)
EXTENDS Wire, SequenceTheorems, WellFoundedInduction, TLAPS

\* The texts that ClientId::parse accepts.
ParsedIds == {value \in Seq(Nat) : ParseClientId(value) # {}}

\* No separator occurs in the text.
Unbroken(text) == \A i \in 1..Len(text) : text[i] # 0

\* A parsed id has no separator in it.
LEMMA NoSeparator ==
  ASSUME NEW id \in ParsedIds
  PROVE  id \in Seq(Nat) /\ Unbroken(id)
<1>1. ParseError(id) = {} /\ id \in Seq(Nat)
  BY DEF ParsedIds, ParseClientId
<1>2. \A i \in 1..Len(id) : IsAllowedClientIdChar(id[i])
  BY <1>1, ZenonT(60) DEF ParseError
<1>3. ~IsAllowedClientIdChar(0)
  BY DEF IsAllowedClientIdChar, IsAsciiAlphanumeric, IsAsciiDigit
<1> QED
  BY <1>1, <1>2, <1>3 DEF Unbroken

\* Two texts around a separator.
Join(a, b) == a \o Separator \o b

\* The places of the two texts in the joined one.
Splits(s, a, b) ==
    /\ Len(s) = Len(a) + 1 + Len(b)
    /\ \A i \in 1..Len(a) : s[i] = a[i]
    /\ s[Len(a) + 1] = 0
    /\ \A i \in 1..Len(b) : s[Len(a) + 1 + i] = b[i]

\* A joined text consists of its parts.
LEMMA Joined ==
  ASSUME NEW a \in Seq(Nat), NEW b \in Seq(Nat)
  PROVE  Join(a, b) \in Seq(Nat) /\ Splits(Join(a, b), a, b)
<1> DEFINE s == a \o Separator
<1>1. s \in Seq(Nat) /\ Len(s) = Len(a) + 1
  BY DEF Separator
<1>2. (\A i \in 1..Len(a) : s[i] = a[i]) /\ s[Len(a) + 1] = 0
  BY DEF Separator
<1> DEFINE t == s \o b
<1>3. Join(a, b) = t
  BY DEF Join
<1> HIDE DEF s
<1>4. /\ t \in Seq(Nat) /\ Len(t) = Len(s) + Len(b)
      /\ \A i \in 1..Len(s) + Len(b) : t[i] = IF i <= Len(s) THEN s[i] ELSE b[i - Len(s)]
  BY <1>1, ConcatProperties, ZenonT(60)
<1> HIDE DEF t
<1>5. Len(a) \in Nat /\ Len(b) \in Nat
  OBVIOUS
<1>6. \A i \in 1..Len(a) + 1 : t[i] = s[i]
  <2> TAKE i \in 1..Len(a) + 1
  <2>1. i \in 1..Len(s) + Len(b) /\ i <= Len(s)
    BY <1>1, <1>5
  <2> QED
    BY <1>4, <2>1, ZenonT(60)
<1>7. \A i \in 1..Len(b) : t[Len(a) + 1 + i] = b[i]
  <2> TAKE i \in 1..Len(b)
  <2> DEFINE j == Len(a) + 1 + i
  <2>1. j \in 1..Len(s) + Len(b) /\ ~(j <= Len(s)) /\ j - Len(s) = i
    BY <1>1, <1>5, SMTT(60)
  <2> HIDE DEF j
  <2>2. t[j] = b[j - Len(s)]
    BY <1>4, <2>1, ZenonT(60)
  <2> QED
    BY <2>1, <2>2, Zenon DEF j
<1>8. \A i \in 1..Len(a) : t[i] = a[i]
  BY <1>2, <1>5, <1>6
<1>9. t[Len(a) + 1] = 0
  <2>1. Len(a) + 1 \in 1..Len(a) + 1
    BY <1>5
  <2>2. t[Len(a) + 1] = s[Len(a) + 1]
    BY <1>6, <2>1, Zenon
  <2> QED
    BY <1>2, <2>2, Zenon
<1>10. Len(t) = Len(a) + 1 + Len(b)
  BY <1>1, <1>4, <1>5
<1>11. Splits(t, a, b)
  BY <1>7, <1>8, <1>9, <1>10, Zenon DEF Splits
<1> QED
  BY <1>3, <1>4, <1>11, Zenon

\* A separator that the first part does not contain splits a text in one way only.
LEMMA SplitAtSeparator ==
  ASSUME NEW a \in Seq(Nat), NEW b \in Seq(Nat), NEW c \in Seq(Nat), NEW d \in Seq(Nat),
         Unbroken(a), Unbroken(c),
         Join(a, b) = Join(c, d)
  PROVE  a = c /\ b = d
<1> DEFINE s == Join(a, b)
<1>1. Splits(s, a, b)
  BY Joined, Zenon
<1>2. Splits(s, c, d)
  BY Joined, Zenon
<1> HIDE DEF s
<1>3. Len(a) \in Nat /\ Len(b) \in Nat /\ Len(c) \in Nat /\ Len(d) \in Nat
  OBVIOUS
<1>4. ~(Len(a) < Len(c))
  <2> SUFFICES ASSUME Len(a) < Len(c) PROVE FALSE
    OBVIOUS
  <2>1. Len(a) + 1 \in 1..Len(c)
    BY <1>3
  <2> QED
    BY <1>1, <1>2, <2>1, ZenonT(60) DEF Unbroken, Splits
<1>5. ~(Len(c) < Len(a))
  <2> SUFFICES ASSUME Len(c) < Len(a) PROVE FALSE
    OBVIOUS
  <2>1. Len(c) + 1 \in 1..Len(a)
    BY <1>3
  <2> QED
    BY <1>1, <1>2, <2>1, ZenonT(60) DEF Unbroken, Splits
<1>6. Len(a) = Len(c)
  BY <1>3, <1>4, <1>5
<1>7. Len(b) = Len(d)
  BY <1>1, <1>2, <1>3, <1>6 DEF Splits
<1>8. a = c
  BY <1>1, <1>2, <1>6, SeqEqual, Zenon DEF Splits
<1>9. b = d
  BY <1>1, <1>2, <1>6, <1>7, SeqEqual, Zenon DEF Splits
<1> QED
  BY <1>8, <1>9

\* Two texts after a label, as both derivations write them.
Bytes(label, a, b) == label \o Separator \o a \o Separator \o b

\* The order of concatenation does not matter.
LEMMA BytesAreJoined ==
  ASSUME NEW l \in Seq(Nat), NEW a \in Seq(Nat), NEW b \in Seq(Nat)
  PROVE  Bytes(l, a, b) = (l \o Separator) \o Join(a, b)
<1> DEFINE p == l \o Separator
           w == a \o Separator
<1>1. Separator \in Seq(Nat)
  BY DEF Separator
<1>2. p \in Seq(Nat) /\ w \in Seq(Nat)
  BY <1>1
<1>3. Bytes(l, a, b) = ((p \o a) \o Separator) \o b /\ Join(a, b) = w \o b
  BY Zenon DEF Bytes, Join
<1> HIDE DEF p
<1>4. (p \o a) \o Separator = p \o w
  BY <1>1, <1>2, SMTT(60)
<1> HIDE DEF w
<1>5. (p \o w) \o b = p \o (w \o b)
  BY <1>2, SMTT(60)
<1> QED
  BY <1>3, <1>4, <1>5, Zenon DEF p

\* Two labelled pairs with the same bytes are the same pair.
LEMMA Labelled ==
  ASSUME NEW l \in Seq(Nat), NEW a \in Seq(Nat), NEW b \in Seq(Nat),
         NEW c \in Seq(Nat), NEW d \in Seq(Nat),
         Unbroken(a), Unbroken(c),
         Bytes(l, a, b) = Bytes(l, c, d)
  PROVE  a = c /\ b = d
<1> DEFINE p == l \o Separator
           u == Join(a, b)
           v == Join(c, d)
<1>1. p \in Seq(Nat) /\ u \in Seq(Nat) /\ v \in Seq(Nat)
  BY Joined DEF Separator
<1>2. p \o u = p \o v
  <2>1. Bytes(l, a, b) = p \o u
    BY BytesAreJoined, ZenonT(60)
  <2>2. Bytes(l, c, d) = p \o v
    BY BytesAreJoined, ZenonT(60)
  <2> QED
    BY <2>1, <2>2, ZenonT(60)
<1> HIDE DEF p, u, v
<1>3. u = v
  BY <1>1, <1>2, ConcatSimplifications, ZenonT(60)
<1> QED
  BY <1>3, SplitAtSeparator DEF u, v

\* Two directions, of one pair of clients or of two, never hash the same bytes to their
\* nonce prefix (nonce_prefix; ClientId::parse admits no NUL).
THEOREM NoncePrefixInjective ==
  ASSUME NEW a \in ParsedIds, NEW b \in ParsedIds, NEW c \in ParsedIds, NEW d \in ParsedIds,
         NoncePrefixBytes(a, b) = NoncePrefixBytes(c, d)
  PROVE  a = c /\ b = d
<1>1. /\ a \in Seq(Nat) /\ b \in Seq(Nat) /\ c \in Seq(Nat) /\ d \in Seq(Nat)
      /\ Unbroken(a) /\ Unbroken(c)
  BY NoSeparator
<1>2. Bytes(NonceLabel, a, b) = Bytes(NonceLabel, c, d)
  BY Zenon DEF NoncePrefixBytes, Bytes
<1>3. NonceLabel \in Seq(Nat)
  BY DEF NonceLabel
<1> QED
  BY <1>1, <1>2, <1>3, Labelled

\* Sessions that derive their keys from the same info are sessions of the same two
\* clients (session_info).
THEOREM SessionInfoNamesPair ==
  ASSUME NEW a \in ParsedIds, NEW b \in ParsedIds, NEW c \in ParsedIds, NEW d \in ParsedIds,
         SessionInfoBytes(a, b) = SessionInfoBytes(c, d)
  PROVE  {a, b} = {c, d}
<1> DEFINE x == SortedIds(a, b)
           y == SortedIds(c, d)
<1>1. x \in {<<a, b>>, <<b, a>>} /\ y \in {<<c, d>>, <<d, c>>}
  BY DEF SortedIds
<1>2. Bytes(SessionLabel, x[1], x[2]) = Bytes(SessionLabel, y[1], y[2])
  BY Zenon DEF SessionInfoBytes, Bytes
<1>a. SessionLabel \in Seq(Nat)
  BY DEF SessionLabel
<1> HIDE DEF x, y
<1>3. x[1] \in ParsedIds /\ x[2] \in ParsedIds /\ y[1] \in ParsedIds /\ y[2] \in ParsedIds
  BY <1>1
<1>4. /\ x[1] \in Seq(Nat) /\ x[2] \in Seq(Nat) /\ y[1] \in Seq(Nat) /\ y[2] \in Seq(Nat)
      /\ Unbroken(x[1]) /\ Unbroken(y[1])
  BY <1>3, NoSeparator
<1>5. x[1] = y[1] /\ x[2] = y[2]
  BY <1>2, <1>4, <1>a, Labelled
<1> QED
  BY <1>1, <1>5

-----------------------------------------------------------------------------
(* Encoding and decoding.                                                  *)

\* What ClientId::parse accepts it leaves as it is.
LEMMA ParseKeeps ==
  \A value, id : id \in ParseClientId(value) => id = value /\ ParseClientId(id) = {id}
  BY Zenon DEF ParseClientId

\* Encoded bytes decode to themselves, and to nothing if their number is wrong.
LEMMA BytesDecode ==
  /\ \A bytes : DeserializeBytes(SerializeBytes(bytes)) = {bytes}
  /\ \A bytes, n : Len(bytes) = n => DeserializeArray(SerializeBytes(bytes), n) = {bytes}
<1>1. ASSUME NEW bytes PROVE DeserializeBytes(SerializeBytes(bytes)) = {bytes}
  BY DEF SerializeBytes, DeserializeBytes, Base64Decode, Base64Encode
<1> QED
  BY <1>1, Zenon DEF DeserializeArray

\* A text decodes to one sequence of bytes at most.
LEMMA OneDecoding ==
  /\ \A text, x : x \in DeserializeBytes(text) => DeserializeBytes(text) = {x}
  /\ \A text, n, x : x \in DeserializeArray(text, n) =>
                       DeserializeArray(text, n) = {x} /\ Len(x) = n
<1>1. ASSUME NEW text, NEW x \in DeserializeBytes(text) PROVE DeserializeBytes(text) = {x}
  BY Zenon DEF DeserializeBytes, Base64Decode
<1>2. ASSUME NEW text, NEW n, NEW x \in DeserializeArray(text, n)
      PROVE  DeserializeArray(text, n) = {x} /\ Len(x) = n
  <2>1. DeserializeBytes(text) = {x} /\ Len(x) = n
    BY <1>1, Zenon DEF DeserializeArray
  <2> QED
    BY <2>1, Zenon DEF DeserializeArray
<1> QED
  BY <1>1, <1>2, Zenon

\* A known code survives both conversions; so does the code of a later relay.
LEMMA CodesDecode ==
  /\ \A k \in DOMAIN WireStr : FromWire(AsWireStr(Known(k))) = {Known(k)}
  /\ \A raw \in OtherCodes : FromWire(AsWireStr(Other(raw))) = {Other(raw)}
<1>1. ASSUME NEW k \in DOMAIN WireStr PROVE FromWire(AsWireStr(Known(k))) = {Known(k)}
  <2>1. k # "Other" /\ \A j \in DOMAIN WireStr : WireStr[j] = WireStr[k] => j = k
    BY DEF WireStr
  <2>2. AsWireStr(Known(k)) = WireStr[k]
    BY <2>1 DEF AsWireStr, Known
  <2>3. {j \in DOMAIN WireStr : WireStr[j] = WireStr[k]} = {k}
    BY <2>1, Zenon
  <2>4. FromWire(WireStr[k]) = {Known(code) : code \in {k}}
    BY <2>3, Zenon DEF FromWire
  <2> QED
    BY <2>2, <2>4, Zenon
<1>2. ASSUME NEW raw \in OtherCodes PROVE FromWire(AsWireStr(Other(raw))) = {Other(raw)}
  <2>1. AsWireStr(Other(raw)) = raw
    BY Zenon DEF AsWireStr, Other
  <2>2. FromWire(raw) = {Other(raw)}
    BY OtherCodesAreNew, Zenon DEF FromWire
  <2> QED
    BY <2>1, <2>2, Zenon
<1> QED
  BY <1>1, <1>2, Zenon

\* The events by their fields.
HelloEvent(id, key) == [type |-> "ClientHello", client_id |-> id, public_key |-> key]
KeyEvent(from, to, key) == [type |-> "PeerKey", from |-> from, to |-> to, public_key |-> key]
EnvelopeEvent(from, to, id, epoch, nonce, text) ==
    [type |-> "EncryptedMessage", sender |-> from, recipient |-> to, message_id |-> id,
     epoch |-> epoch, nonce |-> nonce, ciphertext |-> text]

\* A ClientHello survives both conversions.
LEMMA HelloDecodes ==
  ASSUME NEW id, NEW key, ParseClientId(id) = {id}, Len(key) = PublicKeyLen
  PROVE  FromJson(ToJson(HelloEvent(id, key))) = {HelloEvent(id, key)}
<1> DEFINE e == HelloEvent(id, key)
<1> DEFINE t == [type |-> "client_hello", client_id |-> id, public_key |-> SerializePublicKey(key)]
<1>1. ToJson(e) = t
  BY DEF ToJson, HelloEvent
<1>2. DeserializePublicKey(SerializePublicKey(key)) = {key}
  BY BytesDecode, Zenon DEF DeserializePublicKey, SerializePublicKey
<1>3. FromJson(t) =
        {[type |-> "ClientHello", client_id |-> i, public_key |-> k] :
           i \in ParseClientId(t.client_id), k \in DeserializePublicKey(t.public_key)}
  BY DEF FromJson
<1>4. t.client_id = id /\ t.public_key = SerializePublicKey(key)
  OBVIOUS
<1> HIDE DEF t
<1>5. FromJson(t) =
        {[type |-> "ClientHello", client_id |-> i, public_key |-> k] : i \in {id}, k \in {key}}
  BY <1>2, <1>3, <1>4
<1> QED
  BY <1>1, <1>5 DEF HelloEvent

\* The same of a PeerKey.
LEMMA PeerKeyDecodes ==
  ASSUME NEW from, NEW to, NEW key,
         ParseClientId(from) = {from}, ParseClientId(to) = {to}, Len(key) = PublicKeyLen
  PROVE  FromJson(ToJson(KeyEvent(from, to, key))) = {KeyEvent(from, to, key)}
<1> DEFINE e == KeyEvent(from, to, key)
<1> DEFINE t == [type |-> "peer_key", from |-> from, to |-> to,
                 public_key |-> SerializePublicKey(key)]
<1>1. ToJson(e) = t
  BY DEF ToJson, KeyEvent
<1>2. DeserializePublicKey(SerializePublicKey(key)) = {key}
  BY BytesDecode, Zenon DEF DeserializePublicKey, SerializePublicKey
<1>3. FromJson(t) =
        {[type |-> "PeerKey", from |-> i, to |-> j, public_key |-> k] :
           i \in ParseClientId(t.from), j \in ParseClientId(t.to),
           k \in DeserializePublicKey(t.public_key)}
  BY DEF FromJson
<1>4. t.from = from /\ t.to = to /\ t.public_key = SerializePublicKey(key)
  OBVIOUS
<1> HIDE DEF t
<1>5. FromJson(t) =
        {[type |-> "PeerKey", from |-> i, to |-> j, public_key |-> k] :
           i \in {from}, j \in {to}, k \in {key}}
  BY <1>2, <1>3, <1>4
<1> QED
  BY <1>1, <1>5 DEF KeyEvent

\* The same of an EncryptedMessage.
LEMMA EnvelopeDecodes ==
  ASSUME NEW from, NEW to, NEW id, NEW epoch, NEW nonce, NEW text,
         ParseClientId(from) = {from}, ParseClientId(to) = {to}, Len(nonce) = NonceLen
  PROVE  FromJson(ToJson(EnvelopeEvent(from, to, id, epoch, nonce, text)))
           = {EnvelopeEvent(from, to, id, epoch, nonce, text)}
<1> DEFINE e == EnvelopeEvent(from, to, id, epoch, nonce, text)
<1> DEFINE t == [type |-> "encrypted_message", sender |-> from, recipient |-> to,
                 message_id |-> id, epoch |-> epoch, nonce |-> SerializeNonce(nonce),
                 ciphertext |-> SerializeCiphertext(text)]
<1>1. ToJson(e) = t
  BY DEF ToJson, EnvelopeEvent
<1>2. /\ DeserializeNonce(SerializeNonce(nonce)) = {nonce}
      /\ DeserializeCiphertext(SerializeCiphertext(text)) = {text}
  BY BytesDecode, Zenon DEF DeserializeNonce, SerializeNonce, DeserializeCiphertext,
     SerializeCiphertext
<1>3. FromJson(t) =
        {[type |-> "EncryptedMessage", sender |-> i, recipient |-> j,
          message_id |-> t.message_id, epoch |-> t.epoch, nonce |-> n, ciphertext |-> c] :
           i \in ParseClientId(t.sender), j \in ParseClientId(t.recipient),
           n \in DeserializeNonce(t.nonce), c \in DeserializeCiphertext(t.ciphertext)}
  BY DEF FromJson
<1>4. /\ t.sender = from /\ t.recipient = to /\ t.message_id = id /\ t.epoch = epoch
      /\ t.nonce = SerializeNonce(nonce) /\ t.ciphertext = SerializeCiphertext(text)
  OBVIOUS
<1> HIDE DEF t
<1>5. FromJson(t) =
        {[type |-> "EncryptedMessage", sender |-> i, recipient |-> j,
          message_id |-> id, epoch |-> epoch, nonce |-> n, ciphertext |-> c] :
           i \in {from}, j \in {to}, n \in {nonce}, c \in {text}}
  BY <1>2, <1>3, <1>4
<1> QED
  BY <1>1, <1>5 DEF EnvelopeEvent

\* The same of an Error, whatever its code.
LEMMA ErrorDecodes ==
  ASSUME NEW code, FromWire(AsWireStr(code)) = {code}
  PROVE  FromJson(ToJson([type |-> "Error", code |-> code])) = {[type |-> "Error", code |-> code]}
<1> DEFINE e == [type |-> "Error", code |-> code]
<1> DEFINE t == [type |-> "error", code |-> AsWireStr(code)]
<1>1. ToJson(e) = t
  BY DEF ToJson
<1>2. FromJson(t) = {[type |-> "Error", code |-> c] : c \in FromWire(t.code)}
  BY DEF FromJson
<1>3. t.code = AsWireStr(code)
  OBVIOUS
<1> HIDE DEF t
<1>4. FromJson(t) = {[type |-> "Error", code |-> c] : c \in {code}}
  BY <1>2, <1>3, Zenon
<1> QED
  BY <1>1, <1>4

\* A forwarded event is the only one its frame stands for, and decodes again.
LEMMA ForwardedDecodes ==
  ASSUME NEW t, NEW e \in FromJson(t), e.type \in {"PeerKey", "EncryptedMessage"}
  PROVE  FromJson(t) = {e} /\ FromJson(ToJson(e)) = {e}
<1>1. t.type \in {"peer_key", "encrypted_message"}
  BY DEF FromJson
<1>2. CASE t.type = "peer_key"
  <2>1. FromJson(t) =
          {[type |-> "PeerKey", from |-> i, to |-> j, public_key |-> k] :
             i \in ParseClientId(t.from), j \in ParseClientId(t.to),
             k \in DeserializePublicKey(t.public_key)}
    BY <1>2 DEF FromJson
  <2>2. PICK i \in ParseClientId(t.from), j \in ParseClientId(t.to),
             k \in DeserializePublicKey(t.public_key) :
               e = KeyEvent(i, j, k)
    BY <2>1 DEF KeyEvent
  <2>3. /\ ParseClientId(t.from) = {i} /\ ParseClientId(i) = {i}
        /\ ParseClientId(t.to) = {j} /\ ParseClientId(j) = {j}
    BY <2>2, ParseKeeps, Zenon
  <2>4. DeserializePublicKey(t.public_key) = {k} /\ Len(k) = PublicKeyLen
    BY <2>2, OneDecoding, Zenon DEF DeserializePublicKey
  <2>5. FromJson(t) = {e}
    BY <2>1, <2>2, <2>3, <2>4 DEF KeyEvent
  <2>6. FromJson(ToJson(e)) = {e}
    BY <2>2, <2>3, <2>4, PeerKeyDecodes, Zenon
  <2> QED
    BY <2>5, <2>6
<1>3. CASE t.type = "encrypted_message"
  <2>1. FromJson(t) =
          {[type |-> "EncryptedMessage", sender |-> i, recipient |-> j,
            message_id |-> t.message_id, epoch |-> t.epoch, nonce |-> n, ciphertext |-> c] :
             i \in ParseClientId(t.sender), j \in ParseClientId(t.recipient),
             n \in DeserializeNonce(t.nonce), c \in DeserializeCiphertext(t.ciphertext)}
    BY <1>3 DEF FromJson
  <2>2. PICK i \in ParseClientId(t.sender), j \in ParseClientId(t.recipient),
             n \in DeserializeNonce(t.nonce), c \in DeserializeCiphertext(t.ciphertext) :
               e = EnvelopeEvent(i, j, t.message_id, t.epoch, n, c)
    BY <2>1 DEF EnvelopeEvent
  <2>3. /\ ParseClientId(t.sender) = {i} /\ ParseClientId(i) = {i}
        /\ ParseClientId(t.recipient) = {j} /\ ParseClientId(j) = {j}
    BY <2>2, ParseKeeps, Zenon
  <2>4. DeserializeNonce(t.nonce) = {n} /\ Len(n) = NonceLen
    BY <2>2, OneDecoding, Zenon DEF DeserializeNonce
  <2>5. DeserializeCiphertext(t.ciphertext) = {c}
    BY <2>2, OneDecoding, Zenon DEF DeserializeCiphertext
  <2>6. FromJson(t) = {e}
    BY <2>1, <2>2, <2>3, <2>4, <2>5 DEF EnvelopeEvent
  <2>7. FromJson(ToJson(e)) = {e}
    BY <2>2, <2>3, <2>4, EnvelopeDecodes
  <2> QED
    BY <2>6, <2>7
<1> QED
  BY <1>1, <1>2, <1>3, Zenon

-----------------------------------------------------------------------------
(* The invariants of the way of text.                                      *)

\* What the two clients were started with and how far they got.
WireTypeOK ==
    /\ args \in [Ends -> Args]
    /\ status \in [Ends -> {"new", "running", "failed"}]
    /\ DOMAIN ids = Ends /\ DOMAIN pin = Ends /\ DOMAIN peer_public_key = Ends

\* A client that runs has parsed both ids (run).
IdsParsed == \A c \in Ends : status[c] = "running" => ids[c] \in ParsedIds \X ParsedIds

\* An error that the relay found is the event under way (reject_connection, handle_socket).
Reported == \A p \in problem : event = {[type |-> "Error", code |-> Known(p)]}

\* The invariant behind FramesDecode, ReportNamesProblem and DerivedBytesMatch.
WireInv == WireTypeOK /\ IdsParsed /\ FramesDecode /\ Reported

\* What a client was started with is text, and at most one pin.
LEMMA ArgTexts ==
  ASSUME WireTypeOK, NEW c \in Ends
  PROVE  /\ args[c].id \in Seq(Nat) /\ args[c].peer \in Seq(Nat)
         /\ args[c].pin \in SUBSET Seq(Nat) /\ \A x, y \in args[c].pin : x = y
  BY ArgsAreTexts, Zenon DEF WireTypeOK

\* Nothing is on its way and nobody runs.
LEMMA WireInvInit == Init => WireInv
<1> SUFFICES ASSUME Init PROVE WireInv
  OBVIOUS
<1>1. WireTypeOK /\ IdsParsed
  BY DEF Init, WireTypeOK, IdsParsed
<1>2. FramesDecode /\ Reported
  BY Zenon DEF Init, FramesDecode, Reported
<1> QED
  BY <1>1, <1>2, Zenon DEF WireInv

\* A step keeps the clients typed and parsed: only a start sets the ids.
LEMMA ClientsStayParsed == WireInv /\ [Next]_vars => WireTypeOK' /\ IdsParsed'
<1> SUFFICES ASSUME WireTypeOK, IdsParsed, [Next]_vars PROVE WireTypeOK' /\ IdsParsed'
  BY Zenon DEF WireInv
<1>1. ASSUME NEW c \in Ends, Start(c) PROVE WireTypeOK' /\ IdsParsed'
  <2>1. PICK local \in ParseClientId(args[c].id), peer \in ParseClientId(args[c].peer),
             p \in Pins(args[c].pin) :
          /\ ids' = [ids EXCEPT ![c] = <<local, peer>>]
          /\ pin' = [pin EXCEPT ![c] = p]
    BY <1>1, Zenon DEF Start
  <2>2. local \in ParsedIds /\ peer \in ParsedIds
    <3>1. local = args[c].id /\ ParseClientId(local) = {local}
      BY <2>1, ParseKeeps, Zenon
    <3>2. peer = args[c].peer /\ ParseClientId(peer) = {peer}
      BY <2>1, ParseKeeps, Zenon
    <3> QED
      BY <3>1, <3>2, ArgTexts, Zenon DEF ParsedIds
  <2>3. WireTypeOK'
    BY <1>1, <2>1, Zenon DEF WireTypeOK, Start
  <2>4. IdsParsed'
    BY <1>1, <2>1, <2>2 DEF WireTypeOK, IdsParsed, Start
  <2> QED
    BY <2>3, <2>4
<1>2. ASSUME NEW c \in Ends, StartFails(c) PROVE WireTypeOK' /\ IdsParsed'
  BY <1>2 DEF WireTypeOK, IdsParsed, StartFails
<1>3. ASSUME NEW c \in Ends, ClientReads(c) PROVE WireTypeOK' /\ IdsParsed'
  <2>1. \E s \in {"running", "failed"} : status' = [status EXCEPT ![c] = s] /\ status[c] = "running"
    BY <1>3, Zenon DEF ClientReads
  <2>2. UNCHANGED <<args, ids, pin>> /\ DOMAIN peer_public_key' = DOMAIN peer_public_key
    BY <1>3, Zenon DEF ClientReads
  <2> QED
    BY <2>1, <2>2 DEF WireTypeOK, IdsParsed
<1>4. CASE UNCHANGED clientVars
  BY <1>4 DEF WireTypeOK, IdsParsed, clientVars
<1>5. CASE Send \/ SendOther \/ RelaySkips \/ RelayForwards
  BY <1>4, <1>5, Zenon DEF Send, SendOther, RelaySkips, RelayForwards, clientVars
<1>6. CASE RelayReports \/ RelayDenies \/ NewerRelayReports
  BY <1>4, <1>6, Zenon DEF RelayReports, RelayDenies, NewerRelayReports, Report, clientVars
<1>7. CASE UNCHANGED vars
  BY <1>4, <1>7, Zenon DEF vars, clientVars
<1> QED
  BY <1>1, <1>2, <1>3, <1>5, <1>6, <1>7, Zenon DEF Next

\* What a running client sends decodes.
LEMMA SentDecodes ==
  ASSUME WireInv, NEW c \in Ends, status[c] = "running",
         NEW e \in {ClientHello(c), PeerKey(c)}
  PROVE  FromJson(ToJson(e)) = {e}
<1>1. PICK local \in ParsedIds, peer \in ParsedIds : ids[c] = <<local, peer>>
  BY DEF WireInv, IdsParsed
<1>2. ids[c][1] = local /\ ids[c][2] = peer
  BY <1>1
<1>3. ParseClientId(local) = {local} /\ ParseClientId(peer) = {peer}
  <2>1. \A id \in ParsedIds : ParseClientId(id) = {id}
    BY Zenon DEF ParsedIds, ParseClientId
  <2> QED
    BY <2>1, Zenon
<1>4. Len(PublicKey[c]) = PublicKeyLen
  BY PublicKeysHaveLength, Zenon
<1>5. CASE e = ClientHello(c)
  <2>1. e = HelloEvent(local, PublicKey[c])
    BY <1>2, <1>5, Zenon DEF ClientHello, HelloEvent
  <2> QED
    BY <1>3, <1>4, <2>1, HelloDecodes, Zenon
<1>6. CASE e = PeerKey(c)
  <2>1. e = KeyEvent(local, peer, PublicKey[c])
    BY <1>2, <1>6, Zenon DEF PeerKey, KeyEvent
  <2> QED
    BY <1>3, <1>4, <2>1, PeerKeyDecodes, Zenon
<1> QED
  BY <1>5, <1>6, Zenon

\* A report decodes to the code it was made from.
LEMMA ReportDecodes ==
  ASSUME NEW code, FromWire(AsWireStr(code)) = {code}, Report(code)
  PROVE  /\ event' = {[type |-> "Error", code |-> code]}
         /\ \A t \in frame' : FromJson(t) = event'
<1> DEFINE e == [type |-> "Error", code |-> code]
<1>1. FromJson(ToJson(e)) = {e}
  BY ErrorDecodes
<1> HIDE DEF e
<1>2. event' = {e} /\ frame' = {ToJson(e)}
  BY Zenon DEF Report, e
<1> QED
  BY <1>1, <1>2, Zenon DEF e

\* A frame stands for the event under way after every step: encode in the clients and the
\* relay, decode in the relay and the clients.
LEMMA FramesStayDecoded == WireInv /\ [Next]_vars => FramesDecode' /\ Reported'
<1> SUFFICES ASSUME WireInv, [Next]_vars PROVE FramesDecode' /\ Reported'
  OBVIOUS
<1>0. FramesDecode /\ Reported
  BY Zenon DEF WireInv
<1>1. CASE UNCHANGED <<frame, event, problem>>
  BY <1>0, <1>1, Zenon DEF FramesDecode, Reported
<1>2. ASSUME NEW c \in Ends, Start(c) \/ StartFails(c) \/ ClientReads(c)
      PROVE  FramesDecode' /\ Reported'
  BY <1>1, <1>2, Zenon DEF Start, StartFails, ClientReads
<1>3. CASE RelaySkips \/ UNCHANGED vars
  BY <1>1, <1>3, Zenon DEF RelaySkips, vars
<1>4. CASE Send
  <2>1. PICK e \in {ClientHello("sender"), PeerKey("sender")} :
          event' = {e} /\ frame' = {ToJson(e)}
    BY <1>4, Zenon DEF Send
  <2>2. FromJson(ToJson(e)) = {e}
    BY <1>4, <2>1, SentDecodes, Zenon DEF Send, Ends
  <2>3. problem' = {}
    BY <1>4, Zenon DEF Send, Idle
  <2> QED
    BY <2>1, <2>2, <2>3, Zenon DEF FramesDecode, Reported
<1>5. CASE SendOther
  BY <1>5, Zenon DEF SendOther, Idle, FramesDecode, Reported
<1>6. CASE RelayForwards
  <2>1. PICK t \in frame : \E e \in FromJson(t) :
          e.type \in {"PeerKey", "EncryptedMessage"} /\ frame' = {ToJson(e)}
    BY <1>6, Zenon DEF RelayForwards
  <2>2. PICK e \in FromJson(t) :
          e.type \in {"PeerKey", "EncryptedMessage"} /\ frame' = {ToJson(e)}
    BY <2>1, Zenon
  <2>3. FromJson(t) = {e} /\ FromJson(ToJson(e)) = {e}
    BY <2>2, ForwardedDecodes, Zenon
  <2>4. event' = {e} /\ problem' = problem /\ event' = event
    BY <1>0, <1>6, <2>1, <2>3, Zenon DEF RelayForwards, FramesDecode
  <2>5. FramesDecode'
    BY <2>2, <2>3, <2>4, Zenon DEF FramesDecode
  <2> QED
    BY <1>0, <2>4, <2>5, Zenon DEF Reported
<1>7. CASE RelayReports
  <2>1. PICK error \in RouterErrors : Report(Known(error)) /\ problem' = {error}
    BY <1>7, Zenon DEF RelayReports, RouterErrorCode
  <2>2. FromWire(AsWireStr(Known(error))) = {Known(error)}
    BY CodesDecode DEF RouterErrors, WireStr
  <2>3. /\ event' = {[type |-> "Error", code |-> Known(error)]}
        /\ \A t \in frame' : FromJson(t) = event'
    BY <2>1, <2>2, ReportDecodes, Zenon
  <2> QED
    BY <2>1, <2>3, Zenon DEF FramesDecode, Reported
<1>8. CASE RelayDenies
  <2>1. Report(Known("ConnectDenied")) /\ problem' = {"ConnectDenied"}
    BY <1>8, Zenon DEF RelayDenies, AuthErrorCode
  <2>2. FromWire(AsWireStr(Known("ConnectDenied"))) = {Known("ConnectDenied")}
    BY CodesDecode DEF WireStr
  <2>3. /\ event' = {[type |-> "Error", code |-> Known("ConnectDenied")]}
        /\ \A t \in frame' : FromJson(t) = event'
    BY <2>1, <2>2, ReportDecodes, Zenon
  <2> QED
    BY <2>1, <2>3, Zenon DEF FramesDecode, Reported
<1>9. CASE NewerRelayReports
  <2>1. PICK raw \in OtherCodes : Report(Other(raw))
    BY <1>9, Zenon DEF NewerRelayReports
  <2>2. \A t \in frame' : FromJson(t) = event'
    BY <2>1, CodesDecode, ReportDecodes, Zenon
  <2>3. problem' = {}
    BY <1>9, Zenon DEF NewerRelayReports, Idle
  <2> QED
    BY <2>2, <2>3, Zenon DEF FramesDecode, Reported
<1> QED
  BY <1>2, <1>3, <1>4, <1>5, <1>6, <1>7, <1>8, <1>9, Zenon DEF Next

\* The types and the two claims about what is under way, together.
LEMMA WireInvariant == Spec => []WireInv
<1>1. WireInv /\ [Next]_vars => WireInv'
  BY ClientsStayParsed, FramesStayDecoded, Zenon DEF WireInv
<1> QED
  BY WireInvInit, <1>1, PTL DEF Spec

\* What one end encodes the other decodes to the very same event, for every id that
\* parses, every key, every foreign frame and every code of a later relay, and through
\* the relay too, which decodes and encodes again (ToJson and FromJson stand for
\* serde_json with the impls of types.rs and event.rs).
THEOREM EventsSurviveTheWire == Spec => []FramesDecode
<1>1. WireInv => FramesDecode
  BY Zenon DEF WireInv
<1> QED
  BY WireInvariant, <1>1, PTL

\* A client that decodes the relay's Error frame gets the code of the error that the relay
\* found, be it a routing error or a denied connection (From<&RouterError>,
\* From<&AuthError>, as_wire_str, from_wire).
THEOREM CodesNameProblems == Spec => []ReportNamesProblem
<1>1. WireInv => ReportNamesProblem
  BY Zenon DEF WireInv, FramesDecode, Reported, ReportNamesProblem
<1> QED
  BY WireInvariant, <1>1, PTL

-----------------------------------------------------------------------------
(* The bytes of a session.                                                 *)

\* A set of natural numbers has a least element.
LEMMA LeastNumber ==
  ASSUME NEW T, T \subseteq Nat, T # {}
  PROVE  \E n \in T : \A m \in T : n <= m
<1>1. PICK n \in T : \A m \in T : ~(<<m, n>> \in OpToRel(<, Nat))
  BY NatLessThanWellFounded, WFMin, Zenon
<1>2. \A m \in T : ~(m < n)
  BY <1>1, Zenon DEF OpToRel
<1>3. n \in Nat /\ \A m \in T : m \in Nat
  OBVIOUS
<1>4. ASSUME NEW m \in T PROVE n <= m
  <2>1. m \in Nat /\ n \in Nat /\ ~(m < n)
    BY <1>2, <1>3, Zenon
  <2> QED
    BY <2>1
<1> QED
  BY <1>4, Zenon

\* Of two different texts one is smaller, and then the other is not.
LEMMA StringLessTotal ==
  ASSUME NEW a \in Seq(Nat), NEW b \in Seq(Nat), a # b
  PROVE  StringLess(a, b) \/ StringLess(b, a)
<1> DEFINE D == {n \in Nat : n = Len(a) \/ n = Len(b) \/ a[n + 1] # b[n + 1]}
<1>1. PICK n \in D : \A m \in D : n <= m
  <2>1. Len(a) \in D /\ D \subseteq Nat
    OBVIOUS
  <2> HIDE DEF D
  <2> QED
    BY <2>1, LeastNumber, Zenon
<1>2. n \in Nat /\ n <= Len(a) /\ n <= Len(b)
  BY <1>1
<1>3. \A i \in 1..n : a[i] = b[i]
  <2> SUFFICES ASSUME NEW i \in 1..n PROVE a[i] = b[i]
    OBVIOUS
  <2>1. i - 1 \in Nat /\ ~(n <= i - 1) /\ (i - 1) + 1 = i
    BY <1>2
  <2>2. ~(i - 1 \in D)
    BY <1>1, <2>1, Zenon
  <2> QED
    BY <2>1, <2>2
<1>4. CASE n = Len(a) /\ n = Len(b)
  BY <1>3, <1>4, SeqEqual, Zenon
<1>5. CASE n = Len(a) /\ n < Len(b)
  BY <1>2, <1>3, <1>5 DEF StringLess
<1>6. CASE n = Len(b) /\ n < Len(a)
  BY <1>2, <1>3, <1>6 DEF StringLess
<1>7. CASE n < Len(a) /\ n < Len(b)
  <2>1. a[n + 1] # b[n + 1]
    BY <1>1, <1>7
  <2>2. a[n + 1] \in Nat /\ b[n + 1] \in Nat
    BY <1>2, <1>7
  <2>3. CASE a[n + 1] < b[n + 1]
    BY <1>2, <1>3, <1>7, <2>3 DEF StringLess
  <2>4. CASE b[n + 1] < a[n + 1]
    BY <1>2, <1>3, <1>7, <2>4 DEF StringLess
  <2> QED
    BY <2>1, <2>2, <2>3, <2>4
<1> QED
  BY <1>2, <1>4, <1>5, <1>6, <1>7

\* The order of strings is strict (str::cmp in session_info).
LEMMA StringLessAsymmetric ==
  ASSUME NEW a \in Seq(Nat), NEW b \in Seq(Nat), StringLess(a, b), StringLess(b, a)
  PROVE  FALSE
<1>1. PICK n \in 0..Len(a) :
        /\ n < Len(b) /\ \A i \in 1..n : a[i] = b[i]
        /\ n = Len(a) \/ a[n + 1] < b[n + 1]
  BY Zenon DEF StringLess
<1>2. PICK m \in 0..Len(b) :
        /\ m < Len(a) /\ \A i \in 1..m : b[i] = a[i]
        /\ m = Len(b) \/ b[m + 1] < a[m + 1]
  BY Zenon DEF StringLess
<1>3. CASE n < m
  <2>1. n + 1 \in 1..m /\ n # Len(a)
    BY <1>2, <1>3
  <2>2. a[n + 1] = b[n + 1] /\ a[n + 1] \in Nat
    <3>1. n + 1 \in 1..Len(a)
      BY <1>2, <1>3
    <3> QED
      BY <1>2, <2>1, <3>1, ElementOfSeq, Zenon
  <2> QED
    BY <1>1, <2>1, <2>2
<1>4. CASE m < n
  <2>1. m + 1 \in 1..n /\ m # Len(b)
    BY <1>1, <1>4
  <2>2. a[m + 1] = b[m + 1] /\ b[m + 1] \in Nat
    <3>1. m + 1 \in 1..Len(b)
      BY <1>1, <1>4
    <3> QED
      BY <1>1, <2>1, <3>1, ElementOfSeq, Zenon
  <2> QED
    BY <1>2, <2>1, <2>2
<1>5. CASE n = m
  <2>1. n # Len(a) /\ m # Len(b) /\ a[n + 1] \in Nat /\ b[n + 1] \in Nat
    BY <1>1, <1>2, <1>5
  <2>2. a[n + 1] < b[n + 1] /\ b[n + 1] < a[n + 1]
    BY <1>1, <1>2, <1>5, <2>1, Zenon
  <2> QED
    BY <2>1, <2>2
<1> QED
  BY <1>3, <1>4, <1>5

\* Both ends of a session sort the ids to the same pair (sort_unstable in session_info).
LEMMA SortedAlike ==
  ASSUME NEW a \in Seq(Nat), NEW b \in Seq(Nat)
  PROVE  SortedIds(a, b) = SortedIds(b, a)
<1>1. CASE a = b
  BY <1>1, Zenon
<1>2. CASE a # b
  <2>1. StringLess(a, b) <=> ~StringLess(b, a)
    BY <1>2, StringLessTotal, StringLessAsymmetric, Zenon
  <2> QED
    BY <2>1, Zenon DEF SortedIds
<1> QED
  BY <1>1, <1>2

\* Clients derive the same session info exactly when they have the same two ids, and the
\* same nonce prefix exactly when they have them in the same order, for ids of any length
\* that ClientId::parse accepts (session_info, nonce_prefix).
THEOREM BytesMatchIds == Spec => []DerivedBytesMatch
<1>1. WireInv => DerivedBytesMatch
  <2> SUFFICES ASSUME WireInv, NEW c \in Ends, NEW d \in Ends,
                      status[c] = "running", status[d] = "running"
               PROVE  LET x == ids[c]
                          y == ids[d]
                      IN  /\ (SessionInfoBytes(x[1], x[2]) = SessionInfoBytes(y[1], y[2]))
                               <=> ({x[1], x[2]} = {y[1], y[2]})
                          /\ (NoncePrefixBytes(x[1], x[2]) = NoncePrefixBytes(y[1], y[2]))
                               <=> (x = y)
    BY Zenon DEF DerivedBytesMatch
  <2>1. PICK a \in ParsedIds, b \in ParsedIds : ids[c] = <<a, b>>
    BY DEF WireInv, IdsParsed
  <2>2. PICK p \in ParsedIds, q \in ParsedIds : ids[d] = <<p, q>>
    BY DEF WireInv, IdsParsed
  <2>3. ids[c][1] = a /\ ids[c][2] = b /\ ids[d][1] = p /\ ids[d][2] = q
    BY <2>1, <2>2
  <2>4. (SessionInfoBytes(a, b) = SessionInfoBytes(p, q)) => ({a, b} = {p, q})
    BY SessionInfoNamesPair
  <2>5. ({a, b} = {p, q}) => (SessionInfoBytes(a, b) = SessionInfoBytes(p, q))
    <3> SUFFICES ASSUME {a, b} = {p, q} PROVE SessionInfoBytes(a, b) = SessionInfoBytes(p, q)
      OBVIOUS
    <3>1. (a = p /\ b = q) \/ (a = q /\ b = p)
      BY Zenon
    <3>2. SortedIds(a, b) = SortedIds(b, a)
      BY NoSeparator, SortedAlike, Zenon
    <3> QED
      BY <3>1, <3>2, Zenon DEF SessionInfoBytes
  <2>6. (NoncePrefixBytes(a, b) = NoncePrefixBytes(p, q)) <=> (a = p /\ b = q)
    BY NoncePrefixInjective, Zenon
  <2>7. (ids[c] = ids[d]) <=> (a = p /\ b = q)
    BY <2>1, <2>2, <2>3, Zenon
  <2> QED
    BY <2>3, <2>4, <2>5, <2>6, <2>7, Zenon
<1> QED
  BY WireInvariant, <1>1, PTL

-----------------------------------------------------------------------------
(* The pinned fingerprint.                                                 *)

\* A bounded set of natural numbers has a greatest element.
LEMMA GreatestNumber ==
  ASSUME NEW N \in Nat, NEW T, T \subseteq 0..N, T # {}
  PROVE  \E n \in T : \A m \in T : m <= n
<1> DEFINE U == {N - m : m \in T}
<1>1. U \subseteq Nat /\ U # {}
  <2>1. \A m \in T : N - m \in Nat
    OBVIOUS
  <2> QED
    BY <2>1, Zenon
<1>2. PICK u \in U : \A v \in U : u <= v
  <2> HIDE DEF U
  <2> QED
    BY <1>1, LeastNumber, Zenon
<1>3. PICK n \in T : u = N - n
  BY Zenon
<1>4. ASSUME NEW m \in T PROVE m <= n
  <2>1. N - m \in U
    BY Zenon
  <2>2. N - n <= N - m
    BY <1>2, <1>3, <2>1, Zenon
  <2>3. m \in 0..N /\ n \in 0..N
    OBVIOUS
  <2> QED
    BY <2>2, <2>3
<1> QED
  BY <1>4, Zenon

\* The n characters after the first w of the text are what is left without the
\* blanks around them.
Core(text, w, n) ==
    /\ w \in Nat /\ n \in Nat /\ w + n <= Len(text)
    /\ \A k \in 1..Len(text) : k \in (w + 1)..(w + n) \/ IsWhitespace(text[k])
    /\ n > 0 => ~IsWhitespace(text[w + 1]) /\ ~IsWhitespace(text[w + n])

\* str::trim cuts the core out of a text.
LEMMA TrimIsCore ==
  ASSUME NEW text \in Seq(Nat)
  PROVE  \E w, n \in Nat :
           /\ Core(text, w, n)
           /\ Trim(text) \in Seq(Nat) /\ Len(Trim(text)) = n
           /\ \A i \in 1..n : Trim(text)[i] = text[w + i]
<1> DEFINE solid == {i \in 1..Len(text) : ~IsWhitespace(text[i])}
           first == CHOOSE i \in solid : \A j \in solid : i <= j
           last == CHOOSE i \in solid : \A j \in solid : j <= i
<1>0. Len(text) \in Nat
  OBVIOUS
<1>1. CASE solid = {}
  <2>1. Trim(text) = <<>>
    BY <1>1, Zenon DEF Trim
  <2>2. \A k \in 1..Len(text) : IsWhitespace(text[k])
    BY <1>1, Zenon
  <2>3. Core(text, 0, 0)
    BY <1>0, <2>2 DEF Core
  <2> QED
    BY <2>1, <2>3
<1>2. CASE solid # {}
  <2>1. Trim(text) = SubSeq(text, first, last)
    BY <1>2, Zenon DEF Trim
  <2>2. solid \subseteq Nat /\ solid \subseteq 0..Len(text) /\ solid \subseteq 1..Len(text)
    OBVIOUS
  <2>3. \A k \in 1..Len(text) : k \in solid \/ IsWhitespace(text[k])
    BY Zenon
  <2>4. \A k \in solid : ~IsWhitespace(text[k])
    BY Zenon
  <2> HIDE DEF solid
  <2>5. first \in solid /\ \A j \in solid : first <= j
    <3>1. \E i \in solid : \A j \in solid : i <= j
      BY <1>2, <2>2, LeastNumber, Zenon
    <3> QED
      BY <3>1, Zenon
  <2>6. last \in solid /\ \A j \in solid : j <= last
    <3>1. \E i \in solid : \A j \in solid : j <= i
      BY <1>0, <1>2, <2>2, GreatestNumber, Zenon
    <3> QED
      BY <3>1, Zenon
  <2> HIDE DEF first, last
  <2>7. first \in 1..Len(text) /\ last \in 1..Len(text) /\ first <= last
    BY <2>2, <2>5, <2>6, Zenon
  <2> DEFINE w == first - 1
             n == last - first + 1
  <2>8. w \in Nat /\ n \in Nat /\ w + n = last /\ w + 1 = first /\ n > 0 /\ last <= Len(text)
    BY <1>0, <2>7
  <2>9. Trim(text) \in Seq(Nat) /\ Len(Trim(text)) = n
        /\ \A i \in 1..n : Trim(text)[i] = text[w + i]
    <3>1. /\ SubSeq(text, first, last) \in Seq(Nat)
          /\ Len(SubSeq(text, first, last)) = last - first + 1
          /\ \A i \in 1..(last - first + 1) : SubSeq(text, first, last)[i] = text[first + i - 1]
      BY <1>0, <2>7, SubSeqProperties
    <3>2. \A i \in 1..n : first + i - 1 = w + i
      BY <2>7
    <3> QED
      BY <2>1, <3>1, <3>2, Zenon
  <2>10. \A k \in solid : k \in first..last
    BY <2>2, <2>5, <2>6, <2>7
  <2>11. Core(text, w, n)
    <3> HIDE DEF w, n
    <3>1. \A k \in 1..Len(text) : k \in (w + 1)..(w + n) \/ IsWhitespace(text[k])
      BY <2>3, <2>8, <2>10, Zenon
    <3>2. ~IsWhitespace(text[w + 1]) /\ ~IsWhitespace(text[w + n])
      BY <2>4, <2>5, <2>6, <2>8, Zenon
    <3>3. w + n <= Len(text)
      BY <2>8, Zenon
    <3> QED
      BY <2>8, <3>1, <3>2, <3>3, Zenon DEF Core
  <2> HIDE DEF w, n
  <2> QED
    BY <2>8, <2>9, <2>11, Zenon
<1> QED
  BY <1>1, <1>2

\* A text has one core.
LEMMA OneCore ==
  ASSUME NEW text \in Seq(Nat), NEW v, NEW m, NEW w, NEW n,
         Core(text, v, m), Core(text, w, n)
  PROVE  m = n /\ (n > 0 => v = w)
<1>0. Len(text) \in Nat /\ v \in Nat /\ m \in Nat /\ w \in Nat /\ n \in Nat
  BY DEF Core
<1>1. m > 0 => v + 1 \in (w + 1)..(w + n) /\ v + m \in (w + 1)..(w + n)
  <2> SUFFICES ASSUME m > 0 PROVE v + 1 \in (w + 1)..(w + n) /\ v + m \in (w + 1)..(w + n)
    OBVIOUS
  <2>1. v + m <= Len(text)
    BY DEF Core
  <2>2. v + 1 \in 1..Len(text) /\ v + m \in 1..Len(text)
    BY <1>0, <2>1
  <2>3. ~IsWhitespace(text[v + 1]) /\ ~IsWhitespace(text[v + m])
    BY Zenon DEF Core
  <2> QED
    BY <2>2, <2>3, Zenon DEF Core
<1>2. n > 0 => w + 1 \in (v + 1)..(v + m) /\ w + n \in (v + 1)..(v + m)
  <2> SUFFICES ASSUME n > 0 PROVE w + 1 \in (v + 1)..(v + m) /\ w + n \in (v + 1)..(v + m)
    OBVIOUS
  <2>1. w + n <= Len(text)
    BY DEF Core
  <2>2. w + 1 \in 1..Len(text) /\ w + n \in 1..Len(text)
    BY <1>0, <2>1
  <2>3. ~IsWhitespace(text[w + 1]) /\ ~IsWhitespace(text[w + n])
    BY Zenon DEF Core
  <2> QED
    BY <2>2, <2>3, Zenon DEF Core
<1> QED
  BY <1>0, <1>1, <1>2

\* One character in lower case.
Lower(c) == IF c \in 65..90 THEN c + 32 ELSE c

\* A digit of either case is the digit of {:02x} once it is in lower case.
LEMMA DigitsMatch ==
  /\ \A c \in Nat, n \in 0..15 : n \in HexValue(c) <=> Lower(c) = HexDigit(n)
  /\ \A c \in Nat : \A n \in HexValue(c) : ~IsWhitespace(c)
  /\ \A c \in Nat : Lower(c) \in Nat /\ Lower(Lower(c)) = Lower(c)
  /\ \A c \in Nat : IsAsciiHexdigit(c) => ~IsWhitespace(c)
<1>1. ASSUME NEW c \in Nat, NEW n \in 0..15 PROVE n \in HexValue(c) <=> Lower(c) = HexDigit(n)
  BY DEF HexValue, Lower, HexDigit
<1>2. ASSUME NEW c \in Nat, NEW n \in HexValue(c) PROVE ~IsWhitespace(c)
  BY DEF HexValue, IsWhitespace
<1>3. ASSUME NEW c \in Nat PROVE Lower(c) \in Nat /\ Lower(Lower(c)) = Lower(c)
  BY DEF Lower
<1>4. ASSUME NEW c \in Nat, IsAsciiHexdigit(c) PROVE ~IsWhitespace(c)
  BY <1>4 DEF IsAsciiHexdigit, IsAsciiDigit, IsWhitespace
<1> QED
  BY <1>1, <1>2, <1>3, <1>4, Zenon

\* The two digits of a byte.
LEMMA DigitsOfByte ==
  ASSUME NEW x \in 0..255
  PROVE  x \div 16 \in 0..15 /\ x % 16 \in 0..15 /\ 16 * (x \div 16) + (x % 16) = x
  OBVIOUS

\* They are the only two.
LEMMA OnlyDigits ==
  ASSUME NEW h \in 0..15, NEW l \in 0..15
  PROVE  (16 * h + l) \div 16 = h /\ (16 * h + l) % 16 = l
  OBVIOUS

\* The digits of the byte b, counted from a place in the text.
LEMMA PlacesInText ==
  ASSUME NEW len \in Nat, NEW n \in Nat, NEW from \in Nat, NEW b \in Nat,
         1 <= b, 2 * b <= n, from + n <= len
  PROVE  /\ 2 * b - 1 \in 1..n /\ 2 * b \in 1..n
         /\ from + 2 * b - 1 = from + (2 * b - 1)
         /\ from + (2 * b - 1) \in 1..len /\ from + 2 * b \in 1..len
  OBVIOUS

\* The places of the two digits of a byte.
LEMMA PlacesOfByte ==
  /\ \A b \in Nat \ {0} : /\ ((2 * b - 1) + 1) \div 2 = b /\ (2 * b - 1) % 2 = 1
                          /\ (2 * b + 1) \div 2 = b /\ (2 * b) % 2 # 1
  /\ \A n \in Nat : \A i \in 1..(2 * n) : \E b \in 1..n : i = 2 * b - 1 \/ i = 2 * b
<1>1. ASSUME NEW b \in Nat \ {0}
      PROVE  /\ ((2 * b - 1) + 1) \div 2 = b /\ (2 * b - 1) % 2 = 1
             /\ (2 * b + 1) \div 2 = b /\ (2 * b) % 2 # 1
  OBVIOUS
<1>2. ASSUME NEW n \in Nat, NEW i \in 1..(2 * n)
      PROVE  \E b \in 1..n : i = 2 * b - 1 \/ i = 2 * b
  <2> DEFINE b == (i + 1) \div 2
  <2>1. b \in 1..n /\ (i = 2 * b - 1 \/ i = 2 * b)
    OBVIOUS
  <2> QED
    BY <2>1, Zenon
<1> QED
  BY <1>1, <1>2, Zenon

\* to_lowercase acts on every character.
LEMMA Lowered ==
  ASSUME NEW s \in Seq(Nat)
  PROVE  /\ ToLowercase(s) \in Seq(Nat) /\ Len(ToLowercase(s)) = Len(s)
         /\ \A i \in 1..Len(s) : ToLowercase(s)[i] = Lower(s[i])
<1>1. \A i \in 1..Len(s) : s[i] \in Nat
  OBVIOUS
<1>2. ToLowercase(s) = [i \in 1..Len(s) |-> Lower(s[i])]
  BY Zenon DEF ToLowercase, Lower
<1>3. \A i \in 1..Len(s) : Lower(s[i]) \in Nat
  BY <1>1, DigitsMatch, Zenon
<1> QED
  BY <1>2, <1>3

\* A pin that normalize_fingerprint accepts is not changed by expect_peer_fingerprint,
\* which trims and lowers it again.
LEMMA NormalizedStays ==
  ASSUME NEW raw \in Seq(Nat), NEW s \in NormalizeFingerprint(raw)
  PROVE  ToLowercase(Trim(s)) = s
<1>1. Trim(raw) \in Seq(Nat)
  BY TrimIsCore, Zenon
<1>2. /\ s = ToLowercase(Trim(raw))
      /\ \A i \in 1..Len(s) : IsAsciiHexdigit(s[i])
  BY Zenon DEF NormalizeFingerprint
<1>3. s \in Seq(Nat) /\ \A i \in 1..Len(s) : s[i] \in Nat /\ Lower(s[i]) = s[i]
  <2>1. /\ s \in Seq(Nat) /\ Len(s) = Len(Trim(raw))
        /\ \A i \in 1..Len(s) : s[i] = Lower(Trim(raw)[i])
    BY <1>1, <1>2, Lowered, Zenon
  <2>2. \A i \in 1..Len(s) : Trim(raw)[i] \in Nat
    BY <1>1, <2>1
  <2> QED
    BY <2>1, <2>2, DigitsMatch, Zenon
<1>4. \A i \in 1..Len(s) : ~IsWhitespace(s[i])
  BY <1>2, <1>3, DigitsMatch, Zenon
<1>5. Len(s) \in Nat
  BY <1>3
<1>6. Core(s, 0, Len(s))
  BY <1>4, <1>5 DEF Core
<1>7. PICK w, n \in Nat :
        /\ Core(s, w, n)
        /\ Trim(s) \in Seq(Nat) /\ Len(Trim(s)) = n
        /\ \A i \in 1..n : Trim(s)[i] = s[w + i]
  BY <1>3, TrimIsCore, Zenon
<1>8. n = Len(s) /\ (n > 0 => w = 0)
  BY <1>3, <1>6, <1>7, OneCore
<1>9. ASSUME NEW i \in 1..n PROVE Trim(s)[i] = s[i]
  <2>1. w + i = i
    BY <1>8
  <2> QED
    BY <1>7, <2>1, Zenon
<1>10. Trim(s) = s
  BY <1>3, <1>7, <1>8, <1>9, SeqEqual, Zenon
<1>11. /\ ToLowercase(s) \in Seq(Nat) /\ Len(ToLowercase(s)) = Len(s)
       /\ \A i \in 1..Len(s) : ToLowercase(s)[i] = s[i]
  BY <1>3, Lowered, Zenon
<1>12. ToLowercase(s) = s
  BY <1>3, <1>11, SeqEqual, Zenon
<1> QED
  BY <1>10, <1>12, Zenon

\* The digits of a fingerprint, byte by byte.
LEMMA FingerprintDigits ==
  ASSUME NEW key, Digest[key] \in Seq(0..255)
  PROVE  /\ Fingerprint(key) \in Seq(Nat) /\ Len(Fingerprint(key)) = 2 * Len(Digest[key])
         /\ \A b \in 1..Len(Digest[key]) :
              /\ Digest[key][b] \in 0..255
              /\ Fingerprint(key)[2 * b - 1] = HexDigit(Digest[key][b] \div 16)
              /\ Fingerprint(key)[2 * b] = HexDigit(Digest[key][b] % 16)
<1> DEFINE d == Digest[key]
           digit(i) == HexDigit(IF i % 2 = 1 THEN d[(i + 1) \div 2] \div 16
                                ELSE d[(i + 1) \div 2] % 16)
<1>0. Len(d) \in Nat /\ \A b \in 1..Len(d) : d[b] \in 0..255
  <2>1. d \in Seq(0..255)
    OBVIOUS
  <2> HIDE DEF d
  <2> QED
    BY <2>1, ElementOfSeq, LenProperties
<1>1. Fingerprint(key) = [i \in 1..(2 * Len(d)) |-> digit(i)]
  BY Zenon DEF Fingerprint
<1> HIDE DEF d
<1>2. ASSUME NEW b \in 1..Len(d)
      PROVE  /\ 2 * b - 1 \in 1..(2 * Len(d)) /\ 2 * b \in 1..(2 * Len(d))
             /\ digit(2 * b - 1) = HexDigit(d[b] \div 16)
             /\ digit(2 * b) = HexDigit(d[b] % 16)
             /\ digit(2 * b - 1) \in Nat /\ digit(2 * b) \in Nat
  <2>1. b \in Nat \ {0} /\ 2 * b - 1 \in 1..(2 * Len(d)) /\ 2 * b \in 1..(2 * Len(d))
    BY <1>0
  <2>2. digit(2 * b - 1) = HexDigit(d[b] \div 16) /\ digit(2 * b) = HexDigit(d[b] % 16)
    BY <2>1, PlacesOfByte, Zenon
  <2>3. d[b] \div 16 \in 0..15 /\ d[b] % 16 \in 0..15
    <3>1. d[b] \in 0..255
      BY <1>0, Zenon
    <3> QED
      BY <3>1, DigitsOfByte, Zenon
  <2>4. \A n \in 0..15 : HexDigit(n) \in Nat
    BY DEF HexDigit
  <2> HIDE DEF digit
  <2> QED
    BY <2>1, <2>2, <2>3, <2>4, Zenon
<1> HIDE DEF digit
<1>3. \A i \in 1..(2 * Len(d)) : digit(i) \in Nat
  <2> TAKE i \in 1..(2 * Len(d))
  <2>1. PICK b \in 1..Len(d) : i = 2 * b - 1 \/ i = 2 * b
    BY <1>0, PlacesOfByte, Zenon
  <2> QED
    BY <1>2, <2>1, Zenon
<1>4. Fingerprint(key) \in Seq(Nat) /\ Len(Fingerprint(key)) = 2 * Len(d)
  BY <1>0, <1>1, <1>3
<1>5. \A b \in 1..Len(d) :
        /\ d[b] \in 0..255
        /\ Fingerprint(key)[2 * b - 1] = HexDigit(d[b] \div 16)
        /\ Fingerprint(key)[2 * b] = HexDigit(d[b] % 16)
  BY <1>0, <1>1, <1>2, Zenon
<1> QED
  BY <1>4, <1>5, Zenon DEF d

\* A normalized pin equals the fingerprint of a key exactly when the text, as it was typed,
\* names the key.
LEMMA PinNamesKey ==
  ASSUME NEW raw \in Seq(Nat), NEW s \in NormalizeFingerprint(raw),
         NEW key, Digest[key] \in Seq(0..255)
  PROVE  (Fingerprint(key) = s) <=> NamesKey(raw, key)
<1> DEFINE d == Digest[key]
           fp == Fingerprint(key)
<1>0. Len(d) \in Nat /\ Len(raw) \in Nat /\ FingerprintLen \in Nat
  BY LenProperties, LengthsAreNat
<1>1. PICK w, n \in Nat :
        /\ Core(raw, w, n)
        /\ Trim(raw) \in Seq(Nat) /\ Len(Trim(raw)) = n
        /\ \A i \in 1..n : Trim(raw)[i] = raw[w + i]
  BY TrimIsCore, Zenon
<1>2. s = ToLowercase(Trim(raw)) /\ Len(s) = FingerprintLen
  BY Zenon DEF NormalizeFingerprint
<1>3. s \in Seq(Nat) /\ n = FingerprintLen /\ \A i \in 1..n : s[i] = Lower(raw[w + i])
  <2>1. /\ s \in Seq(Nat) /\ Len(s) = Len(Trim(raw))
        /\ \A i \in 1..Len(Trim(raw)) : s[i] = Lower(Trim(raw)[i])
    BY <1>1, <1>2, Lowered, Zenon
  <2> QED
    BY <1>1, <1>2, <2>1, Zenon
<1>4. ASSUME NEW i \in 1..n PROVE w + i \in 1..Len(raw) /\ raw[w + i] \in Nat
  <2>1. w + n <= Len(raw)
    BY <1>1, Zenon DEF Core
  <2>2. w + i \in 1..Len(raw)
    BY <1>0, <1>1, <2>1
  <2> QED
    BY <2>2, ElementOfSeq, Zenon
<1>5. /\ fp \in Seq(Nat) /\ Len(fp) = 2 * Len(d)
      /\ \A b \in 1..Len(d) : /\ d[b] \in 0..255
                              /\ fp[2 * b - 1] = HexDigit(d[b] \div 16)
                              /\ fp[2 * b] = HexDigit(d[b] % 16)
  BY FingerprintDigits, Zenon
<1> HIDE DEF d, fp
<1>6. ASSUME fp = s PROVE NamesKey(raw, key)
  <2>1. w \in 0..(Len(raw) - FingerprintLen)
    BY <1>0, <1>1, <1>3 DEF Core
  <2>2. FingerprintLen = 2 * Len(d)
    BY <1>2, <1>5, <1>6, Zenon
  <2>3. \A k \in 1..Len(raw) : k \in (w + 1)..(w + FingerprintLen) \/ IsWhitespace(raw[k])
    BY <1>1, <1>3, Zenon DEF Core
  <2>4. ASSUME NEW b \in 1..Len(d)
        PROVE  \E high \in HexValue(raw[w + 2 * b - 1]), low \in HexValue(raw[w + 2 * b]) :
                  16 * high + low = d[b]
    <3> DEFINE high == d[b] \div 16
               low == d[b] % 16
               i == 2 * b - 1
               j == 2 * b
    <3>1. high \in 0..15 /\ low \in 0..15 /\ 16 * high + low = d[b]
      <4>1. d[b] \in 0..255
        BY <1>5, Zenon
      <4> QED
        BY <4>1, DigitsOfByte, Zenon
    <3>2. fp[i] = HexDigit(high) /\ fp[j] = HexDigit(low)
      BY <1>5, Zenon
    <3>3. i \in 1..n /\ j \in 1..n /\ w + 2 * b - 1 = w + i
      BY <1>0, <1>1, <1>3, <2>2
    <3> HIDE DEF high, low, i, j
    <3>4. Lower(raw[w + i]) = HexDigit(high) /\ Lower(raw[w + j]) = HexDigit(low)
      BY <1>3, <1>6, <3>2, <3>3, Zenon
    <3>5. high \in HexValue(raw[w + i])
      BY <1>4, <3>1, <3>3, <3>4, DigitsMatch, Zenon
    <3>6. low \in HexValue(raw[w + j])
      BY <1>4, <3>1, <3>3, <3>4, DigitsMatch, Zenon
    <3> QED
      BY <3>1, <3>3, <3>5, <3>6, Zenon DEF j
  <2> QED
    BY <2>1, <2>2, <2>3, <2>4, Zenon DEF NamesKey, d
<1>7. ASSUME NamesKey(raw, key) PROVE fp = s
  <2>1. PICK start \in 0..(Len(raw) - FingerprintLen) :
          /\ FingerprintLen = 2 * Len(d)
          /\ \A k \in 1..Len(raw) :
               k \in (start + 1)..(start + FingerprintLen) \/ IsWhitespace(raw[k])
          /\ \A b \in 1..Len(d) :
               \E high \in HexValue(raw[start + 2 * b - 1]), low \in HexValue(raw[start + 2 * b]) :
                  16 * high + low = d[b]
    BY <1>7, Zenon DEF NamesKey, d
  <2>2. start \in Nat /\ start + FingerprintLen <= Len(raw)
    BY <1>0
  <2>3. ASSUME NEW b \in 1..Len(d)
        PROVE  /\ 2 * b - 1 \in 1..n /\ 2 * b \in 1..n
               /\ Lower(raw[start + (2 * b - 1)]) = fp[2 * b - 1]
               /\ Lower(raw[start + 2 * b]) = fp[2 * b]
               /\ ~IsWhitespace(raw[start + (2 * b - 1)])
               /\ ~IsWhitespace(raw[start + 2 * b])
    <3> DEFINE i == 2 * b - 1
               j == 2 * b
    <3>1. /\ i \in 1..n /\ j \in 1..n /\ start + 2 * b - 1 = start + i
          /\ start + i \in 1..Len(raw) /\ start + j \in 1..Len(raw)
      <4>1. b \in Nat /\ 1 <= b /\ 2 * b <= n
        BY <1>0, <1>3, <2>1
      <4>2. start + n <= Len(raw)
        BY <1>3, <2>2, Zenon
      <4> QED
        BY <1>0, <1>1, <2>2, <4>1, <4>2, PlacesInText, Zenon
    <3>2. raw[start + i] \in Nat /\ raw[start + j] \in Nat
      <4> HIDE DEF i, j
      <4> QED
        BY <3>1, ElementOfSeq, Zenon
    <3>3. PICK high \in HexValue(raw[start + i]), low \in HexValue(raw[start + j]) :
            16 * high + low = d[b]
      BY <2>1, <3>1, Zenon
    <3>4. high \in 0..15 /\ low \in 0..15
      BY Zenon DEF HexValue
    <3>5. d[b] \in 0..255 /\ fp[i] = HexDigit(d[b] \div 16) /\ fp[j] = HexDigit(d[b] % 16)
      BY <1>5, Zenon
    <3>6. high = d[b] \div 16 /\ low = d[b] % 16
      <4>1. (16 * high + low) \div 16 = high /\ (16 * high + low) % 16 = low
        BY <3>4, OnlyDigits, Zenon
      <4> QED
        BY <3>3, <4>1, Zenon
    <3> HIDE DEF i, j
    <3>7. Lower(raw[start + i]) = HexDigit(high) /\ ~IsWhitespace(raw[start + i])
      BY <3>2, <3>3, <3>4, DigitsMatch, Zenon
    <3>8. Lower(raw[start + j]) = HexDigit(low) /\ ~IsWhitespace(raw[start + j])
      BY <3>2, <3>3, <3>4, DigitsMatch, Zenon
    <3> QED
      BY <3>1, <3>5, <3>6, <3>7, <3>8, Zenon DEF i, j
  <2>4. \A i \in 1..n : Lower(raw[start + i]) = fp[i] /\ ~IsWhitespace(raw[start + i])
    <3> TAKE i \in 1..n
    <3>1. i \in 1..(2 * Len(d))
      BY <1>3, <2>1, Zenon
    <3>2. PICK b \in 1..Len(d) : i = 2 * b - 1 \/ i = 2 * b
      BY <1>0, <3>1, PlacesOfByte, Zenon
    <3> QED
      BY <2>3, <3>2, Zenon
  <2>5. Core(raw, start, n)
    <3>1. n > 0 => 1 \in 1..n /\ n \in 1..n
      BY <1>1
    <3>2. n > 0 => ~IsWhitespace(raw[start + 1]) /\ ~IsWhitespace(raw[start + n])
      BY <2>4, <3>1, Zenon
    <3> QED
      BY <1>1, <1>3, <2>1, <2>2, <3>2, Zenon DEF Core
  <2>6. n > 0 => start = w
    BY <1>1, <2>5, OneCore, Zenon
  <2>7. \A i \in 1..n : s[i] = fp[i]
    <3> TAKE i \in 1..n
    <3>1. start = w
      BY <1>1, <2>6
    <3> QED
      BY <1>3, <2>4, <3>1, Zenon
  <2>8. Len(s) = n /\ Len(fp) = n
    BY <1>2, <1>3, <1>5, <2>1, Zenon
  <2> QED
    BY <1>3, <1>5, <2>7, <2>8, SeqEqual, Zenon
<1> QED
  BY <1>6, <1>7, Zenon DEF fp

\* A running client holds the pin it was started with (run, expect_peer_fingerprint).
PinsSet == \A c \in Ends : status[c] = "running" => pin[c] \in Pins(args[c].pin)

\* A frame under way is there; only reports go to the sender, one event to the receiver.
UnderWay ==
    /\ at # "nobody" => frame # {}
    /\ at = "sender" => \A e \in event : e.type # "PeerKey"
    /\ at = "receiver" => \E e \in event : event = {e}
    /\ \A e \in event : e.type = "PeerKey" => e.public_key \in DOMAIN Digest

\* A PeerKey that arrived was judged by the receiver (handle_event).
KeyRead ==
    \A e \in event : (at = "nobody" /\ e.type = "PeerKey") =>
        /\ status["receiver"] = "running" /\ event = {e}
        /\ peer_public_key["receiver"]
             = {k.public_key : k \in {x \in event : AcceptsKey("receiver", x)}}

\* The invariant behind PinHonoured.
PinInv == WireInv /\ PinsSet /\ UnderWay /\ KeyRead

\* No client has a pin or a key before it runs.
LEMMA PinInvInit == Init => PinInv
<1>1. Init => PinsSet /\ UnderWay /\ KeyRead
  BY DEF Init, PinsSet, UnderWay, KeyRead
<1> QED
  BY <1>1, WireInvInit, Zenon DEF PinInv

\* A client that starts takes its pin; the other one is as it was.
LEMMA StartKeepsPins ==
  ASSUME PinInv, NEW c \in Ends, Start(c)
  PROVE  PinsSet' /\ UnderWay' /\ KeyRead'
<1>1. PICK local \in ParseClientId(args[c].id), peer \in ParseClientId(args[c].peer),
           p \in Pins(args[c].pin) :
        /\ ids' = [ids EXCEPT ![c] = <<local, peer>>]
        /\ pin' = [pin EXCEPT ![c] = p]
  BY Zenon DEF Start
<1>2. /\ status[c] = "new" /\ status' = [status EXCEPT ![c] = "running"]
      /\ UNCHANGED <<args, peer_public_key, frame, at, event, problem>>
  BY Zenon DEF Start
<1>3. DOMAIN status = Ends /\ DOMAIN ids = Ends /\ DOMAIN pin = Ends
  BY Zenon DEF PinInv, WireInv, WireTypeOK
<1>4. PinsSet'
  BY <1>1, <1>2, <1>3 DEF PinsSet, PinInv
<1>5. UnderWay'
  BY <1>2, Zenon DEF UnderWay, PinInv
<1>6. KeyRead'
  <2> SUFFICES ASSUME NEW e \in event, at = "nobody", e.type = "PeerKey"
               PROVE  /\ status'["receiver"] = "running" /\ event = {e}
                      /\ peer_public_key["receiver"]
                           = {k.public_key : k \in {x \in event : AcceptsKey("receiver", x)'}}
    BY <1>2 DEF KeyRead
  <2>1. /\ status["receiver"] = "running" /\ event = {e}
        /\ peer_public_key["receiver"]
             = {k.public_key : k \in {x \in event : AcceptsKey("receiver", x)}}
    BY Zenon DEF PinInv, KeyRead
  <2>2. c # "receiver" /\ "receiver" \in Ends
    BY <1>2, <2>1, Zenon DEF Ends
  <2>3. /\ status'["receiver"] = "running" /\ ids'["receiver"] = ids["receiver"]
        /\ pin'["receiver"] = pin["receiver"]
    BY <1>1, <1>2, <1>3, <2>1, <2>2, Zenon
  <2>4. \A x : AcceptsKey("receiver", x)' = AcceptsKey("receiver", x)
    BY <2>3, Zenon DEF AcceptsKey
  <2> QED
    BY <2>1, <2>3, <2>4, Zenon
<1> QED
  BY <1>4, <1>5, <1>6

\* The receiver judges the key by its own ids and its own pin.
LEMMA ReadKeepsPins ==
  ASSUME PinInv, NEW c \in Ends, ClientReads(c)
  PROVE  PinsSet' /\ UnderWay' /\ KeyRead'
<1> DEFINE decoded == UNION {FromJson(t) : t \in frame}
<1>1. /\ at = c /\ status[c] = "running" /\ at' = "nobody"
      /\ peer_public_key' = [peer_public_key EXCEPT
            ![c] = {k.public_key : k \in {x \in decoded : AcceptsKey(c, x)}}]
      /\ status' = [status EXCEPT ![c] = IF decoded = {} THEN "failed" ELSE @]
      /\ UNCHANGED <<args, ids, pin, frame, event, problem>>
  BY Zenon DEF ClientReads
<1>2. DOMAIN status = Ends /\ DOMAIN peer_public_key = Ends
  BY Zenon DEF PinInv, WireInv, WireTypeOK
<1>3. decoded = event
  <2>1. frame # {} /\ \A t \in frame : FromJson(t) = event
    BY <1>1 DEF PinInv, WireInv, FramesDecode, UnderWay, Ends
  <2> QED
    BY <2>1
<1> HIDE DEF decoded
<1>4. PinsSet'
  <2> SUFFICES ASSUME NEW d \in Ends, status'[d] = "running" PROVE pin[d] \in Pins(args[d].pin)
    BY <1>1, Zenon DEF PinsSet
  <2>1. status[d] = "running"
    BY <1>1, <1>2, Zenon
  <2> QED
    BY <2>1, Zenon DEF PinInv, PinsSet
<1>5. UnderWay'
  BY <1>1 DEF PinInv, UnderWay
<1>6. KeyRead'
  <2> SUFFICES ASSUME NEW e \in event, e.type = "PeerKey"
               PROVE  /\ status'["receiver"] = "running" /\ event = {e}
                      /\ peer_public_key'["receiver"]
                           = {k.public_key : k \in {x \in event : AcceptsKey("receiver", x)'}}
    BY <1>1 DEF KeyRead
  <2>1. c = "receiver"
    BY <1>1, Zenon DEF PinInv, UnderWay, Ends
  <2>2. event = {e}
    BY <1>1, <2>1, Zenon DEF PinInv, UnderWay
  <2>3. status'["receiver"] = "running"
    BY <1>1, <1>2, <1>3, <2>1, <2>2, Zenon
  <2>4. peer_public_key'["receiver"]
          = {k.public_key : k \in {x \in event : AcceptsKey("receiver", x)}}
    BY <1>1, <1>2, <1>3, <2>1, Zenon
  <2>5. \A x : AcceptsKey("receiver", x)' = AcceptsKey("receiver", x)
    BY <1>1, Zenon DEF AcceptsKey
  <2> QED
    BY <2>2, <2>3, <2>4, <2>5, Zenon
<1> QED
  BY <1>4, <1>5, <1>6

\* The key that a running client sends is digested.
LEMMA SentKey ==
  ASSUME NEW c \in Ends, NEW e \in {ClientHello(c), PeerKey(c)}
  PROVE  e.type = "PeerKey" => e.public_key \in DOMAIN Digest
<1>1. PublicKey[c] \in DOMAIN Digest
  BY KeysHaveDigest, Zenon
<1>2. ClientHello(c).type = "ClientHello" /\ PeerKey(c).public_key = PublicKey[c]
  BY DEF ClientHello, PeerKey
<1> QED
  BY <1>1, <1>2, Zenon

\* The steps of sender and relay leave the clients alone.
LEMMA RelayKeepsPins ==
  ASSUME PinInv, UNCHANGED clientVars,
         Send \/ SendOther \/ RelaySkips \/ RelayForwards \/ RelayReports \/ RelayDenies
           \/ NewerRelayReports
  PROVE  PinsSet' /\ UnderWay' /\ KeyRead'
<1>1. PinsSet'
  BY Zenon DEF PinInv, PinsSet, clientVars
<1>2. CASE Send
  <2>1. PICK e \in {ClientHello("sender"), PeerKey("sender")} :
          event' = {e} /\ frame' = {ToJson(e)} /\ at' = "relay"
    BY <1>2, Zenon DEF Send
  <2>2. e.type = "PeerKey" => e.public_key \in DOMAIN Digest
    BY <2>1, SentKey, Zenon DEF Ends
  <2>3. UnderWay'
    BY <2>1, <2>2 DEF UnderWay
  <2>4. KeyRead'
    BY <2>1 DEF KeyRead
  <2> QED
    BY <1>1, <2>3, <2>4
<1>3. CASE SendOther
  <2>1. PICK t \in OtherFrames : frame' = {t} /\ event' = FromJson(t) /\ at' = "relay"
    BY <1>3, Zenon DEF SendOther
  <2>2. \A e \in event' : e.type = "PeerKey" => e.public_key \in DOMAIN Digest
    BY <2>1, KeysHaveDigest, Zenon
  <2>3. UnderWay'
    BY <2>1, <2>2 DEF UnderWay
  <2>4. KeyRead'
    BY <2>1 DEF KeyRead
  <2> QED
    BY <1>1, <2>3, <2>4
<1>4. CASE RelaySkips
  <2>1. at = "relay" /\ frame # {} /\ \A t \in frame : FromJson(t) = event
    BY <1>4 DEF RelaySkips, PinInv, WireInv, FramesDecode, UnderWay
  <2>2. event' = {} /\ at' = "nobody"
    BY <1>4, <2>1, Zenon DEF RelaySkips
  <2>3. UnderWay'
    BY <2>2 DEF UnderWay
  <2>4. KeyRead'
    BY <2>2, Zenon DEF KeyRead
  <2> QED
    BY <1>1, <2>3, <2>4
<1>5. CASE RelayForwards
  <2>1. PICK t \in frame : \E e \in FromJson(t) :
          e.type \in {"PeerKey", "EncryptedMessage"} /\ frame' = {ToJson(e)}
    BY <1>5, Zenon DEF RelayForwards
  <2>2. PICK e \in FromJson(t) :
          e.type \in {"PeerKey", "EncryptedMessage"} /\ frame' = {ToJson(e)}
    BY <2>1, Zenon
  <2>3. event' = event /\ at' = "receiver"
    BY <1>5, Zenon DEF RelayForwards
  <2>4. FromJson(t) = {e} /\ FromJson(t) = event
    BY <2>1, <2>2, ForwardedDecodes, Zenon DEF PinInv, WireInv, FramesDecode
  <2>5. \A k \in event : k.type = "PeerKey" => k.public_key \in DOMAIN Digest
    BY Zenon DEF PinInv, UnderWay
  <2>6. UnderWay'
    BY <2>2, <2>3, <2>4, <2>5 DEF UnderWay
  <2>7. KeyRead'
    BY <2>3 DEF KeyRead
  <2> QED
    BY <1>1, <2>6, <2>7
<1>6. ASSUME NEW code, Report(code) PROVE UnderWay' /\ KeyRead'
  <2>1. /\ event' = {[type |-> "Error", code |-> code]} /\ at' = "sender"
        /\ frame' = {ToJson([type |-> "Error", code |-> code])}
    BY <1>6, Zenon DEF Report
  <2>2. frame' # {} /\ \A e \in event' : e.type = "Error"
    BY <2>1
  <2>3. UnderWay'
    BY <2>1, <2>2 DEF UnderWay
  <2>4. KeyRead'
    BY <2>1 DEF KeyRead
  <2> QED
    BY <2>3, <2>4
<1>7. CASE RelayReports \/ RelayDenies \/ NewerRelayReports
  BY <1>1, <1>6, <1>7, Zenon DEF RelayReports, RelayDenies, NewerRelayReports
<1> QED
  BY <1>2, <1>3, <1>4, <1>5, <1>7, Zenon

\* The pin is set once and decides about the keys that are read from then on.
LEMMA PinInvNext == PinInv /\ [Next]_vars => PinInv'
<1> SUFFICES ASSUME PinInv, [Next]_vars PROVE PinInv'
  OBVIOUS
<1>1. WireInv'
  BY ClientsStayParsed, FramesStayDecoded, Zenon DEF PinInv, WireInv
<1>2. ASSUME NEW c \in Ends, Start(c) \/ ClientReads(c) PROVE PinsSet' /\ UnderWay' /\ KeyRead'
  BY <1>2, StartKeepsPins, ReadKeepsPins, Zenon
<1>3. ASSUME NEW c \in Ends, StartFails(c) PROVE PinsSet' /\ UnderWay' /\ KeyRead'
  <2>1. /\ status[c] = "new" /\ status' = [status EXCEPT ![c] = "failed"]
        /\ UNCHANGED <<args, ids, pin, peer_public_key, frame, at, event, problem>>
    BY <1>3, Zenon DEF StartFails
  <2>2. \A d \in Ends : (status'[d] = "running") <=> (status[d] = "running")
    BY <2>1 DEF PinInv, WireInv, WireTypeOK
  <2>3. PinsSet' /\ UnderWay'
    BY <2>1, <2>2, Zenon DEF PinInv, PinsSet, UnderWay
  <2>4. KeyRead'
    BY <2>1, <2>2, Zenon DEF PinInv, KeyRead, AcceptsKey, Ends
  <2> QED
    BY <2>3, <2>4
<1>4. CASE \/ Send \/ SendOther
           \/ RelaySkips \/ RelayForwards \/ RelayReports \/ RelayDenies \/ NewerRelayReports
  <2>1. UNCHANGED clientVars
    BY <1>4, Zenon DEF Send, SendOther, RelaySkips, RelayForwards, RelayReports, RelayDenies,
       NewerRelayReports, Report
  <2> QED
    BY <1>1, <1>4, <2>1, RelayKeepsPins, Zenon DEF PinInv
<1>5. CASE UNCHANGED vars
  BY <1>1, <1>5, Zenon DEF vars, clientVars, PinInv, PinsSet, UnderWay, KeyRead, AcceptsKey
<1> QED
  BY <1>1, <1>2, <1>3, <1>4, <1>5, Zenon DEF Next, PinInv

\* The pin that a client holds is the fingerprint of a key exactly when the argument it
\* was started with names the key.
LEMMA PinDecides ==
  ASSUME WireTypeOK, NEW c \in Ends, pin[c] \in Pins(args[c].pin),
         NEW key \in DOMAIN Digest
  PROVE  (pin[c] = {} \/ Fingerprint(key) \in pin[c])
           <=> \A raw \in args[c].pin : NamesKey(raw, key)
<1>0. Digest[key] \in Seq(0..255)
  BY KeysHaveDigest, Zenon
<1>1. CASE args[c].pin = {}
  <2>1. pin[c] = {}
    BY <1>1, Zenon DEF Pins
  <2> QED
    BY <1>1, <2>1, Zenon
<1>2. CASE args[c].pin # {}
  <2>1. PICK raw \in args[c].pin : raw \in Seq(Nat) /\ args[c].pin = {raw}
    <3>1. args[c].pin \in SUBSET Seq(Nat) /\ \A x, y \in args[c].pin : x = y
      BY ArgTexts, Zenon
    <3> QED
      BY <1>2, <3>1
  <2>2. PICK s \in NormalizeFingerprint(raw) : pin[c] = {ToLowercase(Trim(s))}
    <3>1. UNION {NormalizeFingerprint(r) : r \in args[c].pin} = NormalizeFingerprint(raw)
      BY <2>1, Zenon
    <3> QED
      BY <1>2, <3>1, Zenon DEF Pins
  <2>3. pin[c] = {s}
    BY <2>1, <2>2, NormalizedStays, Zenon
  <2>4. (Fingerprint(key) = s) <=> NamesKey(raw, key)
    BY <1>0, <2>1, <2>2, PinNamesKey, Zenon
  <2> QED
    BY <2>1, <2>3, <2>4, Zenon
<1> QED
  BY <1>1, <1>2

\* A client that was given a fingerprint opens a session with the key that it names, and
\* with no other, for every text, key, digest and length of a fingerprint: trimming and
\* lowering twice loses nothing (normalize_fingerprint, expect_peer_fingerprint,
\* fingerprint, handle_event).
THEOREM PinsDecideKeys == Spec => []PinHonoured
<1>1. PinInv => PinHonoured
  <2> SUFFICES ASSUME PinInv, NEW e \in event,
                      at = "nobody", e.type = "PeerKey", <<e.to, e.from>> = ids["receiver"]
               PROVE  peer_public_key["receiver"] # {}
                        <=> \A raw \in args["receiver"].pin : NamesKey(raw, e.public_key)
    BY Zenon DEF PinHonoured
  <2>1. /\ status["receiver"] = "running" /\ event = {e}
        /\ peer_public_key["receiver"]
             = {k.public_key : k \in {x \in event : AcceptsKey("receiver", x)}}
    BY Zenon DEF PinInv, KeyRead
  <2>2. pin["receiver"] \in Pins(args["receiver"].pin) /\ e.public_key \in DOMAIN Digest
    BY <2>1, Zenon DEF PinInv, PinsSet, UnderWay, Ends
  <2>3. ids["receiver"][1] = e.to /\ ids["receiver"][2] = e.from
    <3> DEFINE i == ids["receiver"]
    <3>1. i = <<e.to, e.from>>
      OBVIOUS
    <3> HIDE DEF i
    <3>2. i[1] = e.to /\ i[2] = e.from
      BY <3>1
    <3> QED
      BY <3>2, Zenon DEF i
  <2>4. (peer_public_key["receiver"] # {}) <=> AcceptsKey("receiver", e)
    BY <2>1
  <2>5. AcceptsKey("receiver", e)
          <=> (pin["receiver"] = {} \/ Fingerprint(e.public_key) \in pin["receiver"])
    BY <2>3, Zenon DEF AcceptsKey
  <2>6. (pin["receiver"] = {} \/ Fingerprint(e.public_key) \in pin["receiver"])
          <=> \A raw \in args["receiver"].pin : NamesKey(raw, e.public_key)
    BY <2>2, PinDecides, Zenon DEF PinInv, WireInv, Ends
  <2> QED
    BY <2>4, <2>5, <2>6, Zenon
<1> QED
  BY <1>1, PinInvInit, PinInvNext, PTL DEF Spec
=============================================================================
