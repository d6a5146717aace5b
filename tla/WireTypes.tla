----------------------------- MODULE WireTypes -----------------------------
(***************************************************************************)
(* The conversions of crates/chat-core: types.rs (client ids, byte fields) *)
(* and event.rs (events, error codes), the bytes that crypto.rs derives    *)
(* from a pair of ids, and the text of key fingerprints.  A Result or an   *)
(* Option is a set with at most one element.                               *)
(*                                                                         *)
(* A string that the code looks into is the sequence of its code points; a *)
(* JSON object is a record of the texts of its fields.                     *)
(***************************************************************************)
EXTENDS Integers, Sequences

CONSTANTS
    CLIENT_ID_MAX_LEN,
    PublicKeyLen, NonceLen,     \* 32 and 24 bytes in the code
    FingerprintLen,             \* 64 hexadecimal digits in the code
    Digest                      \* SHA-256 of each public key

ASSUME LengthsAreNat ==
    /\ CLIENT_ID_MAX_LEN \in Nat
    /\ PublicKeyLen \in Nat /\ NonceLen \in Nat /\ FingerprintLen \in Nat

-----------------------------------------------------------------------------
(* ClientId.                                                               *)

IsAsciiDigit(c) == c \in 48..57
IsAsciiAlphanumeric(c) == IsAsciiDigit(c) \/ c \in 65..90 \/ c \in 97..122

\* Faulty variant: any character.
AnyChar(c) == TRUE

\* Letters, digits, '-', '.' and '_'.
IsAllowedClientIdChar(c) == IsAsciiAlphanumeric(c) \/ c \in {45, 46, 95}

\* The error of ClientId::parse, if any, in the order of its checks.
ParseError(value) ==
    IF value = <<>> THEN {"EmptyClientId"}
    ELSE IF Len(value) > CLIENT_ID_MAX_LEN THEN {"ClientIdTooLong"}
    ELSE IF \E i \in 1..Len(value) : ~IsAllowedClientIdChar(value[i])
         THEN {"ClientIdInvalidCharacter"}
    ELSE {}

\* ClientId::parse: the value itself or nothing.
ParseClientId(value) == IF ParseError(value) = {} THEN {value} ELSE {}

-----------------------------------------------------------------------------
(* The bytes derived from two ids (crypto.rs).                             *)

Separator == <<0>>

\* The labels, cut down to one letter: they contain no separator.
SessionLabel == <<115>>
NonceLabel == <<110>>

\* a is a proper prefix of b, or smaller where they first differ.
StringLess(a, b) ==
    \E n \in 0..Len(a) :
        /\ n < Len(b) /\ \A i \in 1..n : a[i] = b[i]
        /\ n = Len(a) \/ a[n + 1] < b[n + 1]

\* sort_unstable of the two ids.
SortedIds(local, peer) == IF StringLess(peer, local) THEN <<peer, local>> ELSE <<local, peer>>

\* session_info: label, 0, smaller id, 0, larger id.
SessionInfoBytes(local, peer) ==
    LET ids == SortedIds(local, peer)
    IN  SessionLabel \o Separator \o ids[1] \o Separator \o ids[2]

\* What nonce_prefix hashes: label, 0, local id, 0, peer id.
NoncePrefixBytes(local, peer) == NonceLabel \o Separator \o local \o Separator \o peer

-----------------------------------------------------------------------------
(* Byte fields.                                                            *)

\* The standard alphabet; a text that is not base64 has no bytes.
Base64Encode(bytes) == [base64 |-> bytes]
Base64Decode(text) == IF DOMAIN text = {"base64"} THEN {text.base64} ELSE {}

SerializeBytes(bytes) == Base64Encode(bytes)
DeserializeBytes(text) == Base64Decode(text)

\* try_into an array of length n.
DeserializeArray(text, n) == {bytes \in DeserializeBytes(text) : Len(bytes) = n}

\* The impls of PublicKeyBytes, NonceBytes and Ciphertext.
SerializePublicKey(key) == SerializeBytes(key)
SerializeNonce(nonce) == SerializeBytes(nonce)
SerializeCiphertext(ciphertext) == SerializeBytes(ciphertext)

DeserializePublicKey(text) == DeserializeArray(text, PublicKeyLen)
DeserializeNonce(text) == DeserializeArray(text, NonceLen)
DeserializeCiphertext(text) == DeserializeBytes(text)

-----------------------------------------------------------------------------
(* RelayErrorCode, and the errors that become one (service.rs).            *)

WireStr ==
    [SenderMismatch |-> "sender_mismatch",
     UnknownRecipient |-> "unknown_recipient",
     UnsupportedEvent |-> "unsupported_event",
     ClientNotConnected |-> "client_not_connected",
     ClientAlreadyConnected |-> "client_already_connected",
     ConnectDenied |-> "connect_denied"]

Known(code) == [code |-> code]
Other(raw) == [code |-> "Other", raw |-> raw]

AsWireStr(c) == IF c.code = "Other" THEN c.raw ELSE WireStr[c.code]

\* Faulty variant: an unknown code is an error of the parser.
KnownCodesOnly(raw) == {Known(code) : code \in {k \in DOMAIN WireStr : WireStr[k] = raw}}

\* from_wire: a known code, or the text kept as it is.
FromWire(raw) ==
    IF \E k \in DOMAIN WireStr : WireStr[k] = raw
    THEN {Known(code) : code \in {k \in DOMAIN WireStr : WireStr[k] = raw}}
    ELSE {Other(raw)}

RouterErrors ==
    {"ClientAlreadyConnected", "ClientNotConnected", "SenderMismatch", "UnknownRecipient",
     "UnsupportedEvent"}

\* Faulty variant: a second connection of an id is reported like a denied one.
DeniedCode(error) ==
    Known(IF error = "ClientAlreadyConnected" THEN "ConnectDenied" ELSE error)

RouterErrorCode(error) == Known(error)
AuthErrorCode(error) == Known("ConnectDenied")

-----------------------------------------------------------------------------
(* WireEvent to JSON and back.  Numbers and UUIDs are taken over as they   *)
(* are; the wording of an Error is left out.                               *)

\* serde_json::to_string.
ToJson(e) ==
    CASE e.type = "ClientHello" ->
           [type |-> "client_hello", client_id |-> e.client_id,
            public_key |-> SerializePublicKey(e.public_key)]
      [] e.type = "PeerKey" ->
           [type |-> "peer_key", from |-> e.from, to |-> e.to,
            public_key |-> SerializePublicKey(e.public_key)]
      [] e.type = "EncryptedMessage" ->
           [type |-> "encrypted_message", sender |-> e.sender, recipient |-> e.recipient,
            message_id |-> e.message_id, epoch |-> e.epoch,
            nonce |-> SerializeNonce(e.nonce), ciphertext |-> SerializeCiphertext(e.ciphertext)]
      [] e.type = "Ack" -> [type |-> "ack", message_id |-> e.message_id]
      [] e.type = "Error" -> [type |-> "error", code |-> AsWireStr(e.code)]

\* serde_json::from_str::<WireEvent>: every field has to convert.
FromJson(t) ==
    CASE t.type = "client_hello" ->
           {[type |-> "ClientHello", client_id |-> id, public_key |-> key] :
              id \in ParseClientId(t.client_id), key \in DeserializePublicKey(t.public_key)}
      [] t.type = "peer_key" ->
           {[type |-> "PeerKey", from |-> from, to |-> to, public_key |-> key] :
              from \in ParseClientId(t.from), to \in ParseClientId(t.to),
              key \in DeserializePublicKey(t.public_key)}
      [] t.type = "encrypted_message" ->
           {[type |-> "EncryptedMessage", sender |-> from, recipient |-> to,
             message_id |-> t.message_id, epoch |-> t.epoch, nonce |-> n, ciphertext |-> c] :
              from \in ParseClientId(t.sender), to \in ParseClientId(t.recipient),
              n \in DeserializeNonce(t.nonce), c \in DeserializeCiphertext(t.ciphertext)}
      [] t.type = "ack" -> {[type |-> "Ack", message_id |-> t.message_id]}
      [] t.type = "error" -> {[type |-> "Error", code |-> c] : c \in FromWire(t.code)}
      [] OTHER -> {}

-----------------------------------------------------------------------------
(* Fingerprints.                                                           *)

\* Faulty variant: upper case digits.
UpperHexDigit(n) == IF n < 10 THEN 48 + n ELSE 55 + n

\* One digit of {:02x}.
HexDigit(n) == IF n < 10 THEN 48 + n ELSE 87 + n

\* fingerprint: two digits per byte of the digest.
Fingerprint(key) ==
    [i \in 1..(2 * Len(Digest[key])) |->
        LET byte == Digest[key][(i + 1) \div 2]
        IN  HexDigit(IF i % 2 = 1 THEN byte \div 16 ELSE byte % 16)]

\* char::is_whitespace: the code points with the Unicode property White_Space.
IsWhitespace(c) ==
    c \in (9..13) \cup (8192..8202) \cup {32, 133, 160, 5760, 8232, 8233, 8239, 8287, 12288}

\* str::trim.
Trim(s) ==
    LET solid == {i \in 1..Len(s) : ~IsWhitespace(s[i])}
        first == CHOOSE i \in solid : \A j \in solid : i <= j
        last == CHOOSE i \in solid : \A j \in solid : j <= i
    IN  IF solid = {} THEN <<>> ELSE SubSeq(s, first, last)

\* str::to_lowercase.
ToLowercase(s) == [i \in 1..Len(s) |-> IF s[i] \in 65..90 THEN s[i] + 32 ELSE s[i]]

IsAsciiHexdigit(c) == IsAsciiDigit(c) \/ c \in 65..70 \/ c \in 97..102

\* normalize_fingerprint.
NormalizeFingerprint(raw) ==
    {s \in {ToLowercase(Trim(raw))} :
        Len(s) = FingerprintLen /\ \A i \in 1..Len(s) : IsAsciiHexdigit(s[i])}
=============================================================================
