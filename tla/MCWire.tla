------------------------------- MODULE MCWire -------------------------------
(* Two clients, ids of at most three characters, keys of two bytes and     *)
(* fingerprints of two digits.                                             *)
EXTENDS Wire

KeyA == <<1, 2>>
KeyB == <<3, 4>>
MCPublicKey == [c \in Ends |-> IF c = "sender" THEN KeyA ELSE KeyB]

\* The digests 0xAB and 0x0C.
MCDigest == [k \in {KeyA, KeyB} |-> IF k = KeyA THEN <<171>> ELSE <<12>>]

\* "a", "B", "a" NUL "a", a text that is too long, and none.
RawIds == {<<97>>, <<66>>, <<97, 0, 97>>, <<97, 97, 97, 97>>, <<>>}

\* "ab", " aB ", "ab" between an ideographic and a no-break space, "0c", "a b", "ab" with a
\* third digit.
RawPins ==
    {<<97, 98>>, <<32, 97, 66, 32>>, <<12288, 97, 98, 160>>, <<48, 99>>, <<97, 32, 98>>,
     <<97, 98, 48>>}

MCArgs ==
    [id : RawIds, peer : RawIds, pin : {{}}]
      \cup [id : {<<66>>}, peer : {<<97>>}, pin : {{p} : p \in RawPins}]

\* An envelope, a key that is too short, a nonce that is not base64, an Ack and an event
\* of an unknown type.
MCOtherFrames ==
    LET key(n) == Base64Encode([i \in 1..n |-> i])
        envelope(n) == [type |-> "encrypted_message", sender |-> <<97>>, recipient |-> <<66>>,
                        message_id |-> 1, epoch |-> 0, nonce |-> n, ciphertext |-> key(3)]
    IN  {envelope(key(1)), envelope([text |-> "?"]),
         [type |-> "peer_key", from |-> <<97>>, to |-> <<66>>, public_key |-> key(1)],
         [type |-> "ack", message_id |-> 1], [type |-> "typing"]}
=============================================================================
