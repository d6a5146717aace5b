-------------------------------- MODULE Wire --------------------------------
(***************************************************************************)
(* The way of text through the system.  Two clients are started with       *)
(* arguments as they were typed (run in crates/chat-client/src/main.rs);   *)
(* one of them sends a frame, the relay decodes it and forwards it, or     *)
(* answers with an error (handle_socket and reject_connection in           *)
(* crates/chat-server/src/ws.rs), and a client decodes what arrives.       *)
(*                                                                         *)
(* Whom the relay forwards to and which error it finds is the subject of   *)
(* InMemoryRouter and Relay; here every answer is possible.                *)
(***************************************************************************)
EXTENDS WireTypes

CONSTANTS
    Args,           \* records of the texts of --id, --peer and --verify-fingerprint
    PublicKey,      \* the public key of each of the two clients
    OtherFrames,    \* frames of other programs or versions
    OtherCodes      \* error codes that only a newer relay knows

Ends == {"sender", "receiver"}

ASSUME ArgsAreTexts ==
    \A a \in Args : /\ a.id \in Seq(Nat) /\ a.peer \in Seq(Nat) /\ a.pin \in SUBSET Seq(Nat)
                   /\ \A x, y \in a.pin : x = y
ASSUME PublicKeysHaveLength == \A c \in Ends : Len(PublicKey[c]) = PublicKeyLen
ASSUME KeysHaveDigest ==
    /\ \A key \in DOMAIN Digest : Digest[key] \in Seq(0..255)
    /\ \A c \in Ends : PublicKey[c] \in DOMAIN Digest
    /\ \A t \in OtherFrames : \A e \in FromJson(t) :
         e.type = "PeerKey" => e.public_key \in DOMAIN Digest
ASSUME OtherCodesAreNew == \A raw \in OtherCodes : \A k \in DOMAIN WireStr : WireStr[k] # raw

VARIABLES
    args,               \* what each client was started with
    status,             \* of each client: "new", "running", "failed"
    ids,                \* local and peer id of a running client
    pin,                \* its expected_peer_fingerprint
    peer_public_key,    \* the key it accepted
    frame,              \* the text under way, if any
    at,                 \* who reads the frame next: "nobody", "relay" or one of the clients
    event,              \* history: the event the frame stands for
    problem             \* history: the error that the relay found

clientVars == <<args, status, ids, pin, peer_public_key>>
vars == <<clientVars, frame, at, event, problem>>

Init ==
    /\ args \in [Ends -> Args]
    /\ status = [c \in Ends |-> "new"]
    /\ ids = [c \in Ends |-> <<>>]
    /\ pin = [c \in Ends |-> {}]
    /\ peer_public_key = [c \in Ends |-> {}]
    /\ frame = {} /\ at = "nobody" /\ event = {} /\ problem = {}

\* The pins that --verify-fingerprint may lead to: none at all if it is malformed.
\* expect_peer_fingerprint trims and lowers once more.
Pins(raw) ==
    IF raw = {} THEN {{}}
    ELSE {{ToLowercase(Trim(s))} : s \in UNION {NormalizeFingerprint(r) : r \in raw}}

\* run up to the connection: the three arguments are converted in turn.
Start(c) ==
    /\ status[c] = "new"
    /\ \E local \in ParseClientId(args[c].id), peer \in ParseClientId(args[c].peer),
          p \in Pins(args[c].pin) :
         /\ ids' = [ids EXCEPT ![c] = <<local, peer>>]
         /\ pin' = [pin EXCEPT ![c] = p]
    /\ status' = [status EXCEPT ![c] = "running"]
    /\ UNCHANGED <<args, peer_public_key, frame, at, event, problem>>

\* One of the conversions fails and the program ends.
StartFails(c) ==
    /\ status[c] = "new"
    /\ \/ ParseClientId(args[c].id) = {}
       \/ ParseClientId(args[c].peer) = {}
       \/ Pins(args[c].pin) = {}
    /\ status' = [status EXCEPT ![c] = "failed"]
    /\ UNCHANGED <<args, ids, pin, peer_public_key, frame, at, event, problem>>

ClientHello(c) ==
    [type |-> "ClientHello", client_id |-> ids[c][1], public_key |-> PublicKey[c]]
PeerKey(c) ==
    [type |-> "PeerKey", from |-> ids[c][1], to |-> ids[c][2], public_key |-> PublicKey[c]]

Idle == at = "nobody" /\ event = {} /\ problem = {}

\* send_event.
Send ==
    /\ status["sender"] = "running" /\ Idle
    /\ \E e \in {ClientHello("sender"), PeerKey("sender")} :
         event' = {e} /\ frame' = {ToJson(e)}
    /\ at' = "relay"
    /\ UNCHANGED <<clientVars, problem>>

\* Another program sends a frame.
SendOther ==
    /\ Idle
    /\ \E t \in OtherFrames : frame' = {t} /\ event' = FromJson(t)
    /\ at' = "relay"
    /\ UNCHANGED <<clientVars, problem>>

\* A frame that does not decode is skipped.
RelaySkips ==
    /\ at = "relay" /\ \A t \in frame : FromJson(t) = {}
    /\ at' = "nobody"
    /\ UNCHANGED <<clientVars, frame, event, problem>>

\* The event goes to the other client; the writer serializes it again.
RelayForwards ==
    /\ at = "relay"
    /\ \E t \in frame : \E e \in FromJson(t) :
         e.type \in {"PeerKey", "EncryptedMessage"} /\ frame' = {ToJson(e)}
    /\ at' = "receiver"
    /\ UNCHANGED <<clientVars, event, problem>>

\* The sender is handed an Error event.
Report(code) ==
    /\ event' = {[type |-> "Error", code |-> code]}
    /\ frame' = {ToJson([type |-> "Error", code |-> code])}
    /\ at' = "sender"
    /\ UNCHANGED clientVars

\* The sender is told about a routing error.
RelayReports ==
    /\ at = "relay" /\ \E t \in frame : FromJson(t) # {}
    /\ \E error \in RouterErrors : Report(RouterErrorCode(error)) /\ problem' = {error}

\* reject_connection after a hello.
RelayDenies ==
    /\ at = "relay"
    /\ \E t \in frame : \E e \in FromJson(t) : e.type = "ClientHello"
    /\ Report(AuthErrorCode("ConnectDenied")) /\ problem' = {"ConnectDenied"}

\* A relay of a later version has a code of its own.
NewerRelayReports ==
    /\ Idle
    /\ \E raw \in OtherCodes : Report(Other(raw))
    /\ UNCHANGED problem

\* handle_event on a PeerKey.
AcceptsKey(c, e) ==
    /\ e.type = "PeerKey" /\ e.from = ids[c][2] /\ e.to = ids[c][1]
    /\ pin[c] = {} \/ Fingerprint(e.public_key) \in pin[c]

\* The first frame that reaches a client; one that does not decode ends it.
ClientReads(c) ==
    /\ at = c /\ status[c] = "running"
    /\ LET decoded == UNION {FromJson(t) : t \in frame}
       IN  /\ peer_public_key' = [peer_public_key EXCEPT
                  ![c] = {e.public_key : e \in {k \in decoded : AcceptsKey(c, k)}}]
           /\ status' = [status EXCEPT ![c] = IF decoded = {} THEN "failed" ELSE @]
    /\ at' = "nobody"
    /\ UNCHANGED <<args, ids, pin, frame, event, problem>>

Next ==
    \/ \E c \in Ends : Start(c) \/ StartFails(c) \/ ClientReads(c)
    \/ Send \/ SendOther
    \/ RelaySkips \/ RelayForwards \/ RelayReports \/ RelayDenies \/ NewerRelayReports

Spec == Init /\ [][Next]_vars

-----------------------------------------------------------------------------
(* Properties.                                                             *)

\* What one end encodes the other end decodes to the very same event, through the relay
\* too, which decodes and encodes again: no client ends because of a frame that the relay
\* passed on, and an error code of a later relay survives (FromJson, ToJson).
FramesDecode == \A t \in frame : FromJson(t) = event

\* What a client reads when the relay found an error is that error's own code: no other
\* one, not that of a denied connection, and not Other with the text of the code, although
\* three tables are involved (From<&RouterError> and From<&AuthError>, as_wire_str,
\* from_wire).
ReportNamesProblem ==
    \A t \in frame, p \in problem : FromJson(t) = {[type |-> "Error", code |-> Known(p)]}

\* Two clients derive the same session info exactly when they have the same two ids, and
\* the same nonce prefix exactly when they have them in the same order, although the
\* bytes are concatenated with a mere separator (ClientId::parse, session_info,
\* nonce_prefix).
DerivedBytesMatch ==
    \A c, d \in Ends : (status[c] = "running" /\ status[d] = "running") =>
        LET x == ids[c]
            y == ids[d]
        IN  /\ (SessionInfoBytes(x[1], x[2]) = SessionInfoBytes(y[1], y[2]))
                  <=> ({x[1], x[2]} = {y[1], y[2]})
            /\ (NoncePrefixBytes(x[1], x[2]) = NoncePrefixBytes(y[1], y[2])) <=> (x = y)

\* The value of a hexadecimal digit of either case, as a set of at most one element.
HexValue(c) ==
    {n \in 0..15 : c = (IF n < 10 THEN 48 ELSE 87) + n \/ (n > 9 /\ c = 55 + n)}

\* The text is blanks around FingerprintLen digits that read as the digest of the key.
NamesKey(raw, key) ==
    \E start \in 0..(Len(raw) - FingerprintLen) :
        /\ FingerprintLen = 2 * Len(Digest[key])
        /\ \A k \in 1..Len(raw) :
             k \in (start + 1)..(start + FingerprintLen) \/ IsWhitespace(raw[k])
        /\ \A b \in 1..Len(Digest[key]) :
             \E high \in HexValue(raw[start + 2 * b - 1]), low \in HexValue(raw[start + 2 * b]) :
                16 * high + low = Digest[key][b]

\* A client started with --verify-fingerprint opens a session with the owner of that
\* fingerprint and with nobody else, however the text was typed (normalize_fingerprint,
\* expect_peer_fingerprint, fingerprint, handle_event).
PinHonoured ==
    \A e \in event :
        (at = "nobody" /\ e.type = "PeerKey" /\ <<e.to, e.from>> = ids["receiver"]) =>
            (peer_public_key["receiver"] # {}
               <=> \A raw \in args["receiver"].pin : NamesKey(raw, e.public_key))
=============================================================================
