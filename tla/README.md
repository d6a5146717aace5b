# A TLA+ development of e2e-chat-rs

e2e-chat-rs is a two-party end-to-end encrypted chat: a client that encrypts, and a
relay that forwards what it cannot read. This directory holds TLA+ models of both and of
the two together, the TLC configurations that check them on small instances, and TLAPS proofs of the results
that matter most. Paths are relative to the repository (`src/`).

## The system and its parts

| Part | Source | Module |
|---|---|---|
| encrypted session: keys, nonces, replay tracking, rekey handshake | `chat-core/src/crypto.rs`, `nonce.rs` | `CryptoSession`, abstract: `Ratchet` |
| client session: key acceptance, pinning, chat lines, automatic rekey | `chat-client/src/session.rs` | `ClientSession` |
| client event loop: retry tick, stdin, inbound events, sends | `chat-client/src/main.rs` | `ClientSession` |
| message router: one outbox per connected client id | `chat-server/src/router.rs` | `InMemoryRouter` |
| relay: one task per WebSocket connection, bounded queues, close channel | `chat-server/src/ws.rs` | `Relay` |
| relay's promise: each event once, to its addressee, or lost with it | | abstract: `Delivery`, refined by `Relay` |
| hooks, authorization, error codes | `chat-core/src/service.rs` | the calls are steps of `Relay`; codes: `WireTypes` |
| wire events, value types, fingerprints, bytes derived from ids | `chat-core/src/event.rs`, `types.rs`, `crypto.rs` | `WireTypes`, used by `Wire` |
| command line: ids and pinned fingerprint as typed | `chat-client/src/main.rs` | `Wire` |
| clients and relay together | all of the above | `ChatOverRelay` |
| server builder, binaries, tracing | the rest | not modelled |

A client connects to the relay, sends `ClientHello` and then its public key in a
`PeerKey` for its peer. The relay forwards `PeerKey`s and encrypted envelopes to the
connection that is registered under the recipient's id and acknowledges envelopes. A
client that has its peer's key derives a master secret and encrypts chat lines. `/rekey`
or a line threshold starts a handshake, carried inside the encrypted channel, that mixes
a new Diffie-Hellman result into the master and moves both ends to the next epoch.

## Modules

### CryptoSession and ClientSession: the client program

A *process* is one run of the client program; `LocalId` says under which client id it
runs. A restarted client is a new process with the same id and a new key pair, which is
what the code does (`KeyPair::generate` in `ClientSession::new`). Nothing in the program keeps
two processes of one id from running at once; it is the relay that admits one at a time. Every field of
`CryptoSession` and `ClientSession` is a function of the processes and keeps its name; an
`Option` is a set of at most one element.

Cryptography is symbolic. A Diffie-Hellman result is the set of the two secrets, a master
secret is the chain of the results that were mixed in, an AEAD key is the record of what
HKDF is given (master, session info, epoch), and a ciphertext opens only under the key,
nonce and associated data that sealed it. A nonce is the pair of its prefix and its
counter. Values drawn at random (message ids, rekey ids, ephemeral secrets) are pairs of
the process and the number of the draw, so two draws never coincide.

The actions are the branches of the `select!` loop with everything they call:

| Action | Code |
|---|---|
| `Start`, `RetryPeerKey`, `Quit` | `run` before the loop; the interval tick; every orderly or I/O end |
| `AcceptPeerKey`, `IgnorePeerKey` | `handle_event` on a `PeerKey`, with the reply of `main.rs:172` |
| `ChatLine`, `ChatLineThenRekey`, `RequestNotSent`, `LineFails` | `encrypt_line` and the sends; the connection breaking between the two sends; exhausted nonces |
| `RekeyCommand`, `RekeyCommandFails` | `/rekey`, and its error, which ends the client |
| `RejectEnvelope` | every error of `decrypt` |
| `ReceiveChat`, `ReceiveRekeyRequest`, `ResponseNotSent`, `StageWithoutReply`, `ReceiveRekeyResponse`, `RefuseHandshake` | `handle_encrypted_message`, its error paths, and the send of the reply failing |
| `RelayRefuses` | the relay's answer to an unknown recipient, seen from the clients |

The event loop is sequential, so a branch is one step; the places where it can stop half
way (an error from a send) are actions of their own. A failed send that leaves nothing
behind but the end of the process is `Quit`. The network between the clients is a set of
events, delivered in any order and, when `Replays` is true, any number of times. `sent`
and `shown` are histories: all envelopes handed to the network and the chat lines
printed.

`Ratchet` is what the session layer promises about keys without speaking of messages: a
chain is opened once, grows by one secret at a time, and grows either ahead of someone
who holds the same chain, with a secret that was never used, or onto the chain of someone
who is one secret ahead. `ClientSession` refines it, with `chain` mapped to `master_secret`.

### InMemoryRouter and Relay: the server

`InMemoryRouter` has one operator per call of the `MessageRouter` trait. `Relay` gives
each connection a program counter through `handle_socket`. One step is what the task does
under one lock, or one `try_send`; other tasks run between any two steps. `register`,
`insert`, `on_connect`; `route`, `flush`, `deliver`, `remove`; and `unregister`,
`disconnect`, `on_disconnect` are therefore separate steps, and so is the writer task.
Hook calls for routed events are part of the routing step, since nothing in the relay
depends on them.

`connections[id]` is the connection whose `ClientHandle` is in the map. The close channel
resolves when it was signalled, or when no `ClientHandle` of the connection exists any
more, neither in the map nor cloned into some task's deliveries (`CloseResolves`): in the
code both make `close_receiver.recv()` return. The lock of the auth provider is held
until a rejection has been sent, because the guard in the `if let` of `ws.rs:196` lives to
the end of its block.

An event keeps its type, its ids and a tag. `accepted` (what was routed, and for which
connection) and `written` (what went into each socket) are histories.

`Delivery` is the relay as a sender and a receiver see it: an accepted event is due to one
connection, is written to it once, or is lost when that connection leaves for good. Besides
these a connection is only sent notices, which are the error reports.
`ImplementsDelivery` maps `due` to the accepted events that are in an outbox, in a task's
hands or in a queue, and `leaving` to the connections on their way out. `Delivery`
promises no order, because the code keeps none (see `Overtaking` below).

### WireTypes and Wire: text

`WireTypes` has the conversions as operators: `ClientId::parse` with its three checks,
base64 fields with their lengths, the error codes and their strings, `WireEvent` to JSON
and back, the bytes of `session_info` and of what `nonce_prefix` hashes, `fingerprint` and
`normalize_fingerprint`. A string that the code looks into is the sequence of its code
points. base64 itself is external: an encoding that decodes to what was encoded, and texts
that do not decode.

`Wire` sends text through the system: two clients start from typed arguments (`Start`,
`StartFails`), one sends a frame, or another program does (`Send`, `SendOther`); the relay
decodes it and skips it, forwards it after encoding it again, or answers with an error
(`RelaySkips`, `RelayForwards`, `RelayReports`, `RelayDenies`); a client decodes what
arrives and ends if it cannot (`ClientReads`). Whom the relay forwards to and which error
it finds is left open here and settled in `InMemoryRouter`.

### ChatOverRelay: the whole system

`ChatOverRelay` extends `ClientSession` and instantiates `Relay`, with the client processes
as its connections. Each socket is a sequence per direction: `posted` and `written`, with
how far each has been read in `received` and `read`. An action of the system is an action
of a client together with the frames it sends in their order (`ClientActs`, `ReadEvent`,
`ReadControl`, `SocketCloses`), or one of the relay with the frame it takes from or puts
into a socket (`ServerActs`). A connection may also break under a running client: the relay
reads an error, an oversized frame for one, or fails to write (`ConnectionBreaks`). The relay's tag `<<p, n>>` stands for `posted[p][n]`, so the
relay never looks at more than an event's type and ids. `net`, which is a network in
`ClientSession`, is here only the record of what was sent.

That the parts are composed and not rewritten is a theorem: every behaviour of the system
is one of `ClientSession` and one of `Relay` (`ClientsImplemented`, `RelayImplemented`), so
what is proved of each of them holds of the system.

## Runs

All runs say `CHECK_DEADLOCK FALSE`: clients quit and connections close, so both systems
may come to rest.

| Run | Result | Question |
|---|---|---|
| `ReplayingNetwork` | passes | `NoNonceReuse`, `AtMostOnce`, `InStep`, `CurrentEpochReadable`, `SessionNeverRebuilt`, `ImplementsRatchet` with one process per client, automatic rekey on one side, any reordering and repetition |
| `Restarts` | passes | the same properties, less `CurrentEpochReadable`, when one client is started again, after or beside its first process, and events of the first run are still around |
| `RelayTasks` | passes | `OneOwner`, `ReachesAddressee` and the refinement `ImplementsDelivery` for three tasks, two of one client |
| `RelayLiveness` | passes | `TypeOK`, `CloseCompletes`, `RoutedIsQueued`, `HelloAnswered` with rejected events and a denied client |
| `TextPaths` | passes | `FramesDecode`, `ReportNamesProblem`, `DerivedBytesMatch`, `PinHonoured` |
| `ChatOverRelay` | passes | `CurrentEpochOpens`, `InOrderBeforeWriting`, `KeyExchangeCompletes`, `LoneHandshakeCompletes`, `RoutedIsRead`, `CutOffEnds` for the whole system, with connections that break |
| `PreviousEpoch` | violated | the documented reception of the previous epoch |
| `CrossedHandshakes` | violated | a handshake ends |
| `ResponderCounter` | violated | the line counter counts from the last completed rekey |
| `StaleRemoval` | violated | only slow clients are closed |
| `Overtaking` | violated | the rekey response reaches the peer before anything of the next epoch |
| `HookOrder` | violated | the hook sees connects and disconnects in turn |

The violated runs each check one sentence of the documentation or of a comment against the
code; `PROJECT.json` quotes the sentence and says what the trace shows.

Two further differences are plain in the code and have no run. `RekeyCommandFails`:
`README.md:53` says `/rekey` may be run "at any time", but during a handshake it ends the
client (`main.rs:98`). `ReportError`: `ws.rs:24` says "A full outbox closes the
connection", but an `Error` event that finds the sender's own queue full is dropped with a
warning (`ws.rs:255`).

### What the properties say

* `NoNonceReuse`: no two envelopes were sealed with one key and one nonce, by either end.
* `AtMostOnce`: a chat line is printed once, by one process, also when its envelope comes
  again after a rotation has pruned `inbound_nonces`.
* `InStep`: two ends that have each other's key hold the same master at equal epochs;
  otherwise one is exactly one epoch behind and still waits for the response.
* `CurrentEpochReadable`: what a paired peer sent under the current epoch decrypts.
* `SessionNeverRebuilt`: no step replaces an established session or takes its counter back.
* `OneOwner`: an id belongs to one connection, and the map holds nobody else's handle.
* `ReachesAddressee`: an event reaches the connection it was routed to, never a later one
  of the same client.
* `ImplementsDelivery`: whatever the interleaving, a routed event is written once to the
  connection it was routed to, or lost with that connection.
* `CloseCompletes`, `RoutedIsQueued`: a connection told to close goes; a routed event gets
  as far as the queue of its connection.
* `HelloAnswered`: who said hello is admitted or turned away. The exception is what the code
  does: the auth mutex is held while a rejection is sent, so a denied client that does not
  read it keeps the others waiting.
* `KeyExchangeCompletes`: two matching clients that stay up end with each other's keys, also
  when the first key was refused, was stuck in an outbox, or came from a process whose
  fingerprint is not the pinned one.
* `LoneHandshakeCompletes`: a handshake that no other one crosses is completed.
* `CurrentEpochOpens`: what is queued for a paired client, or written to it and not yet read,
  decrypts there if it is of the client's current epoch. Nothing comes twice, so what a client drops is of another epoch.
* `InOrderBeforeWriting`: until a client's first envelope is routed, it gets each sender's
  events in order. Afterwards its own task flushes its outbox too, for the Acks.
* `RoutedIsRead`: what was routed to a process whose handle was in the map is read by that
  process, the envelope by the recipient and the Ack by the sender, unless the process or its
  connection goes. An Ack alone does not mean that: what is routed between `connect` and
  `insert` stays in the outbox, and a recipient that has just gone reads nothing.
* `CutOffEnds`: a client whose connection the relay refused, closed or gave up after an error
  sees the end of its socket and ends.
* `FramesDecode`: a frame stands for the same event at both ends and in the relay.
* `ReportNamesProblem`: an error of the relay, a routing error or a denied connection, is
  decoded as an `Error` with the code of that error.
* `DerivedBytesMatch`: session info names the two ids, the nonce prefix also their order.
* `PinHonoured`: a pin, however typed, admits the key with that fingerprint and no other.

### Bounds

* `MaxNonce` (2 or 3) stands for `u64::MAX`: it bounds the envelopes a process sends and
  makes exhaustion, which the code handles, reachable. Three are enough for a chat line, a
  request and a further line after the rotation. The two ends together reach epoch 3 with
  it, so the pruning of nonces two epochs old happens.
* Two processes, or three with a restart. Two clients are all a session knows of; the third
  process makes envelopes of a dead session arrive.
* Relay: three connections of two clients, `OutboxCapacity` 1 for 256, and one event per
  connection (`MaxReceived`). An envelope and an Ack for one client already overfill its
  queue, so the full queue meets every other step. `Traffic` limits which events each
  client sends; between them the runs contain keys, envelopes, a misattributed event and an
  event that cannot be routed. Longer traffic of one sender is in `ChatOverRelay`. With one
  event each, `CloseCompletes` does not meet a client that keeps sending; that the close
  branch is taken then rests on the fairness of `LeaveLoop` alone.
* `TextPaths`: ids of at most three characters, among them one with a zero byte, keys of two
  bytes and fingerprints of two digits. The digests are chosen to have a letter and a
  leading zero. Between them the texts have blanks, capitals, wrong lengths and characters
  that are not allowed.
* `ChatOverRelay`: two processes of Alice's and one of Bob's. The run has three initial
  states. In the first nobody is connected, the three processes start and Alice's first one
  may retry, end or lose its connection, so that a key meets a peer that is not connected yet, a peer between its
  two registration steps, and a pin that refuses it. In the second, session and connections
  are established as they are after a second Alice and Bob have joined one after the other
  (but for the budget it is reached from the first, when Alice's first process is never
  started), and each acts once: a line, a rekey, its end or the breaking of its connection. The
  third is the second after Alice's process has ended and before the relay notices: her other
  process starts in its place while Bob writes, so that an envelope is routed to the process
  that has gone, to nobody, to one between its registration steps, or to the new one. `Budget`
  bounds what a process does by itself and the breaking of its connection, `MayEnd` and
  `MayRekey` who ends or loses the connection or starts a handshake, `MaxPosted` what the relay
  reads.
  `Overtaking` starts from the second state with two actions for Alice. `OutboxCapacity`
  is 2 here: full queues are the subject of the relay's own runs.

The two client ids differ: a client started with itself as its peer is not modelled.

### Fairness

* Client (`CrossedHandshakes`): weak fairness of `Start`, of the retry tick and of
  receiving: the loop of a running process keeps polling its timer and its socket. No one
  is assumed to type a line or to stay.
* System (`ChatOverRelay`): some task or client takes one of the steps that follow from what
  was sent, as long as there is one (`KeepsTurning`). This is less than the runtime gives,
  which polls every ready task. Starting a process, the retry tick, lines, exits and breaking
  connections are not in it: if two clients are both up, their keys are exchanged without the retry.
* Relay: weak fairness of each task's own steps, since the runtime polls every ready task
  and the locks are tokio's fair mutexes; strong fairness of leaving the loop, since
  `select!` picks among ready branches at random, so the close branch is not passed over
  for ever by a client that keeps sending. Nothing is assumed of sockets: a client may
  stop reading at any point, also while it is being rejected.

## Proofs

`ClientSessionProofs` and `LockstepProofs` hold for every set of processes, every assignment
of ids and pins and every `MaxNonce`; `RelayProofs`, `PlaceProofs` and `DeliveryProofs` for
every set of ids and connections, every traffic and every capacity; `WireProofs` for all
texts, keys and codes; `SocketProofs` and `ChatOverRelayProofs` for every system of clients
and relay, with any set of processes of the two clients, any capacity and any budget.

They use the named assumptions of the modules only. The two client ids differ, and
constants have their types; in particular the capacity of a queue is not zero
(`CapacityIsPositive`, `OUTBOX_CAPACITY` in `ws.rs`) and the bound on what the relay reads is
a number (`MaxPostedIsNat`). What a client may send to the relay is an event with parsed ids
(`TrafficIsParsed`: `serde_json` refuses everything else). In `Wire`, what is typed is text
(`ArgsAreTexts`), the key of a client has the length of a public key
(`PublicKeysHaveLength`: `KeyPair::generate`), every key that is compared with a pin has a
digest of bytes (`KeysHaveDigest`: SHA-256 is total), and the codes of a later version are
none of today's (`OtherCodesAreNew`, which is what makes them other codes).

### The client

* `TypeCorrect`: `Spec => []TypeOK`.
* `NonceUniqueness`: `Spec => []NoNonceReuse`. `NoNonceReuse` speaks of two processes at
  once, so it is not inductive. The invariant `NonceInv` adds where keys come from
  (`KeyOrigin`: an accepted key belongs to a process of the other id and is the second
  half of the first link of the master), that an envelope carries the prefix, a spent
  counter and the first link of its author (`SentInSession`), and that an author never
  repeats a counter (`CountersDiffer`). Equal keys then have equal first links, so their
  authors are the same process or the two ends of one session; equal prefixes exclude the
  latter. Rotation is harmless because it only appends to the master, and a duplicate
  `PeerKey` because an established session keeps its counter.
* `SessionIntegrity`: `Spec => SessionNeverRebuilt`, from the types and one case per
  action.
* `PrintedOnce`: `Spec => []AtMostOnce`. `inbound_nonces` is pruned, so it does not tell by
  itself what was printed. `OnceInv` adds to `NonceInv` that message ids name envelopes
  (`IdInv`) and that every printed line came in an envelope whose pair of epoch and nonce is
  still tracked or is older than the epochs `decrypt` accepts (`ShownOnce`).
  `apply_next_master` prunes exactly what the new epoch puts out of reach, which keeps that
  disjunction. That no second process prints the line follows from the first link of the
  master, which names both ends.
* `EndsStayInStep` (`LockstepProofs`): `Spec => []InStep`. `InStep` compares two masters and
  says nothing of the request or the response that will change one of them. `StepInv` adds
  that a master has one link per epoch (`Chained`), that an end whose key its peer has not
  accepted has never rotated (`Unmet`), and, for every envelope ever sent, that it was
  sealed with the master its author held in that epoch, that a request still has its
  handshake pending as long as its author has not rotated, and that the author of a response
  has rotated by exactly the secret the response completes (`Handshakes`). An opened
  envelope was therefore sealed in the reader's own epoch, by the process it is paired with
  (`OpenedByPeer`). An opened request finds both ends equal and the requester waiting, so
  answering it puts the responder one link ahead; an opened response finds the initiator one
  link behind, and the link it computes is the one the responder has. Two crossing requests
  are both refused, which is why neither end can get ahead of an end that is itself ahead.
* `OwnEpochReadable` (`LockstepProofs`): `Spec => []CurrentEpochReadable`, from `StepInv` and
  `Labelled` (an envelope is sealed under its own header and for its own epoch).
* `RatchetImplemented` (`LockstepProofs`): `Spec => ImplementsRatchet`, with `chain` mapped to
  `master_secret`. To `StepInv` it adds `SecretsDrawn`: every secret in a master, in a
  pending handshake or in an envelope was drawn before. A responder's new secret is
  therefore in no chain, which is the condition of the ratchet's step ahead.

### The relay

* `SingleOwnership` (`RelayProofs`): `Spec => []OneOwner`. `OwnerInv` adds that a handle is in
  the map only between the `insert` and the `remove` of its connection. A connection thus
  has left the map before it frees its id in the router, which is why the order of the two
  locks in `unregister_client` is safe against a reconnecting client.
* `RelayTypeCorrect`, `AddresseeOnly` (`RelayProofs`): `Spec => []TypeOK` and
  `Spec => []ReachesAddressee`. An event passes through an outbox filed under an id, a
  task's deliveries, a queue and a socket. `MailInv` says of each of the four that it holds
  only mail for its connection, where the outbox of an id counts as that of the connection
  that owns the id now. It rests on `OwnerInv`: a connection that gives up the id takes the
  outbox with it, and the handle that a flush clones is the owner's.
* `OnePlaceEach` (`PlaceProofs`): `Spec => []OnceInv`. Every routed event is at one position
  of one outbox, of one delivery or of one stream (what was written to a connection and what
  is queued for it), and in only one of the three. `PlaceInv` adds to `OnceInv` and `MailInv`
  that a tag is used by one event and its Ack (`TagInv`), so that what is routed now is
  nowhere yet, and what a task holds at each of its steps (`HandInv`): a task that is about
  to drain has nothing in its hands, and one that gives up a delivery has told its connection
  to close.
* `DeliveryImplemented` (`DeliveryProofs`): `Spec => ImplementsDelivery`. Routing is an
  `Accept`, a write is a `Deliver` or, for an error report, a `Notify`, every other step is a
  `Leave` or changes nothing. A write takes an event out of what is due only because it was
  in that queue and nowhere else, so the step needs `PlaceInv`. An event is lost in three
  steps only, when a task drops a delivery after a failed `try_send`, when a writer ends and
  when an id is disconnected, and in each the connection is on its way out.

### Text

* `NoncePrefixInjective`, `SessionInfoNamesPair` (`WireProofs`): the derived bytes determine
  the ids, and for the prefix their order, for ids of any length, because `ClientId::parse`
  admits no zero byte. This is what the symbolic `NoncePrefix` and `SessionInfo` of
  `CryptoSession` rest on.
* `EventsSurviveTheWire`, `CodesNameProblems`, `BytesMatchIds`: `Spec => []FramesDecode`,
  `Spec => []ReportNamesProblem` and `Spec => []DerivedBytesMatch`. `WireInv` adds that a
  running client has parsed its ids and that the relay's error is the event under way.
* `PinsDecideKeys`: `Spec => []PinHonoured`. `PinInv` adds to `WireInv` how the pin of a
  running client comes from what was typed and what the receiver has read. The hex digits
  that `fingerprint` writes are lower case and have no blanks, so `normalize_fingerprint`
  leaves them alone; and two digests with the same digits are equal.

### The whole system

* `ClientsImplemented`, `RelayImplemented` (`ChatOverRelayProofs`): every step of the system
  is a step or a stutter of each part. `SystemNonceUniqueness`, `SystemSessionIntegrity`,
  `SystemPrintedOnce` and `SystemInStep` follow.
* `SystemEpochOpens` (`ChatOverRelayProofs`): `System => []CurrentEpochOpens`. That an envelope
  of the own epoch decrypts is known of the client (`StepInv`), unless it was opened before;
  so what has to be shown is that no client is handed an envelope twice. This is a fact of
  both sides. On the client's (`SocketProofs`), a process posts each envelope once and only
  its own (`Posted`), and a nonce is marked only when the envelope in a frame that has been
  read opens (`SeenWasRead`). On the relay's (`PlaceProofs`), a frame carries the tag of an
  event that was read, no two frames of a stream have one tag (`OnceInv`, `OneTag`), and what
  was written stays (`WrittenGrows`). `SystemInv` is the conjunction: an unread frame with an
  envelope that was marked would have the tag of a frame that was read. The rest is that an
  envelope for a paired client has one possible author.
* `SystemInOrder` (`ChatOverRelayProofs`): `System => []InOrderBeforeWriting`. The property is
  about streams, but the order can be lost earlier: when an outbox is drained by one task
  while another task still carries what was in it. `OrderInv` therefore speaks of all three
  places. Of a client that is owed no Ack (`Silent`) it says that only tasks of the other
  client carry its mail (`PeerCarries`), that all that is carried for it is in one delivery
  (`OneLoad`), and that what is ahead, in a stream before a delivery before an outbox, was
  sent earlier by its sender (`InOrder`). A task drains its own client's outbox only after an
  envelope of its own was accepted (`FlushInv`), which has ended the client's silence. That
  there are two clients and none writes to itself (`TwoClients`, `NoneToSelf`) leaves the
  task that owns the peer's id as the only one to drain the outbox; it drains with empty
  hands, and it has empty hands when it gives up the id. `OrderedInv` adds what ties this to the sockets: the event in a task's hands
  is the last one it read (`InHand`), and an Ack is for an envelope that was read
  (`AcksForEnvelopes`), so that a client that has only sent keys is owed none.

### Model-checked only

The liveness properties `CloseCompletes`, `RoutedIsQueued`, `HelloAnswered`,
`KeyExchangeCompletes`, `LoneHandshakeCompletes`, `RoutedIsRead` and `CutOffEnds`: fairness and `ENABLED` are out of the prover's
reach. Every safety property and every refinement that a passing run checks is also a
theorem.

## Not modelled

The server builder, `serve`, the binaries, tracing and the remaining options: wiring and
I/O without state. The wording of errors and status lines. The JSON of `SessionPayload`,
with the base64 form of a rekey id in it: plaintext is reduced to its kind and its values.
Sizes of frames appear only as the socket error they lead to; a line that is too long for
the relay costs the sender its connection, which the model has as `ConnectionBreaks`.
The `u32` counters (`epoch`, `outbound_since_rekey`) are natural numbers: their overflow is
2^32 steps away. A WebSocket connection delivers in order or breaks; that is taken from
TCP. The hazards that no property covers are listed with the reason in `PROJECT.json`.
