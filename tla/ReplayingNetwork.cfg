SPECIFICATION Spec
CONSTANTS
    Alice = Alice
    Bob = Bob
    a1 = a1
    a2 = a2
    b1 = b1
    Processes = {a1, b1}
    LocalId <- MCLocalId
    PinnedKey <- NoPin
    AutoRekeyAfter <- AliceRotates
    MaxNonce = 3
    Replays = TRUE
INVARIANTS TypeOK NoNonceReuse AtMostOnce InStep CurrentEpochReadable
PROPERTIES SessionNeverRebuilt ImplementsRatchet
CHECK_DEADLOCK FALSE
