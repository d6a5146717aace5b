SPECIFICATION Spec
CONSTANTS
    Alice = Alice
    Bob = Bob
    a1 = a1
    a2 = a2
    b1 = b1
    Processes = {a1, a2, b1}
    LocalId <- MCLocalId
    PinnedKey <- NoPin
    AutoRekeyAfter <- NoAutoRekey
    MaxNonce = 2
    Replays = TRUE
INVARIANTS NoNonceReuse AtMostOnce InStep
PROPERTIES SessionNeverRebuilt ImplementsRatchet
CHECK_DEADLOCK FALSE
