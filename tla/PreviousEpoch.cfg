SPECIFICATION Spec
CONSTANTS
    Alice = Alice
    Bob = Bob
    a1 = a1
    a2 = a2
    b1 = b1
    Processes = {a1, b1}
    LocalId <- MCLocalId
    PinnedKey <- NoPin
    AutoRekeyAfter <- NoAutoRekey
    MaxNonce = 3
    Replays = FALSE
INVARIANT PreviousEpochReadable
CHECK_DEADLOCK FALSE
