SPECIFICATION FairSpec
CONSTANTS
    Alice = Alice
    Bob = Bob
    a1 = a1
    a2 = a2
    b1 = b1
    Processes = {a1, b1}
    LocalId <- MCLocalId
    PinnedKey <- NoPin
    AutoRekeyAfter <- NoAutoRekey
    MaxNonce = 2
    Replays = FALSE
PROPERTY HandshakeEnds
CHECK_DEADLOCK FALSE
