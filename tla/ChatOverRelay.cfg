SPECIFICATION JoinOrChat
CONSTANTS
    Alice = Alice
    Bob = Bob
    a1 = a1
    a2 = a2
    b1 = b1
    Processes = {a1, a2, b1}
    LocalId <- MCLocalId
    PinnedKey <- BobPinsA2
    AutoRekeyAfter <- NoAutoRekey
    MaxNonce = 3
    Replays = TRUE
    OutboxCapacity = 2
    Budget <- Joining
    MayEnd <- Everybody
    MayRekey <- SecondAlice
    MaxPosted = 6
INVARIANTS CurrentEpochOpens InOrderBeforeWriting
PROPERTIES KeyExchangeCompletes LoneHandshakeCompletes RoutedIsRead CutOffEnds
CHECK_DEADLOCK FALSE
