SPECIFICATION FairSpec
CONSTANTS
    Alice = Alice
    Bob = Bob
    a1 = a1
    a2 = a2
    b1 = b1
    ClientIds = {Alice, Bob}
    Connections = {a1, a2, b1}
    HelloId <- MCHelloId
    Denied <- SecondDenied
    Traffic <- OddEvents
    OutboxCapacity = 1
    MaxReceived = 1
INVARIANT TypeOK
PROPERTIES CloseCompletes RoutedIsQueued HelloAnswered
CHECK_DEADLOCK FALSE
