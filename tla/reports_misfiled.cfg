SPECIFICATION AnyOrderSpec
CONSTANTS
    writer1 = writer1
    reader2 = reader2
    writer3 = writer3
    reader3 = reader3
    Participant <- MCParticipant
    Reporter <- MCReporter
    Endpoint <- MCEndpoint
    Reader <- MCReader
    Owner <- MCOwner
INVARIANT FiledUnderOwner
