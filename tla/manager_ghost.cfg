SPECIFICATION Spec
CONSTANTS
    reader = reader
    writer1 = writer1
    writer3 = writer3
    Participant <- MCParticipant
    Server <- MCServer
    Client <- MCClient
    Simple = {}
    Endpoint <- MCReader
    Reader = {}
    Owner <- MCOwner
INVARIANT RemovedHaveNoDatabase
