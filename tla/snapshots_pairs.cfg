SPECIFICATION SnapshotsSpec
CONSTANTS
    writer2 = writer2
    writer4 = writer4
    Participant <- MCParticipant
    Reporter <- MCReporter
    Server <- MCServer
    Endpoint <- MCEndpoint
    Reader = {}
    Owner <- MCOwner
    MaxSnapshots = 1
INVARIANT SuccessComparesAll
