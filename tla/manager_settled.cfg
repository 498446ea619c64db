SPECIFICATION Spec
CONSTANTS
    reader = reader
    writer1 = writer1
    writer3 = writer3
    Participant <- MCThreeParticipants
    Server = {}
    Client <- MCMiddle
    Simple = {}
    Endpoint <- MCThreeEndpoints
    Reader <- MCReader
    Owner <- MCThreeOwners
INVARIANT
    SettledDatabasesMatch
    TypeOK
PROPERTIES
    ImplementsReports
