SPECIFICATION Spec
CONSTANTS
    hello = hello
    writer1 = writer1
    writer2 = writer2
    second2 = second2
    reader2 = reader2
    Participant <- MCParticipant
    Endpoint <- MCEndpoint
    Reader <- MCReader
    Owner <- MCOwner
    Topic <- MCTopic
    Millisecond = 2
    Second = 4
    Configurations = {}
    Shots <- MCShots
    Clocks <- MCClocks
    MaxProcesses = 2
CHECK_DEADLOCK FALSE
INVARIANT LivelinessIsRetrieved
