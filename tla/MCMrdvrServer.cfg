SPECIFICATION Spec
CONSTANTS
    Clients <- MCClients
    Asks <- MCAsks
    NumTsbs = 1
    NumTuners = 1
    MaxSessions = 2
    getMaxClient = 3
    MaxRequests = 3
    MaxEvents = 1
    MaxDisturbances = 1
CHECK_DEADLOCK FALSE
INVARIANTS TypeOK SessionsAreOwned
PROPERTIES SessionsAreCutForAReason ClientsAreAnswered
