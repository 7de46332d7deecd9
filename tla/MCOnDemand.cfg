SPECIFICATION MovieSpec
CONSTANTS
    messageRetryCount = 1
    maxForwardCount = 1
    MaxSessions = 2
    Budget = 3
    StreamFailLimit = 1
    Speeds <- MCSpeeds
    TextLengths = {45, 46}
    MaxResources = 2
    MaxConfirms = 2
    Kinds = {"digital"}
    hnForwardCount = 1
    HnPmts <- MCPmts
    HnBudget = 2
    CloudSpeeds <- MCCloudSpeeds
    CloudPositions = {5}
    CloudBudget = 3
CHECK_DEADLOCK FALSE
INVARIANTS TypeOK    MessagesAreRight
PROPERTIES EndsAreTold StreamIsNotRestarted MovieIsAnswered
