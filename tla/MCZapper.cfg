SPECIFICATION Spec
CONSTANTS
    Kinds = {"analog", "sdv"}
    MaxEvents = 2
    MaxDisturbances = 1
INVARIANTS TypeOK TunerIsOurs NoTunerIsLost
PROPERTIES NobodyIsKeptWaiting
