SPECIFICATION Spec
CONSTANTS
    Kinds = {"digital"}
    MaxEvents = 2
    MaxDisturbances = 0
INVARIANT StopIsFinal
