SPECIFICATION AudioSpec
CONSTANTS
    s1 = s1
    s2 = s2
    Sessions = {s1, s2}
    StopsAnytime = FALSE
    h1 = h1
    h2 = h2
    NoHandle = NoHandle
    Handles = {h1, h2}
    Films = {h2}
    Sounds = {"on", "off"}
    MaxChanges = 1
INVARIANTS AudioTypeOK InFocusAudioIsSilent ConnectedIsShown OutputFollowsTheUser
PROPERTIES AlertPasses
CHECK_DEADLOCK FALSE
