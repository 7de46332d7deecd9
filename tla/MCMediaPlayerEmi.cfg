SPECIFICATION Spec
CONSTANTS
    s1 = s1
    s2 = s2
    rf = rf
    avfs = avfs
    mrdvr = mrdvr
    audio = audio
    junk = junk
    None = None
    Sessions = {s1, s2}
    Urls = {rf, avfs}
    ControllerType <- MCControllerType
    Files = {avfs}
    CABytes = {2, 3}
    MaxEvents = 1
PROPERTY MostRestrictiveIsApplied
CONSTRAINT OneOfAKind
CHECK_DEADLOCK FALSE
