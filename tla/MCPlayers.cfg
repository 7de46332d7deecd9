SPECIFICATION PlayersSpec
CONSTANTS
    s1 = s1
    s2 = s2
    rf = rf
    avfs = avfs
    mrdvr = mrdvr
    audio = audio
    junk = junk
    None = None
    Sessions = {s1, s2}
    Urls = {rf, mrdvr, audio, junk}
    ControllerType <- MCControllerType
    Files = {mrdvr}
    CABytes = {1}
    MaxEvents = 2
    MaxIpCalls = 5
    MaxIpEvents = 1
INVARIANTS TypeOK EasAudioFlagsAgree LastCCIWins  SoundFollowsTheAlert ClientIsServed
PROPERTY ChangeKeepsTheBoxRestricted
CONSTRAINT OneOfAKind
SYMMETRY Symmetric
CHECK_DEADLOCK FALSE
