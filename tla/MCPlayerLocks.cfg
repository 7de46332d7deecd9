SPECIFICATION Spec
CONSTANTS
    c1 = c1
    c2 = c2
    s1 = s1
    s2 = s2
    Clients = {c1, c2}
    Player = Player
    Sessions = {s1, s2}
    None = None
    MaxEvents = 1
INVARIANTS ControllersAreLive NoCircularWait
SYMMETRY Symmetric
