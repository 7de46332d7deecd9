SPECIFICATION Spec
CONSTANTS
    s1 = s1
    s2 = s2
    Sessions = {s1, s2}
    StopsAnytime = TRUE
PROPERTY StopIsFinal
