SPECIFICATION QueueSpec
CONSTANTS
    c1 = c1
    c2 = c2
    thread = thread
    play = play
    exit = exit
    Callers <- MCCallers
    Consumer = thread
    Events <- MCEvents
    WaitTimes <- MCWaitTimes
    kTimeOut = kTimeOut
    None = None
    MaxPending = 2
    Versions = 3
    kAppMaxSectFiltReadAttempts = 2
    MaxStarts = 2
    MaxAired = 3
INVARIANTS TypeOK TablesAreFollowed 
PROPERTIES ImplementsFifo PopsReturn PsiIsAnswered
CHECK_DEADLOCK FALSE
