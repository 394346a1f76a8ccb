CONSTANTS
    LoopThread = loop
    Callers = {t1, t2}
    Functors = {f1, f2}
    Channels = {c1}
    wakeupChannel_ = wakeup
    MaxPending = 3
    MaxDepth = 2
SPECIFICATION FairSpec
INVARIANTS TypeOK NoStrandedFunctor NoStrandedQuit
PROPERTIES FunctorQueueSpec QueuedFunctorRuns QuitEndsLoop IoNotStarved
