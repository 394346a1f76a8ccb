CONSTANTS
    LoopThread = loop
    Callers = {main}
    Owner = main
    Functors = {f1}
    Channels = {c1}
    wakeupChannel_ = wakeup
    MaxPending = 2
    MaxDepth = 1
    UserQuits = FALSE
CHECK_DEADLOCK FALSE
SPECIFICATION FairThreadSpec
PROPERTY QuitEndsThread
