CONSTANTS
    c1 = c1  c2 = c2  io1 = io1  io2 = io2
    Clients = {c1, c2}
    Talkers = {c1}
    Kept = {c1}
    Base = base
    IoThreads <- MCIoThreads
    ThreadNums = {0, 1, 2}
    Limits = {1, 2}
    Acceptor = acceptor
    None = None
SPECIFICATION FairSpec
CHECK_DEADLOCK FALSE
INVARIANTS TypeOK NoDanglingThis DestroyedOnce Balanced
PROPERTIES LifeSpec GoneIsFreed HeadIsAccepted EndFreesAll
