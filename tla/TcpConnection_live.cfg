CONSTANTS
    empty = empty  short = short  long = long  t1 = t1  t2 = t2  garbage = garbage
    Threads = {t1}
    ThreadOps = {"send", "shutdown"}
    Messages = {short, long}
    Size <- MCSize
    Garbage = garbage
    StringsKept = TRUE
    ServerMayStop = TRUE
    HighWaterMark = 2
    SendBuffer = 1
SPECIFICATION FairSpec
CHECK_DEADLOCK FALSE
INVARIANTS StreamInOrder WriteInterest HighWaterOnce
PROPERTIES AllDelivered ShutdownEnds PeerGoneIsNoticed
