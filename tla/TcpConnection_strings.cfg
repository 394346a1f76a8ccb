CONSTANTS
    empty = empty  short = short  long = long  t1 = t1  t2 = t2  garbage = garbage
    Threads = {t1}
    ThreadOps = {"send"}
    Messages = {short, long}
    Size <- MCSize
    Garbage = garbage
    StringsKept = FALSE
    ServerMayStop = FALSE
    HighWaterMark = 2
    SendBuffer = 1
SPECIFICATION Spec
CHECK_DEADLOCK FALSE
INVARIANT StreamInOrder
