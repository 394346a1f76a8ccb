CONSTANTS
    empty = empty  short = short  long = long  t1 = t1  t2 = t2  garbage = garbage
    Threads = {t1, t2}
    ThreadOps = {"send"}
    Messages = {empty, short, long}
    Size <- MCSize
    Garbage = garbage
    StringsKept = TRUE
    ServerMayStop = TRUE
    HighWaterMark = 2
    SendBuffer = 1
SPECIFICATION Spec
CHECK_DEADLOCK FALSE
INVARIANTS TypeOK CallbacksOnce FinIsLast StaysOutOfPoller
PROPERTY StreamSpec
