CONSTANTS
    c1 = c1  c2 = c2  c3 = c3  f1 = f1  f2 = f2
    Channels = {c1, c2, c3}
    Fds = {f1, f2}
    FdOf <- MCFdOf
    None = None
    kInitEventListSize = 1
SPECIFICATION FairSpec
INVARIANTS TypeOK MapFollowsIndex KernelFollowsChannels NeverFatal
PROPERTY ReportableIsReported
