CONSTANTS
    Bytes = {x, y}
    Zero = x
    kCheapPrepend = 1
    kInitialSize = 3
    ExtraSize = 2
    MaxSize = 7
    MaxLen = 4
SPECIFICATION Spec
INVARIANTS TypeOK EmptyIsReset
PROPERTIES ByteQueueSpec GrowsOnlyWhenFull
