\* Packets shorter and longer than a Read, and headers that declare too little
\* to hold themselves.  The reader waits when all has been read.
CONSTANTS
    BodySizes = {1, 2, 6}
    BadSizes = {0, 4}
    ReadSize = 6
    MaxPackets = 3
SPECIFICATION FramingFairSpec
INVARIANT InvokedInOrder
PROPERTY EveryPacketInvoked
CHECK_DEADLOCK FALSE
