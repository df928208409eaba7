\* Capacities 0 to 4 and lengths up to one more than the largest: every push
\* and pop that fits exactly, that is one too long and that is zero.
CONSTANTS
    Byte = {0, 1}
    AllocSizes = {0, 1, 4}
    Lens = {0, 1, 2, 5}
    Hdr = 2
    U32 = 8
SPECIFICATION Spec
INVARIANT PointersInData
PROPERTY ImplementsStack
