\* Small, inexact and large classes in a pool that holds a few blocks.
SPECIFICATION Spec
CONSTANTS
    PoolSize = 28
    Base = 1
    SLLog2 = 1
    FLMax = 6
    Requests = {0, 1, 5, 10}
    Alignments = {2, 4}
\* A caller may hold all there is and be granted nothing.
CHECK_DEADLOCK FALSE
INVARIANTS TypeOK Checked FoundFits
PROPERTY IsHeap
