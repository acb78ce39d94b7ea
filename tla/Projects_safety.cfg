CONSTANTS
    blog = blog
    other = other
    t1 = t1
    t2 = t2
    None = None
    Projects <- OneProject
    Names <- TwoNames
    Threads <- TwoThreads
    Ops <- AllOps
    Faults <- AllFaults
    MaxFaults = 1
SPECIFICATION Spec
INVARIANTS TypeOK LocksExact CheckedRowStays
PROPERTIES CloneResetsNothing FilesSteadyDuringStart OneOperationPerProject
