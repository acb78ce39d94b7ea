CONSTANTS
    blog = blog
    other = other
    t1 = t1
    t2 = t2
    None = None
    Projects <- OneProject
    Names <- OneName
    Threads <- TwoThreads
    Ops <- AllOps
    Faults <- NoFaults
    MaxFaults = 0
SPECIFICATION Spec
PROPERTY WritesNeverResurrect
