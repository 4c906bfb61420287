\* Two callers of two keys, of which the cache has room for both only while they are
\* small; a process may exit and the machine lose its power once.
SPECIFICATION FairSpec
CONSTANTS
    p1 = p1
    p2 = p2
    k1 = k1
    k2 = k2
    n1 = n1
    n2 = n2
    n3 = n3
    None = None
    Callers = {p1, p2}
    Keys = {k1, k2}
    Privates = {n1, n2}
    Kinds = {"sources", "dependencies"}
    Size <- UnitSize
    Capacity = 2
    MaxUsed = 2
    HalfRemovals = FALSE
    MaxCalls = 2
    MaxCrashes = 1
INVARIANTS
    
    WithinCapacity
PROPERTIES
    
    BuildsEnd
CHECK_DEADLOCK FALSE
