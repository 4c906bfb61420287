\* Two callers and two slots, two source roots, a context in one of them, a cancel at any
\* moment, and kills that may fail.
SPECIFICATION Spec
CONSTANTS
    t1 = t1
    t2 = t2
    c1 = c1
    c2 = c2
    p1 = p1
    p2 = p2
    p3 = p3
    p4 = p4
    rA = rA
    rB = rB
    NoContext = NoContext
    NoWorker = NoWorker
    NoPid = NoPid
    NoSlot = NoSlot
    NoCall = NoCall
    Free = Free
    Closed = Closed
    ReleaseThread = ReleaseThread
    Callers = {t1, t2}
    Contexts = {c1}
    Roots = {rA, rB}
    ContextRoot <- FirstRoot
    Limit = 2
    Pids = {p1, p2, p3, p4}
    Stoppers = {"cancel"}
    KillMayFail = TRUE
SYMMETRY Symmetry
INVARIANTS
    
    RootIsolation
    OneWorkerPerContext
    NoLostWakeup
PROPERTIES
    LeasesSpec
