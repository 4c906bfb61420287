\* Progress and stops with one slot, two source roots, a shutdown at any moment and kills that
\* may fail; no symmetry, which is unsound for liveness.
SPECIFICATION FairSpec
CONSTANTS
    t1 = t1
    t2 = t2
    c1 = c1
    c2 = c2
    p1 = p1
    p2 = p2
    p3 = p3
    p4 = p4
    rA = rA
    rB = rB
    NoContext = NoContext
    NoWorker = NoWorker
    NoPid = NoPid
    NoSlot = NoSlot
    NoCall = NoCall
    Free = Free
    Closed = Closed
    ReleaseThread = ReleaseThread
    Callers = {t1, t2}
    Contexts = {c1}
    Roots = {rA, rB}
    ContextRoot <- FirstRoot
    Limit = 1
    Pids = {p1, p2}
    Stoppers = {"shutdown"}
    KillMayFail = TRUE

    
PROPERTIES
    RequestsReturn
    ReleasesTakeEffect
    
