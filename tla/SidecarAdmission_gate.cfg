\* A current call and a page that come once, base calls of two attempts of which one
\* keeps coming, and a stop; calls and pages may hang.
SPECIFICATION FairSpec
CONSTANTS
    c1 = c1
    c2 = c2
    b1 = b1
    b2 = b2
    b3 = b3
    a1 = a1
    a2 = a2
    Free = Free
    Current = {c1}
    Base = {b1, b3}
    Pages = {"page"}
    Attempts = {a1, a2}
    AttemptOf <- Attempt
    Limit = 1
    Stoppers = {"shutdown"}
    Repeats = {b1}
INVARIANTS
    CountersExact
    NoLostWakeup
PROPERTIES
    AdmissionSpec
    CallsEnd
\* Threads come once, so the system stops when they are done.
CHECK_DEADLOCK FALSE
