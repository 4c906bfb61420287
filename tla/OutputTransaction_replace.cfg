\* Two builds of one output, other programs, a failing file operation, a crash.
SPECIFICATION Spec
CONSTANTS
    w1 = w1
    w2 = w2
    f1 = f1
    f2 = f2
    o1 = o1
    o2 = o2
    None = None
    Unseen = Unseen
    Writers = {w1, w2}
    Foreign = {f1, f2}
    Outputs = {o1}
    Target <- SameTarget
    MaxForeign = 2
    MaxFaults = 1
    MaxCrashes = 1
SYMMETRY Alike
INVARIANTS
    OutcomesTrue
    ForcedExitsSettled
PROPERTIES
    SitesSpec
CHECK_DEADLOCK FALSE
