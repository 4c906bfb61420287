\* A delivery and an edit that come once, two background renders that keep coming, one
\* worker and a stop.
SPECIFICATION FairSpec
CONSTANTS
    d1 = d1
    d2 = d2
    d3 = d3
    b1 = b1
    b2 = b2
    j1 = j1
    j2 = j2
    j3 = j3
    p1 = p1
    p2 = p2
    Free = Free
    Stop = Stop
    Deliveries = {d1}
    Backgrounds = {b1, b2}
    Previews = {j1}
    Pages = {p1}
    PageOf <- OnePage
    Parallelism = 1
    Tickets = 1
    Repeats = {b1, b2}
INVARIANTS
    OvertakenAtMostOnce
    ForegroundDrained
PROPERTIES
    CallsReturn
