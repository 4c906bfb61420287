\* Two heads of a route, one move of the refs and a stop.
SPECIFICATION FairSpec
CONSTANTS
    r1 = r1
    r2 = r2
    one = one
    two = two
    Broken = Broken
    NoChanges = NoChanges
    Free = Free
    Routes = {r1}
    Refs = {one, two}
    FirstRefs = {one}
    RefsReturn = FALSE
    Watching = TRUE
    MaxHeads = 2
    MaxMoves = 1
    MaxChanges = 1
INVARIANTS
    ShownWithItsHead
PROPERTIES
    RegisterSpec
    CancelledStaysOut
    FencedWhenClosed
    
CHECK_DEADLOCK FALSE
