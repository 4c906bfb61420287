\* Two edits of one page and one of another that share a ticket, a delivery that keeps
\* coming, two workers and a stop.
SPECIFICATION Spec
CONSTANTS
    d1 = d1
    d2 = d2
    d3 = d3
    b1 = b1
    b2 = b2
    j1 = j1
    j2 = j2
    j3 = j3
    p1 = p1
    p2 = p2
    Free = Free
    Stop = Stop
    Deliveries = {d1}
    Backgrounds = {}
    Previews = {j1, j2, j3}
    Pages = {p1, p2}
    PageOf <- TwoPages
    Parallelism = 2
    Tickets = 1
    Repeats = {d1}
INVARIANTS
    OnePreviewPerPage

    
