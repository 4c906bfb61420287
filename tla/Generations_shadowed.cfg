\* Two graphs and one slot; a newer graph may end before an older one, and between the
\* attempts of a describe call.
SPECIFICATION Spec
CONSTANTS
    g1 = g1
    g2 = g2
    g3 = g3
    s1 = s1
    s2 = s2
    js1 = js1
    js2 = js2
    d1 = d1
    d2 = d2
    m1 = m1
    m2 = m2
    NoMaps = NoMaps
    NoBundle = NoBundle
    NoLease = NoLease
    NoJob = NoJob
    Describer = Describer
    Graphs = {g1, g2}
    Slots = {s1}
    Codes = {js1}
    Listings = {d1, d2}
    Css = {m1, m2}
    MaxEpoch = 4
    OldestFirst = FALSE
    BetweenAttempts = TRUE
SYMMETRY Symmetry
INVARIANTS
    RendersOwnMaps
