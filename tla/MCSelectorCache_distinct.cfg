CONSTANTS
    g1 = g1
    g2 = g2
    e1 = e1
    m1 = m1
    d1 = d1
    d2 = d2
    h1 = h1
    h2 = h2
    Goroutines = {g1, g2}
    Hashers = {h1, h2}
    Chunks = 4
    Work <- DistinctWork
SPECIFICATION Spec
INVARIANTS TypeOK IDCorrect
