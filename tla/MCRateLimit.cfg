CONSTANTS
    w1 = w1
    w2 = w2
    ann = ann
    bob = bob
    Workers <- MCWorkers
    Users <- MCUsers
    Backends <- MCBackends
    MaxRequests = 1
    TimeWindow = 1
    MaxArrivals = 4
    MaxTime = 2
SPECIFICATION Spec
SYMMETRY Symmetry
INVARIANTS
    TypeOK
    NeverOvercounts
    RowsBounded
    ExactAlone
