\* Arrivals, preflight outcomes, removals and listeners in every interleaving.
CONSTANTS
    c1 = c1
    c2 = c2
    l1 = l1
    l2 = l2
    Reactor = Reactor
    NoOwner = NoOwner
    Clients <- MCClients
    Locations <- MCLocations
    MaxDevices = 2
SYMMETRY MCSymmetry
SPECIFICATION Spec
CHECK_DEADLOCK FALSE
INVARIANT TypeOK
INVARIANT ListenerSeesVisible
INVARIANT CbDataLive
