CONSTANTS
    c1 = c1
    c2 = c2
    l1 = l1
    l2 = l2
    Reactor = Reactor
    NoOwner = NoOwner
    Clients = {c1}
    Locations = {l1}
    MaxDevices = 1
SPECIFICATION Spec
CHECK_DEADLOCK FALSE
PROPERTY ReactorProgress
