\* Two ports, one waiting caller, every configure outcome.
CONSTANTS
    l1 = l1
    l2 = l2
    c1 = c1
    NoEvent = NoEvent
    Locations <- MCLocations2
    Callers <- MCCallers
    AddOutcomes = {"ok", "config_fail", "start_fail"}
    MaxEvents = 5
SPECIFICATION Spec
INVARIANT TypeOK
INVARIANT NoDanglingMuxDevice
PROPERTY AlwaysMonitorSticky
\* When the environment stops, the reactor waits in select.
CHECK_DEADLOCK FALSE
SYMMETRY MCSymmetry
