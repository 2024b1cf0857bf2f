\* One port whose device always configures: a monitored device that reconnects.
CONSTANTS
    l1 = l1
    l2 = l2
    c1 = c1
    NoEvent = NoEvent
    Locations <- MCLocations1
    Callers <- MCCallers
    AddOutcomes = {"ok"}
    MaxEvents = 5
SPECIFICATION Spec
PROPERTY MonitoredDeviceComesUp
\* When the environment stops, the reactor waits in select.
CHECK_DEADLOCK FALSE
