------------------------- MODULE MCDeviceLifecycle -------------------------
(* Model-checking instance of DeviceLifecycle: listener clients, USB       *)
(* locations and the thread/lock owners as model values.                   *)
EXTENDS DeviceLifecycle, TLC

CONSTANTS c1, c2, l1, l2

MCClients == {c1, c2}
MCLocations == {l1, l2}

\* clients are interchangeable, and so are locations
MCSymmetry == Permutations(MCClients) \cup Permutations(MCLocations)

=============================================================================
