--------------------------- MODULE PendingCommands ---------------------------
(***************************************************************************)
(* The USB device table of src/usb-mce.cpp and the queue of pending       *)
(* device commands that feeds it.  Other threads append ADD, REMOVE and    *)
(* SET_MONITOR commands under g_pending_devices_lock: the port-change      *)
(* callback of the port plugin, the host API and the preflight threads    *)
(* (usb_add_device, usb_remove_device, usb_set_device_monitoring), and    *)
(* the reactor itself when a read fails (usb_handle_port_failure).  The    *)
(* reactor's usb_process takes the lock, counts the queue, and handles    *)
(* that many commands before it lets go of it.                            *)
(*                                                                         *)
(* A usb_device is abstracted to its id, monitor setting, state, whether  *)
(* its port is open (IS_VALID_DEVICE) and whether its read thread runs;   *)
(* the device layer (device.cpp) to the set of ids it holds a mux_device  *)
(* for.  A completion event is named by its caller and the caller's       *)
(* request number.                                                        *)
(***************************************************************************)
EXTENDS Integers, Sequences, FiniteSets

CONSTANTS
    Locations,      \* USB port locations
    Callers,        \* threads that call usb_set_device_monitoring and wait
    AddOutcomes,    \* what configuring and starting an opened port may do
    MaxEvents,      \* bound: plugs, unplugs and requests of the environment
    NoEvent

\* enum device_monitor_state, enum usb_device_state, PENDING_DEVICE_COMMAND_SOURCE
ONCE == "ONCE"
ALWAYS == "ALWAYS"
DISABLE == "DISABLE"
MonitorStates == {ONCE, ALWAYS, DISABLE}
ALIVE == "ALIVE"
WAITING == "WAITING"
MANUAL == "MANUAL"
MONITOR == "MONITOR"
NoDev == [id |-> 0]

ASSUME AddOutcomes \subseteq {"ok", "config_fail", "start_fail"}

VARIABLES
    plugged,      \* a device is attached at the location
    usbdev,       \* g_device_list, by location
    next_id,      \* g_next_usb_device_id
    layer,        \* ids of the usb_devices the device layer has a mux_device for
    rxfail,       \* ids whose failed read waits for the reactor
    queue,        \* g_pending_devices
    drain,        \* commands usb_process still has to handle (it holds the lock)
    portEvents,   \* notifications the plugin has yet to deliver to the callback
    cookie,       \* g_port_notification_callback_cookie /= NULL
    waiter,       \* callers of usb_set_device_monitoring
    budget        \* environment events so far

vars == <<plugged, usbdev, next_id, layer, rxfail, queue, drain, portEvents,
          cookie, waiter, budget>>

Ids == 1 .. Cardinality(Locations) * MaxEvents + 1
Present(l) == usbdev[l] /= NoDev
Cmd(t, s, l, m, e) == [type |-> t, src |-> s, loc |-> l, mon |-> m, ev |-> e]

-----------------------------------------------------------------------------
(* Helpers of usb_process                                                  *)

\* usb_update_monitored_devices: the callback is registered iff some device
\* is monitored
Monitored(dev) == \E l \in Locations : dev[l] /= NoDev /\ dev[l].monitor /= DISABLE

\* usb_disconnect: stop the threads, close the port; free the device unless
\* it is kept to be monitored
Disconnect(d, manual_remove) ==
    IF manual_remove \/ d.monitor = DISABLE THEN NoDev
    ELSE [d EXCEPT !.port = FALSE, !.reading = FALSE, !.state = WAITING]

\* the result of a handler: the location's entry, the device layer, the next
\* id, and the return value
Res(d, ly, nid, ret) == [dev |-> d, layer |-> ly, next_id |-> nid, ret |-> ret]

\* lblCleanup of usb_add_pending_device
Cleanup(existing, d, was_added) ==
    LET keep == existing /\ d.monitor = ALWAYS
        ly   == IF was_added THEN layer \ {d.id} ELSE layer
    IN IF keep THEN Res(Disconnect(d, FALSE), ly, next_id, 0)
       ELSE Res(NoDev, ly, next_id, -1)

\* usb_add_pending_device, for the port at l; o is what configuring and
\* starting it does
usb_add_pending_device(src, l, mon, o) ==
    LET d        == usbdev[l]
        existing == Present(l)
        opened   == plugged[l]
        fresh    == [id |-> next_id, monitor |-> mon, state |-> ALIVE,
                     port |-> FALSE, reading |-> FALSE]
        nid      == IF existing THEN next_id ELSE next_id + 1
        kept     == [d EXCEPT !.monitor = IF @ = ONCE THEN DISABLE ELSE @]
        b        == [(IF existing THEN kept ELSE fresh) EXCEPT !.port = TRUE]
    IN CASE existing /\ d.port -> Res(d, layer, next_id, -1)
         [] ~existing /\ src = MONITOR -> Res(NoDev, layer, next_id, 0)
         [] ~opened /\ mon = ALWAYS ->
                Res([(IF existing THEN kept ELSE fresh) EXCEPT !.state = WAITING], layer, nid, 0)
         [] ~opened -> [Cleanup(existing, d, FALSE) EXCEPT !.next_id = nid]
         [] o = "ok" ->
                Res([b EXCEPT !.state = ALIVE, !.reading = TRUE], layer \cup {b.id}, nid, 0)
         [] o = "config_fail" /\ existing /\ b.monitor = ALWAYS -> Res(b, layer, nid, 0)
         [] o = "config_fail" -> [Cleanup(existing, b, FALSE) EXCEPT !.next_id = nid]
         [] o = "start_fail" -> [Cleanup(existing, b, TRUE) EXCEPT !.next_id = nid]

usb_remove_pending_device_keep(src, l) ==
    IF ~Present(l) THEN Res(NoDev, layer, next_id, IF src = MONITOR THEN 0 ELSE -1)
    ELSE Res(Disconnect(usbdev[l], src = MANUAL), layer, next_id, 0)

\* usb_remove_pending_device
usb_remove_pending_device(src, l) ==
    IF ~Present(l) THEN Res(NoDev, layer, next_id, IF src = MONITOR THEN 0 ELSE -1)
    ELSE Res(Disconnect(usbdev[l], src = MANUAL), layer \ {usbdev[l].id}, next_id, 0)

usb_handle_device_monitor_command_once(l, mon, o) ==
    LET d == usbdev[l] IN
    CASE Present(l) /\ mon = DISABLE /\ d.state = WAITING -> Res(NoDev, layer, next_id, 0)
      [] Present(l) -> Res([d EXCEPT !.monitor = mon], layer, next_id, 0)
      [] mon = ALWAYS -> [usb_add_pending_device(MANUAL, l, ALWAYS, o) EXCEPT !.ret = 0]
      [] OTHER -> Res(NoDev, layer, next_id, -1)

\* usb_handle_device_monitor_command (its inner "int ret" shadows the outer)
usb_handle_device_monitor_command(l, mon, o) ==
    LET d == usbdev[l] IN
    CASE Present(l) /\ d.monitor = ALWAYS /\ mon = ONCE -> Res(d, layer, next_id, 0)
      [] Present(l) /\ mon = DISABLE /\ d.state = WAITING -> Res(NoDev, layer, next_id, 0)
      [] Present(l) -> Res([d EXCEPT !.monitor = mon], layer, next_id, 0)
      [] mon = ALWAYS -> [usb_add_pending_device(MANUAL, l, ALWAYS, o) EXCEPT !.ret = 0]
      [] OTHER -> Res(NoDev, layer, next_id, -1)

Handle(c, o) ==
    CASE c.type = "ADD" -> usb_add_pending_device(c.src, c.loc, c.mon, o)
      [] c.type = "REMOVE" -> usb_remove_pending_device(c.src, c.loc)
      [] c.type = "SET_MONITOR" -> usb_handle_device_monitor_command(c.loc, c.mon, o)

Closed_keep(ly) == rxfail

\* device_remove closes the device's event socket: a failed read of a removed
\* device is never seen by the reactor
Closed(ly) == rxfail \cap ly

\* one command of usb_process, then usb_update_monitored_devices; a
\* SET_MONITOR that succeeds signals its caller's completion event
Apply(c, o) ==
    LET r   == Handle(c, o)
        dev == [usbdev EXCEPT ![c.loc] = r.dev]
        ev  == c.ev
        signal == c.type = "SET_MONITOR" /\ r.ret = 0 /\ ev /= NoEvent
        live == signal /\ waiter[ev.c] = [pc |-> "waiting", gen |-> ev.gen]
    IN /\ usbdev' = dev
       /\ layer' = r.layer
       /\ rxfail' = Closed(r.layer)
       /\ next_id' = r.next_id
       /\ cookie' = Monitored(dev)
       /\ waiter' = IF live THEN [waiter EXCEPT ![ev.c].pc = "signalled"] ELSE waiter

-----------------------------------------------------------------------------

Init ==
    /\ plugged = [l \in Locations |-> FALSE]
    /\ usbdev = [l \in Locations |-> NoDev]
    /\ next_id = 1
    /\ layer = {} /\ rxfail = {}
    /\ queue = <<>> /\ drain = 0 /\ portEvents = <<>>
    /\ cookie = FALSE
    /\ waiter = [c \in Callers |-> [pc |-> "idle", gen |-> 0]]
    /\ budget = 0

Env == budget < MaxEvents /\ budget' = budget + 1

\* a device is attached or detached; the plugin reports it to a registered
\* callback, and a running read fails
plug(l) ==
    /\ Env /\ ~plugged[l]
    /\ plugged' = [plugged EXCEPT ![l] = TRUE]
    /\ portEvents' = IF cookie THEN Append(portEvents, Cmd("ADD", MONITOR, l, DISABLE, NoEvent))
                     ELSE portEvents
    /\ UNCHANGED <<usbdev, next_id, layer, rxfail, queue, drain, cookie, waiter>>

unplug(l) ==
    /\ Env /\ plugged[l]
    /\ plugged' = [plugged EXCEPT ![l] = FALSE]
    /\ portEvents' = IF cookie THEN Append(portEvents, Cmd("REMOVE", MONITOR, l, DISABLE, NoEvent))
                     ELSE portEvents
    /\ IF Present(l) /\ usbdev[l].reading
       THEN /\ usbdev' = [usbdev EXCEPT ![l].reading = FALSE]
            /\ rxfail' = rxfail \cup {usbdev[l].id}
       ELSE UNCHANGED <<usbdev, rxfail>>
    /\ UNCHANGED <<next_id, layer, queue, drain, cookie, waiter>>

\* usb_append_device_command: blocks while usb_process holds the lock
Append1(c) == drain = 0 /\ queue' = Append(queue, c)

\* usb_port_change_callback on the plugin's notification thread
usb_port_change_callback ==
    /\ portEvents /= <<>>
    /\ Append1(Head(portEvents))
    /\ portEvents' = Tail(portEvents)
    /\ UNCHANGED <<plugged, usbdev, next_id, layer, rxfail, drain, cookie, waiter, budget>>

\* usb_add_device, usb_remove_device: queue the command; the completion
\* event of the host API is queued with it and never signalled
usb_add_remove_device(t, l) == Append1(Cmd(t, MANUAL, l, DISABLE, NoEvent))

\* AddDevice and RemoveDevice of a client (handle_add_device_command,
\* handle_remove_device_command) or of the host API (usbmuxd_AddDevice,
\* usbmuxd_RemoveDevice): queued, and answered RESULT_OK at once
manual_command(t, l) ==
    /\ Env /\ usb_add_remove_device(t, l)
    /\ UNCHANGED <<plugged, usbdev, next_id, layer, rxfail, drain, portEvents, cookie, waiter>>

\* usb_set_device_monitoring_immediately: queue the command, then run
\* usb_process on the calling thread, which takes the lock and counts the
\* queue with the new command in it
usb_set_device_monitoring_immediately(l, m) ==
    /\ Append1(Cmd("SET_MONITOR", MANUAL, l, m, NoEvent))
    /\ drain' = Len(queue) + 1

\* DeviceMonitor of a client, on the reactor: AutoMonitor true is ALWAYS,
\* false or missing is DISABLE
handle_device_monitor_command(l, m) ==
    /\ Env /\ usb_set_device_monitoring_immediately(l, m)
    /\ UNCHANGED <<plugged, usbdev, next_id, layer, rxfail, portEvents, cookie, waiter>>

\* usb_set_device_monitoring: queue the command with a new completion event
\* and wait for it
usb_set_device_monitoring(c, l, m) ==
    /\ Env /\ waiter[c].pc = "idle"
    /\ Append1(Cmd("SET_MONITOR", MANUAL, l, m, [c |-> c, gen |-> waiter[c].gen + 1]))
    /\ waiter' = [waiter EXCEPT ![c] = [pc |-> "waiting", gen |-> @.gen + 1]]
    /\ UNCHANGED <<plugged, usbdev, next_id, layer, rxfail, drain, portEvents, cookie>>

\* the wait ends, signalled or timed out, and the event is closed
wait_signalled(c) ==
    /\ waiter[c].pc = "signalled"
    /\ waiter' = [waiter EXCEPT ![c].pc = "idle"]
    /\ UNCHANGED <<plugged, usbdev, next_id, layer, rxfail, queue, drain, portEvents, cookie, budget>>

wait_timeout(c) ==
    /\ waiter[c].pc = "waiting"
    /\ waiter' = [waiter EXCEPT ![c].pc = "idle"]
    /\ UNCHANGED <<plugged, usbdev, next_id, layer, rxfail, queue, drain, portEvents, cookie, budget>>

\* device_process_sockets meets a failed read: usb_get_read_result fails and
\* usb_handle_port_failure queues a REMOVE for the device's location.  A
\* read fails here only because the device was unplugged, which the driver
\* reports as ERROR_GEN_FAILURE; other errors, for which the code queues
\* nothing, come from failures this model does not produce.
usb_handle_port_failure(i) ==
    /\ i \in rxfail /\ i \in layer
    /\ \E l \in Locations :
          /\ Present(l) /\ usbdev[l].id = i
          /\ Append1(Cmd("REMOVE", MONITOR, l, DISABLE, NoEvent))
    /\ rxfail' = rxfail \ {i}
    /\ UNCHANGED <<plugged, usbdev, next_id, layer, drain, portEvents, cookie, waiter, budget>>

\* usb_process takes the lock and counts the queue ...
usb_process ==
    /\ drain = 0 /\ queue /= <<>>
    /\ drain' = Len(queue)
    /\ UNCHANGED <<plugged, usbdev, next_id, layer, rxfail, queue, portEvents, cookie, waiter, budget>>

\* ... and handles that many commands, in order
usb_process_command ==
    /\ drain > 0
    /\ \E o \in AddOutcomes : Apply(Head(queue), o)
    /\ queue' = Tail(queue)
    /\ drain' = drain - 1
    /\ UNCHANGED <<plugged, portEvents, budget>>

Reactor ==
    \/ usb_process \/ usb_process_command
    \/ \E i \in Ids : usb_handle_port_failure(i)

Next ==
    \/ Reactor \/ usb_port_change_callback
    \/ \E l \in Locations : plug(l) \/ unplug(l)
    \/ \E t \in {"ADD", "REMOVE"}, l \in Locations : manual_command(t, l)
    \/ \E l \in Locations, m \in {ALWAYS, DISABLE} : handle_device_monitor_command(l, m)
    \/ \E c \in Callers, l \in Locations, m \in MonitorStates :
          usb_set_device_monitoring(c, l, m)
    \/ \E c \in Callers : wait_signalled(c) \/ wait_timeout(c)

\* the reactor loop calls device_process_sockets and usb_process on every
\* iteration, and the plugin delivers its notifications
Spec ==
    /\ Init /\ [][Next]_vars
    /\ WF_vars(usb_process) /\ WF_vars(usb_process_command)
    /\ \A i \in Ids : WF_vars(usb_handle_port_failure(i))
    /\ WF_vars(usb_port_change_callback)

-----------------------------------------------------------------------------
(* Properties                                                              *)

Entries == [id : Ids, monitor : MonitorStates, state : {ALIVE, WAITING},
            port : BOOLEAN, reading : BOOLEAN]

TypeOK ==
    /\ plugged \in [Locations -> BOOLEAN]
    /\ usbdev \in [Locations -> Entries \cup {NoDev}]
    /\ next_id \in Ids
    /\ layer \subseteq Ids /\ rxfail \subseteq layer
    /\ drain \in 0 .. Len(queue)
    /\ cookie \in BOOLEAN
    /\ budget \in 0 .. MaxEvents

\* The device layer never keeps a mux_device whose usb_device has been
\* freed, closed or set to wait for a device: device_remove comes with every
\* path of usb_process that disconnects a device, whatever order the
\* notifications, read failures and requests of other threads arrive in.
NoDanglingMuxDevice ==
    \A i \in layer : \E l \in Locations :
        /\ Present(l) /\ usbdev[l].id = i
        /\ usbdev[l].state = ALIVE /\ usbdev[l].port

Always(l) == Present(l) /\ usbdev[l].monitor = ALWAYS

\* "so we won't lose the always monitor setting": a location monitored
\* ALWAYS loses that setting only by a manual REMOVE or a manual
\* SET_MONITOR DISABLE of that location, never by a preflight thread's
\* ONCE request, a notification, a failed read or a failed reconnect.
AlwaysMonitorSticky ==
    [][\A l \in Locations :
         Always(l) /\ ~Always(l)' =>
            /\ drain > 0 /\ Head(queue).loc = l /\ Head(queue).src = MANUAL
            /\ \/ Head(queue).type = "REMOVE"
               \/ Head(queue).type = "SET_MONITOR" /\ Head(queue).mon = DISABLE]_vars

Up(l) == Present(l) /\ usbdev[l].state = ALIVE /\ usbdev[l].port

\* A monitored location whose device is attached, and stays attached and
\* monitored, eventually has the device open and running: this is what
\* monitoring is for (the iOS 7 trust reconnect of preflight.cpp).
MonitoredDeviceComesUp ==
    \A l \in Locations :
        (plugged[l] /\ Present(l) /\ usbdev[l].monitor /= DISABLE)
            ~> (Up(l) \/ ~plugged[l] \/ ~Present(l) \/ usbdev[l].monitor = DISABLE)

====
