--------------------------- MODULE DeviceLifecycle ---------------------------
(***************************************************************************)
(* The life of a mux device (src/device.cpp) from USB arrival to removal, *)
(* its preflight thread (src/preflight.cpp), and the device add/remove    *)
(* notifications that LISTEN clients receive (src/client.cpp).            *)
(*                                                                         *)
(* Two kinds of thread share the device and client lists: the reactor     *)
(* (MainThreadProc), which runs usb_process, device_process_sockets and  *)
(* client_process, and one preflight thread per device that reached       *)
(* ACTIVE.  device_list_mutex and client_list_mutex are recursive         *)
(* CRITICAL_SECTIONs.  A section that takes one lock and blocks on no     *)
(* other is one atomic step enabled while the lock is free; a thread that *)
(* holds one lock while it waits for the other does so in two steps, so   *)
(* the order in which the two threads take the locks is explicit.         *)
(*                                                                         *)
(* What lockdownd and the user answer during preflight is the            *)
(* environment: each outcome is a nondeterministic choice.  Clients are   *)
(* plist (proto_version 1) clients, which receive every notification.     *)
(***************************************************************************)
EXTENDS Naturals, FiniteSets

CONSTANTS
    Clients,      \* accepted client sockets (model values)
    Locations,    \* USB locations a device may arrive at (model values)
    MaxDevices,   \* bound: ids get_next_device_id hands out
    Reactor,      \* the reactor thread, as a lock owner
    NoOwner       \* an unowned mutex; also "no client being served"

ASSUME /\ MaxDevices \in Nat \ {0}
       /\ {Reactor, NoOwner} \cap (Clients \cup Locations) = {}
       /\ Reactor /= NoOwner

Ids == 1 .. MaxDevices

VARIABLES
    plugged,   \* locations holding a usb_device (usb-mce's g_device_list)
    next_id,   \* the next id get_next_device_id returns
    dev,       \* id -> mux_device; state "NONE" before device_add and after free
    worker,    \* id -> preflight thread: pc, path, cbdata.is_device_connected, IS_PAIRED
    devLock,   \* owner of device_list_mutex
    cliLock,   \* owner of client_list_mutex
    rclient,   \* the client whose LISTEN the reactor serves inside client_process
    cstate,    \* mux_client.state: "COMMAND", "LISTEN", or "FREED" after client_close
    last,      \* client -> id -> the last of "ATTACHED"/"DETACHED" it was sent
    pevents,   \* client -> ids it was sent a pairing event about
    dev_uaf    \* history: a handler used a mux_device after free(dev)

vars == <<plugged, next_id, dev, worker, devLock, cliLock, rclient, cstate,
          last, pevents, dev_uaf>>

NoDev == [state |-> "NONE", loc |-> NoOwner, visible |-> FALSE,
          running |-> FALSE, cb |-> FALSE]
Present(i) == dev[i].state /= "NONE"
DevAt(l) == {i \in Ids : Present(i) /\ dev[i].loc = l}

Shown_settled(i) == dev[i].state = "ACTIVE" /\ dev[i].visible /\ ~dev[i].running

\* the filter of device_get_list(0, ...)
Shown(i) == dev[i].state = "ACTIVE" /\ dev[i].visible

\* the FOREACH over client_list of client_device_add / client_device_remove
NotifyListeners(i, ev) ==
    [c \in Clients |-> IF cstate[c] = "LISTEN"
                       THEN [last[c] EXCEPT ![i] = ev] ELSE last[c]]

\* client_device_pairing_event: with validate_device, only for a device in the list
PairingEvent(i, validate) ==
    IF validate => Present(i)
    THEN [c \in Clients |-> IF cstate[c] = "LISTEN"
                            THEN pevents[c] \cup {i} ELSE pevents[c]]
    ELSE pevents

\* dev->field = v for the device with that id, if it is still in device_list
SetDev(i, f, v) == IF Present(i) THEN [dev EXCEPT ![i][f] = v] ELSE dev

ReactorIdle == rclient = NoOwner

-----------------------------------------------------------------------------
(* The reactor                                                             *)

device_add_offbyone(l) ==
    /\ ReactorIdle /\ devLock = NoOwner
    /\ l \notin plugged /\ next_id <= MaxDevices + 1
    /\ plugged' = plugged \cup {l}
    /\ dev' = [dev EXCEPT ![next_id] = [NoDev EXCEPT !.state = "INIT", !.loc = l]]
    /\ next_id' = next_id + 1
    /\ UNCHANGED <<worker, devLock, cliLock, rclient, cstate, last, pevents, dev_uaf>>

\* usb_device_add -> device_add: a fresh id in INIT; the VERSION request is sent
device_add(l) ==
    /\ ReactorIdle /\ devLock = NoOwner
    /\ l \notin plugged /\ next_id \in Ids
    /\ plugged' = plugged \cup {l}
    /\ dev' = [dev EXCEPT ![next_id] = [NoDev EXCEPT !.state = "INIT", !.loc = l]]
    /\ next_id' = next_id + 1
    /\ UNCHANGED <<worker, devLock, cliLock, rclient, cstate, last, pevents, dev_uaf>>

\* device_process_sockets (holding device_list_mutex) -> device_version_input,
\* a supported version: ACTIVE, the preflight thread created, then the flag set
device_version_input(i) ==
    /\ ReactorIdle /\ devLock = NoOwner
    /\ dev[i].state = "INIT"
    /\ dev' = [dev EXCEPT ![i].state = "ACTIVE", ![i].running = TRUE]
    /\ worker' = [worker EXCEPT ![i].pc = "start"]
    /\ UNCHANGED <<plugged, next_id, devLock, cliLock, rclient, cstate, last, pevents, dev_uaf>>

\* an unknown major version: dev is removed and freed inside the FOREACH of
\* device_process_sockets, which then sends on dev->rx_data_events_socket
device_version_input_bad(i) ==
    /\ ReactorIdle /\ devLock = NoOwner
    /\ dev[i].state = "INIT"
    /\ dev' = [dev EXCEPT ![i] = NoDev]
    /\ dev_uaf' = TRUE
    /\ UNCHANGED <<plugged, next_id, worker, devLock, cliLock, rclient, cstate, last, pevents>>

\* usb_process (dead device or REMOVE command) -> device_remove
device_remove(l) ==
    /\ ReactorIdle /\ devLock = NoOwner /\ cliLock = NoOwner
    /\ l \in plugged
    /\ plugged' = plugged \ {l}
    /\ IF DevAt(l) = {}
       THEN UNCHANGED <<dev, worker, last, pevents>>
       ELSE LET i == CHOOSE i \in DevAt(l) : TRUE
                active == dev[i].state = "ACTIVE"
            IN /\ last' = IF active /\ dev[i].visible
                          THEN NotifyListeners(i, "DETACHED") ELSE last
               /\ pevents' = IF active /\ ~dev[i].visible
                             THEN PairingEvent(i, FALSE) ELSE pevents
               /\ worker' = IF dev[i].cb
                            THEN [worker EXCEPT ![i].connected = FALSE] ELSE worker
               /\ dev' = [dev EXCEPT ![i] = NoDev]
    /\ UNCHANGED <<next_id, devLock, cliLock, rclient, cstate, dev_uaf>>

\* client_process takes client_list_mutex; process_recv reads a LISTEN request
client_process_listen(c) ==
    /\ ReactorIdle /\ cliLock = NoOwner
    /\ cstate[c] = "COMMAND"
    /\ cliLock' = Reactor /\ rclient' = c
    /\ UNCHANGED <<plugged, next_id, dev, worker, devLock, cstate, last, pevents, dev_uaf>>

\* start_listen, still under client_list_mutex: LISTEN, then device_get_list(0)
\* takes device_list_mutex and every shown device is announced
start_listen(c) ==
    /\ rclient = c /\ devLock = NoOwner
    /\ cstate' = [cstate EXCEPT ![c] = "LISTEN"]
    /\ last' = [last EXCEPT ![c] = [i \in Ids |-> IF Shown(i) THEN "ATTACHED" ELSE @[i]]]
    /\ cliLock' = NoOwner /\ rclient' = NoOwner
    /\ UNCHANGED <<plugged, next_id, dev, worker, devLock, pevents, dev_uaf>>

\* process_recv fails: client_close removes the client from client_list
client_hangup(c) ==
    /\ ReactorIdle /\ cliLock = NoOwner
    /\ cstate[c] \in {"COMMAND", "LISTEN"}
    /\ cstate' = [cstate EXCEPT ![c] = "FREED"]
    /\ UNCHANGED <<plugged, next_id, dev, worker, devLock, cliLock, rclient, last, pevents, dev_uaf>>

-----------------------------------------------------------------------------
(* The preflight thread of device i (preflight_worker_handle_device_add)   *)

WorkerVars == <<plugged, next_id, rclient, cstate, dev_uaf>>
Goto(i, pc) == [worker EXCEPT ![i].pc = pc]

\* lockdownd answers: a restore-mode device, a started session or a pairing
\* without dialog ("add"); an error ("fail"); PasswordProtected or
\* UserDeniedPairing right away ("event"); the trust dialog ("trust")
preflight_start(i) ==
    /\ worker[i].pc = "start"
    /\ \E path \in {"add", "fail", "event", "trust"} :
          worker' = [worker EXCEPT ![i].path = path,
                        ![i].pc = CASE path = "add"  -> "set_visible"
                                    [] path = "fail" -> "finish"
                                    [] OTHER         -> "pe_dev"]
    /\ UNCHANGED <<dev, devLock, cliLock, last, pevents>> /\ UNCHANGED WorkerVars

\* client_device_add, first half: device_set_visible under device_list_mutex
device_set_visible(i) ==
    /\ worker[i].pc = "set_visible" /\ devLock = NoOwner
    /\ dev' = SetDev(i, "visible", TRUE)
    /\ worker' = Goto(i, "notify_add")
    /\ UNCHANGED <<devLock, cliLock, last, pevents>> /\ UNCHANGED WorkerVars

\* client_device_add, second half: every LISTEN client is sent ATTACHED,
\* whether or not the device is still in the list
client_device_add(i) ==
    /\ worker[i].pc = "notify_add" /\ cliLock = NoOwner
    /\ last' = NotifyListeners(i, "ATTACHED")
    /\ worker' = Goto(i, "finish")
    /\ UNCHANGED <<dev, devLock, cliLock, pevents>> /\ UNCHANGED WorkerVars

\* client_device_pairing_event: device_lock_devices ...
pairing_event_lock(i) ==
    /\ worker[i].pc = "pe_dev" /\ devLock = NoOwner
    /\ devLock' = i
    /\ worker' = Goto(i, "pe_cli")
    /\ UNCHANGED <<dev, cliLock, last, pevents>> /\ UNCHANGED WorkerVars

\* ... then, holding it, client_list_mutex: the event if device_exists
pairing_event_send(i) ==
    /\ worker[i].pc = "pe_cli" /\ cliLock = NoOwner
    /\ pevents' = PairingEvent(i, TRUE)
    /\ devLock' = NoOwner
    /\ worker' = Goto(i, CASE worker[i].path = "event" -> "finish"
                           [] worker[i].path = "trust" -> "set_cb"
                           [] OTHER                    -> "clear_cb")
    /\ UNCHANGED <<dev, cliLock, last>> /\ UNCHANGED WorkerVars

\* cbdata.is_device_connected = 1; device_set_preflight_cb_data(id, &cbdata)
set_preflight_cb(i) ==
    /\ worker[i].pc = "set_cb" /\ devLock = NoOwner
    /\ dev' = SetDev(i, "cb", TRUE)
    /\ worker' = [worker EXCEPT ![i].connected = TRUE, ![i].pc = "wait"]
    /\ UNCHANGED <<devLock, cliLock, last, pevents>> /\ UNCHANGED WorkerVars

\* the wait loop while the device is connected: the user trusts (np_callback
\* or a successful lockdownd_pair), denies, or the lockdown retries run out
preflight_wait(i) ==
    /\ worker[i].pc = "wait" /\ worker[i].connected
    /\ \/ worker' = [worker EXCEPT ![i].paired = TRUE, ![i].pc = "clear_cb"]
       \/ worker' = [worker EXCEPT ![i].path = "denied", ![i].pc = "pe_dev"]
       \/ worker' = Goto(i, "clear_cb")
    /\ UNCHANGED <<dev, devLock, cliLock, last, pevents>> /\ UNCHANGED WorkerVars

\* the loop condition sees is_device_connected == 0 (preflight_device_remove_cb)
preflight_wait_gone(i) ==
    /\ worker[i].pc = "wait" /\ ~worker[i].connected
    /\ worker' = Goto(i, "clear_cb")
    /\ UNCHANGED <<dev, devLock, cliLock, last, pevents>> /\ UNCHANGED WorkerVars

clear_preflight_cb_keep(i) ==
    /\ worker[i].pc = "clear_cb" /\ devLock = NoOwner
    /\ worker' = Goto(i, IF worker[i].paired THEN "set_visible" ELSE "finish")
    /\ UNCHANGED <<dev, devLock, cliLock, last, pevents>> /\ UNCHANGED WorkerVars

\* device_set_preflight_cb_data(id, NULL); if paired, client_device_add
clear_preflight_cb(i) ==
    /\ worker[i].pc = "clear_cb" /\ devLock = NoOwner
    /\ dev' = SetDev(i, "cb", FALSE)
    /\ worker' = Goto(i, IF worker[i].paired THEN "set_visible" ELSE "finish")
    /\ UNCHANGED <<devLock, cliLock, last, pevents>> /\ UNCHANGED WorkerVars

\* leave: device_preflight_finished clears is_preflight_worker_running
device_preflight_finished(i) ==
    /\ worker[i].pc = "finish" /\ devLock = NoOwner
    /\ dev' = SetDev(i, "running", FALSE)
    /\ worker' = Goto(i, "done")
    /\ UNCHANGED <<devLock, cliLock, last, pevents>> /\ UNCHANGED WorkerVars

Worker(i) ==
    \/ preflight_start(i) \/ device_set_visible(i) \/ client_device_add(i)
    \/ pairing_event_lock(i) \/ pairing_event_send(i) \/ set_preflight_cb(i)
    \/ preflight_wait_gone(i) \/ clear_preflight_cb(i)
    \/ device_preflight_finished(i)

-----------------------------------------------------------------------------

Init ==
    /\ plugged = {} /\ next_id = 1
    /\ dev = [i \in Ids |-> NoDev]
    /\ worker = [i \in Ids |-> [pc |-> "idle", path |-> "fail",
                                connected |-> FALSE, paired |-> FALSE]]
    /\ devLock = NoOwner /\ cliLock = NoOwner /\ rclient = NoOwner
    /\ cstate = [c \in Clients |-> "COMMAND"]
    /\ last = [c \in Clients |-> [i \in Ids |-> "NONE"]]
    /\ pevents = [c \in Clients |-> {}]
    /\ dev_uaf = FALSE

ReactorNext ==
    \/ \E l \in Locations : device_add(l) \/ device_remove(l)
    \/ \E i \in Ids : device_version_input(i) \/ device_version_input_bad(i)
    \/ \E c \in Clients : client_process_listen(c) \/ start_listen(c) \/ client_hangup(c)

Next ==
    \/ ReactorNext
    \/ \E i \in Ids : Worker(i) \/ preflight_wait(i)

\* Threads are scheduled: a runnable preflight step and the reactor's
\* start_listen are eventually taken.  preflight_wait is not fair while the
\* device stays connected: the user may never answer the trust dialog.
Fairness ==
    /\ \A i \in Ids : WF_vars(Worker(i))
    /\ \A c \in Clients : WF_vars(start_listen(c))

Spec == Init /\ [][Next]_vars /\ Fairness

-----------------------------------------------------------------------------
(* Properties                                                              *)

WorkerPcs == {"idle", "start", "set_visible", "notify_add", "pe_dev", "pe_cli",
              "set_cb", "wait", "clear_cb", "finish", "done"}

TypeOK ==
    /\ plugged \subseteq Locations /\ next_id \in 1 .. MaxDevices + 1
    /\ \A i \in Ids : /\ dev[i].state \in {"NONE", "INIT", "ACTIVE"}
                      /\ dev[i].loc \in Locations \cup {NoOwner}
                      /\ {dev[i].visible, dev[i].running, dev[i].cb} \subseteq BOOLEAN
                      /\ worker[i].pc \in WorkerPcs
                      /\ worker[i].path \in {"add", "fail", "event", "trust", "denied"}
                      /\ {worker[i].connected, worker[i].paired} \subseteq BOOLEAN
    /\ devLock \in Ids \cup {Reactor, NoOwner}
    /\ cliLock \in Ids \cup {Reactor, NoOwner}
    /\ rclient \in Clients \cup {NoOwner}
    /\ cstate \in [Clients -> {"COMMAND", "LISTEN", "FREED"}]
    /\ last \in [Clients -> [Ids -> {"NONE", "ATTACHED", "DETACHED"}]]
    /\ pevents \in [Clients -> SUBSET Ids]
    /\ dev_uaf \in BOOLEAN

\* Spec section 8: a LISTEN client holds an ATTACHED, not followed by a
\* DETACHED, for every device that is ACTIVE and visible.  Threatened by
\* start_listen (reactor, under client_list_mutex) racing client_device_add
\* (preflight thread: device_set_visible, then the notification loop); the
\* one exception is the window between the two halves of client_device_add.
ListenerSeesVisible ==
    \A c \in Clients, i \in Ids :
        (/\ cstate[c] = "LISTEN" /\ dev[i].state = "ACTIVE" /\ dev[i].visible
         /\ worker[i].pc /= "notify_add")
            => last[c][i] = "ATTACHED"

\* preflight_cb_data points at the cb_data on the preflight thread's stack:
\* whenever device_remove could call preflight_device_remove_cb on it, the
\* thread is still inside the wait section that owns it.
CbDataLive ==
    \A i \in Ids : dev[i].cb => worker[i].pc \in {"wait", "pe_dev", "pe_cli", "clear_cb"}

\* A LISTEN client is never left holding an ATTACHED for a device that is no
\* longer in the device list: device_remove's DETACHED must come last.
NoStaleAttach ==
    \A c \in Clients, i \in Ids :
        (cstate[c] = "LISTEN" /\ last[c][i] = "ATTACHED") => Present(i)

\* The reactor, once it has taken client_list_mutex to serve a LISTEN
\* request, always gets back to select(): the lock order of client_process
\* (client, then device) and of client_device_pairing_event (device, then
\* client) must not trap it.
ReactorProgress == (rclient /= NoOwner) ~> (rclient = NoOwner)

\* No handler touches a mux_device after device_version_input freed it.
NoDeviceUseAfterFree == ~dev_uaf

====
