# TLA+ models of usbmuxd (plugable USB, MSVC port)

This directory holds TLA+ models of the usbmuxd daemon in `../src`, the TLC
configurations that check them, and `PROJECT.json`, which lists:
- the components;
- the runs;
- the mutants that show each property can fail;
- the map from every modelled definition to the source lines it translates;
- the findings;
- the hazards.

## The system

usbmuxd multiplexes TCP-like connections between local client programs and
an iOS device over USB.

| Part | Source | State | Operations |
|---|---|---|---|
| Reactor | `usbmuxd.cpp` `MainThreadProc` | none of its own | One thread. It `select()`s on the client listen socket, the client sockets and one event socket per device. It runs one handler at a time. `device_check_timeouts` runs only when `select()` times out. |
| Client sessions | `client.cpp` | `mux_client`: `state` (COMMAND, LISTEN, CONNECTING1, CONNECTING2, CONNECTED, DEAD); `events`/`devents`; `ib`/`ob` buffers; `connect_tag`, `connect_device` | `client_accept`, `process_recv` → `client_command` (LISTEN, CONNECT, plist requests), `process_send`, `client_notify_connect`, `client_set_events`, `client_close`, device add/remove notifications |
| Connection engine | `device.cpp` | per `mux_connection`: `state` (CONNECTING, CONNECTED, REFUSED, DYING, DEAD); `tx_seq`, `tx_ack`, `tx_acked`, `tx_win`, `rx_ack`, `rx_win`, `sendable`; `ib` (256 KiB); the `CONN_ACK_PENDING` flag | `device_start_connect`, `device_tcp_input`, `device_client_process`, `connection_device_input`, `update_connection`, `connection_teardown`, `device_abort_connect`, `device_check_timeouts` |
| Mux framing | `device.cpp` | per device: `version`, 16-bit `tx_seq`/`rx_seq`, `pktbuf`/`pktlen` | `send_packet`, `device_data_input` (reassembles packets that span USB transfers) |
| Device lifecycle | `device.cpp`, `preflight.cpp` | `mux_device.state` (INIT, ACTIVE, DEAD), `visible`, `next_sport`, `preflight_cb_data` | `device_add` (sends VERSION), `device_version_input` (ACTIVE, starts the preflight thread), `device_set_visible`, `device_preflight_finished`, `device_remove` |
| USB transport | `usb-mce.cpp` | `usb_device.state` (ALIVE, DEAD, WAITING_FOR_DEVICE); the queue of pending ADD/REMOVE/SET_MONITOR commands; a read thread per device; an optional write thread | `usb_send` (exits the process on a failed transfer; sends a zero-length packet when needed), `usb_process` (drains the command queue on the reactor), the port-change callback, the read thread's one-byte handshake with the reactor |
| Preflight | `preflight.cpp` | per device: a worker thread | lockdown/pairing as a client of the daemon itself, then `client_device_add` or a pairing event |
| Configuration | `conf.cpp` | files | system BUID and pair records |

**How the parts interact:**
- A client's CONNECT request creates a connection on a device.
- The connection's bytes flow between the client socket and the USB pipes. Each direction is flow-controlled by a window.
- Closing either end tears down both: `connection_teardown` calls `client_close`, and `client_close` calls `device_abort_connect`.
- Removing a device tears down all of its connections.
- Everything that touches connections runs on the reactor thread. The USB, preflight and read threads hand their work to it through the command queue, the event sockets and `device_list_mutex`, which is a recursive `CRITICAL_SECTION`.

**What is hard about it:**
- The client ↔ connection teardown recursion.
- The order in which device segments, client readiness and device removal arrive.
- Window accounting in both directions.
- Delayed ACKs that depend on a `select()` timeout.
- Threads that create and destroy devices while the reactor uses them.
- The reassembly of packets split across USB transfers.
- 16-bit counters that wrap.

## Modules

### `MuxConnection.tla`: connection engine and client sessions

**Scope**
- One device that is already ACTIVE.
- A set of `Clients` that `client_accept` has put in COMMAND (`Init`).
- The device-side TCP endpoint as the environment. It is not code of this repository.

**State**
- `conn[sport]` is the `mux_connection`, keeping the code's field names. `dev->connections` is a function from sport, where `"NONE"` marks a free slot.
- `cstate`, `cevents`, `cdevents` and `cob` are the `mux_client` fields. `cob` counts the result packets waiting in `ob_buf`. `"FREED"` means the client has been freed.
- `to_dev` and `to_host` are the USB bulk pipes. They are reliable and FIFO.
- `peer` is the device endpoint.
- `closes` and `uaf` are history variables. They count calls to `client_close` and writes to a freed client.

**Actions**, one per handler or per branch of one:
- `client_connect` and `client_connect_baddev` model `client_command` CONNECT and `device_start_connect`.
- `client_bad_command` models a request received outside COMMAND.
- `client_hangup` models `process_recv` failing.
- `process_send`.
- `client_process_out` and `client_process_in` are the POLLOUT and POLLIN halves of `device_client_process`. A call with both events is their sequence, run atomically.
- `device_tcp_input` has one disjunct per branch.
- `device_remove`.

**Environment actions (the device)**
- `dev_receive` answers a SYN with SYN|ACK or RST, takes data, and takes an RST.
- `dev_consume` models the application reading, followed by a window update.
- `dev_send` sends data within the advertised window.
- `dev_reset`.

**Shared operators**
- `connection_teardown` and `client_close` are used by the actions.
- `send_result` (with `send_pkt`) queues one result packet and adds POLLOUT. `client_notify_connect` uses it, and moves a CONNECTING1 client to CONNECTING2 (RESULT_OK) or back to COMMAND.
- `client_close` models the re-entrant path: a mid-connect close aborts the connection, and for a CONNECTED connection that calls `client_close` again.

**Abstractions**
- Data is counted in payload units. `WinUnit` models `th_win = tx_win >> 8`.
- `send_tcp` never fails, because `usb_send` calls `ExitProcess(1)` on a failed transfer. Error paths that follow a failed send therefore do not appear.
- Error paths that a window-honouring device cannot reach are kept as `IF` branches: the `ib_buf` overflow teardown, and a failed `client_notify_connect` after SYN|ACK. Properties show those branches are unreachable.
- Sports are allocated by `next_sport++` below the 16-bit wrap.

**Fairness**
- Weak fairness on `device_tcp_input`: the reactor serves the device socket whenever it is ready.
- Weak fairness on `dev_receive`: the device processes what it is sent.
- Clients get no fairness. Client programs may do nothing.

**Properties**

| Property | Kind | What it says |
|---|---|---|
| `TypeOK` | invariant | type invariant |
| `ConnClientPaired` | invariant | A CONNECTING connection's client is CONNECTING1. A CONNECTED connection's client is CONNECTING2 or CONNECTED. Each client in those states owns exactly one connection. Every teardown path must preserve this. It also shows that the failing `client_notify_connect` branch after SYN|ACK, which would use the freed connection, cannot be taken. |
| `DeviceWindowRespected` | invariant | The device's receive buffer never exceeds its window, because `sendable` subtracts the data not yet acknowledged. |
| `HostInbufFits` | invariant | `ib_size` plus the device data in flight fits `CONN_INBUF_SIZE`, so the overflow teardown is unreachable. That teardown would read the freed connection at `device.cpp:858`. |
| `NoWindowStall` | invariant | Never: a CONNECTED connection whose `ib` is empty while the device's usable window is 0 and nothing is in flight. This is the zero-window recovery of the advertise rule at `device.cpp:639`. |
| `ConnectAnswered` | liveness | `CONNECTING1 ~> ¬CONNECTING1`, given that the device answers SYNs. The code has no connect timeout. |
| `ClientClosedOnce` | invariant (violation run) | `client_close` runs at most once per client. |
| `NoWriteAfterFree` | invariant (violation run) | No handler writes a freed client. |

### `DeviceLifecycle.tla`: devices, preflight threads and listeners

**Scope**
- A mux device's life from `device_add` to `device_remove`, in INIT and in ACTIVE.
- Its preflight thread.
- The LISTEN clients, which are sent ATTACHED and DETACHED notifications and pairing events.
- Connections are not in this module: `MuxConnection` covers the teardown of an ACTIVE device's connections.

**Threads and locks**
- Two kinds of thread share the device list and the client list:
  - the reactor, which runs `usb_process`, `device_process_sockets` and `client_process`;
  - one preflight thread per device that reached ACTIVE.
- `devLock` and `cliLock` are the owners of `device_list_mutex` and `client_list_mutex`. The owner is `Reactor`, a device id (that device's preflight thread) or `NoOwner`.
- A critical section that waits on no other lock is one step, enabled while its lock is free.
- Two sections hold one lock while they take the other, so each is two steps:
  - `client_process` → `start_listen` takes the client lock, then the device lock in `device_get_list`. These are `client_process_listen` and `start_listen`.
  - `client_device_pairing_event` takes the device lock, then the client lock. These are `pairing_event_lock` and `pairing_event_send`.

**State**
- `dev[id]` holds `state`, `visible`, `is_preflight_worker_running` (`running`) and whether `preflight_cb_data` is set (`cb`).
- `worker[id]` is the preflight thread: its program counter, the path lockdownd's answers chose, `cbdata.is_device_connected` and `IS_PAIRED`.
- `last[c][id]` is the last ATTACHED or DETACHED that client `c` was sent about the device.
- `pevents` records pairing events.
- `dev_uaf` is a history flag.

**Actions**
- Reactor:
  - `device_add`;
  - `device_version_input`, with a good or a bad major version;
  - `device_remove`;
  - `client_process_listen` and `start_listen`;
  - `client_hangup`.
- Preflight thread, following `preflight_worker_handle_device_add` in order:
  - `preflight_start`, where lockdownd's answers choose the path;
  - `device_set_visible` and `client_device_add`, the two halves of `client_device_add`;
  - the pairing event in two steps;
  - `set_preflight_cb`;
  - `preflight_wait`, where the user trusts, denies or the retries run out, and `preflight_wait_gone`, where `preflight_device_remove_cb` cleared `is_device_connected`;
  - `clear_preflight_cb`;
  - `device_preflight_finished`.

**Fairness**
- Every preflight step is weakly fair except `preflight_wait`. While the device stays connected, the trust dialog may never be answered.
- The reactor's `start_listen` is weakly fair: the reactor thread is scheduled.

**Properties**

| Property | Kind | What it says |
|---|---|---|
| `TypeOK` | invariant | type invariant |
| `ListenerSeesVisible` | invariant | Spec §8: a LISTEN client holds ATTACHED for every ACTIVE, visible device. The only exception is the window between the two halves of `client_device_add`. The hazard is `start_listen` racing the preflight thread; the locks make this hold. |
| `CbDataLive` | invariant | `preflight_cb_data` (a pointer to the preflight thread's stack) is set only while that thread is in the section that owns it. `device_remove` may call `preflight_device_remove_cb` through it at any time. |
| `NoStaleAttach` | invariant (violation run) | A listener never holds ATTACHED for a device no longer in the list. |
| `ReactorProgress` | liveness (violation run) | The reactor, once it holds `client_list_mutex` for a LISTEN request, gets back to `select()`. |
| `NoDeviceUseAfterFree` | invariant (violation run) | No handler uses a `mux_device` after `device_version_input` freed it. |

### `MuxChannel.tla` and `MuxReassembly.tla`: the USB IN framing

**MuxChannel** is the abstract promise of the framing layer: the device's packets reach the protocol handlers whole, once each, in write order, and every one eventually does.

**MuxReassembly** is the host side that implements it:
- The read thread's bulk transfer completes into `rx.buffer` (`usb_read_complete`). A read returns at most `DEVICE_RX_BUFFER_SIZE` units, or the rest of the device's write.
- The reactor feeds the transfer to `device_data_input` until it is consumed (`device_process_sockets`, with `ProcessFrom` as the `while` loop). Only then does the read thread start the next transfer.
- `device_data_input` is an operator with the code's branches:
  - an empty or oversized buffer;
  - stitching into `pktbuf` (the `Gathered` and `GatherInto` helpers);
  - keeping a full `USB_MRU` transfer whose header announces more;
  - `Dispatch`, the size check and the protocol switch.
- Bytes are units named by packet and offset, so what the parser takes for a header is known.
- The device is the environment. It writes one packet per write, ending it with a short packet.

**Refinement:** `MuxChannelSpec` is `MuxChannel!Spec` with `recvd <- delivered`. A dropped or corrupted packet is delivered as 0, which no MuxChannel step produces. With the fork's read size the refinement fails, and `read_size` shows how.

**Abstraction of a misparsed header:** a header read from the middle of a packet is given length 0 and an unknown protocol, so `Dispatch` consumes the rest of the buffer and delivers 0. In the code its length and protocol are whatever the payload holds. A length of 0 with `MUX_PROTO_CONTROL` would make the `while` loop of `device_process_sockets` spin forever (`device.cpp:458`, `972`); that is listed as a hazard.

**Fairness:** weak fairness on the read completion and on the reactor serving the event socket.

| Property | Kind | What it says |
|---|---|---|
| `TypeOK` | invariant | type invariant |
| `MuxChannelSpec` | refinement | The framing implements MuxChannel. Checked by `read_size`, where the code breaks it. |

### `PendingCommands.tla`: the USB device table and its command queue

**Scope**
- `g_device_list` of `usb-mce.cpp`, by location.
- The queue of pending ADD, REMOVE and SET_MONITOR commands.
- The device layer, reduced to the set of ids it holds a `mux_device` for.

**Producers** append under `g_pending_devices_lock`:
- the plugin's port-change callback (`usb_port_change_callback`, once `usb_update_monitored_devices` has registered it);
- a client's AddDevice or RemoveDevice, or the host API (`manual_command`);
- a client's DeviceMonitor (`handle_device_monitor_command`). It runs `usb_set_device_monitoring_immediately`, which appends and then runs `usb_process` on the reactor at once, so the drain starts in the same step;
- a preflight thread's `usb_set_device_monitoring`, which waits on a completion event until it is signalled or times out;
- the reactor after a failed read (`usb_handle_port_failure`).

**The consumer** is `usb_process`. It takes the lock and counts the queue (`usb_process`). Then it handles that many commands while holding the lock (`usb_process_command`). Each command runs `usb_add_pending_device`, `usb_remove_pending_device` or `usb_handle_device_monitor_command`, followed by `usb_update_monitored_devices`.

**Environment:** `plug` and `unplug` of a location, within `MaxEvents`.

**Fairness:** weak fairness on the reactor's steps and on the plugin's notifications. Producers get none.

| Property | Kind | What it says |
|---|---|---|
| `TypeOK` | invariant | type invariant |
| `NoDanglingMuxDevice` | invariant | Every id the device layer holds belongs to an ALIVE, open `usb_device`. |
| `AlwaysMonitorSticky` | action property | An ALWAYS monitor is lost only by a manual REMOVE or a manual SET_MONITOR DISABLE of that location. |
| `MonitoredDeviceComesUp` | liveness (violation run) | An attached, monitored location eventually has its device open. |

### `UsbThreads.tla` and `RxHandshake.tla`: the threads of an open USB device

**Scope:** one device connection of `usb-mce.cpp` in the build without `USE_PORTDRIVER_SOCKETS`.

**Start (`usb_add_pending_device`)**
- After `device_add` has sent VERSION, `usb_start_read_thread` connects the data events socket and creates the read thread. If any step fails, the device is removed (`close`).
- `usb_start_write_thread` runs only with `bTurbo`. It creates `writeThreadStop` (`wts`) before the thread. If thread creation fails, `usb_disconnect` starts with the read thread already running.

**Read thread (`usb_read_thread_proc`)**
- `rx_begin` is the first `usb_start_read`. If it fails, the thread ends.
- `rx_stop` is the stop event. `WaitForMultipleObjects` reports it first.
- `rx_data` is a completed read. The thread sends one byte and blocks in `recv`. A failed send ends the thread.
- `rx_answer` is the reactor's answer arriving, followed by the next read, which may fail.

**Reactor, read side**
- `device_process_sockets` reads the byte, then calls `usb_get_read_result` (its two outcomes).
- If the result fails, there is no answer. The thread then stays in `recv`.

**Reactor, write side**
- `usb_send` takes an element from `tx.pool` (`GetTXQElement`) and starts the transfer (`Transfer`). The result depends on the transfer:
  - it completed: the element goes back to the pool;
  - it is pending and the write thread runs: the element is queued on `tx.q`;
  - it is pending and no thread runs: the reactor waits for it (`usb_send_wait`, `usb_send_reuse`);
  - it failed: `ExitProcess`.
- `usb_send_zlp` sends the zero-length packet after a packet that is a multiple of the packet size.

**Disconnect (`usb_disconnect`)**
- If the read thread exists, its stop event is signalled first. The wait then ends in one of three ways:
  - the thread has ended (`disc_rx_ended`);
  - the wait times out and `TerminateThread` kills it (`disc_rx_timeout`);
  - the wait times out and `TerminateThread` fails, so `usb_disconnect` returns at once with both threads running and the port open (also `disc_rx_timeout`).
- Then, if `writeThreadStop` exists (`TxStop`), it is signalled and the stop element is queued. The 5 s wait then ends in one of three ways:
  - the thread ended, and the pool is deleted (`disc_thread_ended`);
  - the wait timed out (`disc_timeout`);
  - the thread was never created, so the wait on a NULL handle fails (`disc_wait_failed`).
- `disc_close` closes the port and frees or resets the device.

**Refinement (`RxHandshake.tla`).** `RxHandshake` is the abstract promise of the read side. Transfers into `rx.buffer` are started, complete, and are processed by the reactor one at a time (`Start`, `Complete`, `Process`). The code leaves this cycle in two ways: the reactor gives the buffer up after a failed result (`GiveUp`, state `stuck`), and reading stops for good (`Stop`).
- `RxBuf` maps the handshake onto the buffer's abstract state:
  - `wait` is `reading`;
  - `recv` with the byte unread is `full`;
  - `recv` with the answer sent is `empty`;
  - `recv` with neither is `stuck`;
  - an ended thread is `off`.
- `RxHandshakeSpec` is `RxHandshake!Spec` under that mapping.
- MuxReassembly's `usb_read_complete` and `device_process_sockets` are `Complete` and `Process` of the same machine. So this is the environment MuxReassembly assumes, shown here to be what the threads provide.

**Write thread:** `wt_dequeue`, `wt_check_stop`, `wt_result`, `wt_reuse`, then `wt_cleanup` on exit.

**Pool race:** `tx.pool` is a moodycamel `BlockingReaderWriterQueue`: a single-producer, single-consumer queue with a semaphore. `enqueue` signals the semaphore after publishing. `try_dequeue` takes the semaphore without blocking, then the front, and returns true once it has the semaphore, whether or not the inner queue had an element. The library is not in this repository; it is modelled from that behaviour (`psema` and the slots `pslot`, `pfront`, `ptail`).
- The pool has two producers, the reactor and the write thread. Its enqueue is therefore two steps: read the tail, then write the slot, publish and signal. The two threads can interleave between them.
- Two enqueues that read the same tail leave one element and two signals. A later `GetTXQElement` then gets an element that was never set (`Unassigned`): the uninitialised local `e` of `usb_send`. In `usb_disconnect`'s delete loop, the extra signal deletes the last `freePoll` again.
- What the process does next is undefined: it may crash, or start a transfer on a stale OVERLAPPED. The model ends the behaviour in the state `undefined`. TLC reaches it with three sends. No run can show it as a violation, because the number of runs is at its limit; it is listed as a hazard.

**Environment**
- `usb_transfer_complete` is the driver completing a pending OUT transfer.
- `rx_data` is a read completing.

**Fairness**
- Weak fairness on:
  - the reactor's continuation steps, including `device_process_sockets` and the waits of `usb_disconnect`: the reactor's `select()` loop serves every ready socket;
  - the write thread;
  - the read thread's own steps;
  - the driver completing OUT transfers.
- New sends, the disconnect and incoming reads get none: they are up to the device layer, the user and the device.

| Property | Kind | What it says |
|---|---|---|
| `TypeOK` | invariant | type invariant |
| `PoolHoldsIdleOverlapped` | invariant | Every OVERLAPPED in the pool's published slots was allocated, is not owned by a pending transfer and is not deleted: both threads put an element back only after its result. It says nothing of the unassigned element the race leads to. |
| `ReadThreadGoneBeforeClose` | invariant | The port is closed and the device freed or reset only after the read thread has ended or been terminated. This holds even when the thread is stuck in `recv` after a failed read result. |
| `RxBufferHandedOver` | invariant | From the read thread's byte until the reactor's answer, the thread is blocked in `recv` or killed: it never starts a read into `rx.buffer` while the reactor still owns the data. |
| `RxHandshakeSpec` | refinement | The read thread and `device_process_sockets` implement `RxHandshake`. |
| `QueuedTransferReaped` | liveness | A transfer queued to the write thread is eventually reaped, unless the device is being stopped. |
| `DisconnectEnds` | liveness | Once begun, `usb_disconnect` ends (the device is gone, `usb_disconnect` returned early, or its pool deletion went into undefined behaviour), even when the read thread waits in `recv` for an answer the reactor will never send. |

## Runs

The MC modules supply model values and symmetry sets: `MCMuxConnection.tla`, `MCDeviceLifecycle.tla` and `MCPendingCommands.tla`. MuxReassembly and UsbThreads are checked directly. RxHandshake has no run of its own: it is checked as the property `RxHandshakeSpec` of `usb_threads`, and MuxChannel as the property `MuxChannelSpec` of `read_size`.

Every run declares `CHECK_DEADLOCK FALSE`, because each system may really stop:
- once the bounds are spent the reactor blocks in `select()`, which is the daemon's idle state;
- in UsbThreads, after `ExitProcess`, past undefined behaviour, or when the device is gone.

| Run | Config | Bounds | Shows |
|---|---|---|---|
| `conn_flow` | `MCMuxFlow.cfg` | 1 client, 1 connect, 4 units each way, host window 3, advertise threshold 2, max payload 2, device window 1 | ≈89k states in under 2 min. Both windows fill and reopen. A client write from a window of 2 or more sends no update, so both branches of the advertise rule are taken. Every teardown path keeps connection and client paired. No buffer overflows. The connect is always answered. |
| `double_close` | `MCMuxDoubleClose.cfg` | 1 client | Violation in 4 steps: connect, SYN\|ACK, then `send()` of the OK result fails in CONNECTING2, and `client_close` → `device_abort_connect` → `connection_teardown` → `client_close` runs again. Upstream clears `conn->client` first; this port does not. |
| `write_after_free` | `MCMuxWriteAfterFree.cfg` | 1 client | Violation: a request sent while a connect is pending makes `client_command` free the client, and `process_recv` then writes `client->ib_size` (`client.cpp:983`). |
| `dev_lifecycle` | `MCDeviceLifecycle.cfg` | 2 listeners, 2 locations (symmetric), 2 device ids | Every preflight path, removal at every point of preflight, and LISTEN at every point: `ListenerSeesVisible` and `CbDataLive` hold. |
| `stale_attach` | `MCDevNoStaleAttach.cfg` | 1 client, 1 location, 1 id | Violation: a device removed while invisible gets no DETACHED. Its preflight thread then sends ATTACHED without checking that the device exists. |
| `lock_inversion` | `MCDevReactorProgress.cfg` | 1 client, 1 location, 1 id | Violation: the pairing event holds the device lock and wants the client lock, while LISTEN holds the client lock and wants the device lock. |
| `version_uaf` | `MCDevNoDeviceUseAfterFree.cfg` | 1 client, 1 location, 1 id | Violation: an unknown version frees `dev` inside `device_process_sockets`, which then uses it. |
| `mux_reassembly` | `MCMuxReassembly.cfg` | `USB_MRU` 2, read 5, `DEV_MRU` 8 (the fork's sizes), packets of 1..8, 3 packets | ≈5k states. Every read and every path of `device_data_input` runs with the read size the code uses, and no read exceeds `rx.buffer`. It checks only the type invariant: with this read size the channel is broken (`read_size`), and `pktbuf` is never filled, because a read starting at a header is `USB_MRU` long only for a packet of exactly `USB_MRU`. |
| `read_size` | `MCMuxReadSize.cfg` | `USB_MRU` 2, read 5, `DEV_MRU` 8 (the scaled 0x4000 / 0x8008 / `DEV_MRU`) | Violation: with the fork's read size, a packet longer than one read is dropped and its tail is parsed as a header. |
| `usb_commands` | `MCPendingCommands.cfg` | 2 locations (symmetric), 1 waiting caller, every configure outcome, 5 events | ≈1.07M states in under 30 s. Notifications, failed reads and requests in every order: `NoDanglingMuxDevice` and `AlwaysMonitorSticky` hold. |
| `monitor_missed` | `MCPendingComesUp.cfg` | 1 location, always configures, 5 events | Violation: a monitored device unplugged and replugged before the callback is registered stays WAITING forever. |
| `usb_threads` | `MCUsbThreads.cfg` | 3 sends, every transfer outcome, turbo on and off, every read and thread-start outcome | ≈250k states in about 1 min. With a disconnect at any point, both threads racing on the pool's tail (until the race leads to undefined behaviour), and the read thread stuck after a failed result, `PoolHoldsIdleOverlapped`, `ReadThreadGoneBeforeClose`, `RxBufferHandedOver`, `QueuedTransferReaped`, `DisconnectEnds` and the refinement `RxHandshakeSpec` hold. |

**Why the bounds are enough**
- **Client and connection (`conn_flow`):** one client and one connection reach every teardown path. Sending 4 units through a host window of 3 and a device window of 1 makes each window fill and reopen, and lets a device that ignored the window overflow `ib_buf`. The host window is larger than the advertise threshold, as in the code (262144 and 0x7FFC): with a window equal to the threshold, every write would start below it and the branch that sends no update would never run.
- **Framing (`mux_reassembly`, `read_size`):** packet lengths up to `DEV_MRU` give packets that fit one read, packets split across two reads, and a tail exactly `USB_MRU` long. Both runs use the fork's read size, not `USB_MRU`: with reads of `USB_MRU` the stitching into `pktbuf` would work and the channel would hold, but that is not this program.
- **Device table (`usb_commands`):** five events let a device be plugged, unplugged and replugged with two requests in between, or let both locations be plugged with a request on each. Six events (12.7M states, over 3 min) find no more errors.
- **Device threads (`usb_threads`):** three sends let an element go around the pool and be reused. They also cover the ZLP case and a disconnect with a transfer still queued. The read thread's state is finite (one outstanding read), so every read outcome, at every point of the disconnect, is reached without a bound.

**Mutants.** Each property of a passing run has a mutant in `PROJECT.json` that TLC shows breaks it. Each mutant is a plausible bug in the code it replaces:

| Run | Mutants |
|---|---|
| `conn_flow` | a sign error and a missing window shrink in `connection_device_input`; `client_close` without `device_abort_connect`; `sendable` computed without the in-flight data; the advertise test made after `tx_win += size`; a refused connection that does not notify its client |
| `dev_lifecycle` | a device id bound off by one; `device_get_list` hiding devices whose preflight still runs; `device_set_preflight_cb_data(id, NULL)` left out |
| `mux_reassembly` | a read one unit too long |
| `usb_commands` | read failures of removed devices kept; a REMOVE that keeps the mux device; a ONCE request that overrides ALWAYS |
| `usb_threads` | a pool `try_dequeue` that tests the front one past the tail; the write thread reusing an element without waiting for its result; `usb_disconnect` going on without waiting for the read thread; the stop check inverted; an INFINITE wait for the read thread; a read thread that starts the next read without waiting for the answer; a `recv` that returns before the answer |

## Hazards left without a property

`PROJECT.json` lists every hazard, at the line where it bites, with the properties that cover it. The hazards with no property yet, each with a note in `PROJECT.json` saying why:

| Where | Hazard |
|---|---|
| `device.cpp:272` | the 16-bit `next_sport` wraps |
| `device.cpp:497` | a CONNECT to a device still in INIT |
| `device.cpp:566` | a client polled only while `sendable > 0` |
| `client.cpp:524` | `start_listen` between the two halves of `client_device_add` |
| `device.cpp:972` | a transfer holding the end of one packet and the start of the next |
| `usb-mce.cpp:168` | the completion event closed by a timed-out waiter and then signalled. Its run was merged away to keep the number of runs small. |
| `usb-mce.cpp:1289` | the shadowed `ret` of `usb_handle_device_monitor_command` |
| `usb-mce.cpp:512` | the ZLP double free |
| `usb-mce.cpp:440` | the pool's enqueue race, after which `try_dequeue` hands out an unassigned element, and `usb_disconnect` deletes the last pooled OVERLAPPED twice |
| `usb-mce.cpp:1473` | a failed configure of an ALWAYS-monitored device, left open and never started |
| `device.cpp:458` | a misparsed header with length 0 making `device_process_sockets` loop forever |
| `usb-mce.cpp:1072` | the write thread's cleanup deleting OVERLAPPEDs still in flight |
| `usb-mce.cpp:880` | the device freed while a timed-out write thread still runs |
| `usb-mce.cpp:860` | a failed `TerminateThread` making `usb_disconnect` return with the port open |
| `usb-mce.cpp:979` | the read thread ending on a failed `usb_start_read` while the device stays ALIVE |
| `conf.cpp:453` | two first callers generating different BUIDs |
| `usbmuxd.cpp:136` | `TerminateThread` of the main thread while it holds a lock, leaving `usb_shutdown` blocked |
| `usb-mce.cpp:74` | `usb_shutdown` dropping queued commands and deleting the queue's lock while the port-change callback is still registered |
| `conf.cpp:497` | a preflight thread deleting a pair record that a client is saving |

## Not modelled

- **Configuration store (`conf.cpp`).**
  - Pair records and the system BUID go through file I/O, with no lock between the reactor and the preflight threads. Two first callers can generate different BUIDs. A preflight thread can also delete a record that `SavePairRecord` is rewriting. Both are listed as hazards. Every property of the store is broken by the code, so each would need a violation run of its own, and the number of runs is already at its limit.
  - `handle_read_pair_record_command` strips the first `-` from the record id, but save and delete do not. A record saved under a dashed id is therefore never read back.
- **Other plist commands:** ListDevices, ReadBUID and the pair-record commands. The client side of AddDevice, RemoveDevice and DeviceMonitor is modelled only as queue producers.
- **Start-up and shutdown** (`usbmuxd_Start`, `usbmuxd_Shutdown`, `usb_shutdown`, `device_shutdown`). Their hazards are listed. Each property of them is broken by the code and would need a violation run of its own.
- **The `USE_PORTDRIVER_SOCKETS` build** of `usb-mce.cpp`.
- **Several devices at once,** including the `g_hTransferresultMutex` that all write threads share.
- **The OUT framing of `send_packet`** beyond its call to `usb_send`, and the 16-bit mux sequence numbers.
- **`device_check_timeouts`:** not an action. `tx_ack` changes only in `device_tcp_input` (`device.cpp:696`, `837`), and each change is followed in the same call by `send_tcp`, which sets `tx_acked` (`device.cpp:309`). So between handler runs the delayed-ACK timer never has work.
- **The Windows and host glue** (`usbmuxdHost`, `dllmain`, `WindowsUtil`, `StringUtil`, `SocketUtil.h`) and the log.
