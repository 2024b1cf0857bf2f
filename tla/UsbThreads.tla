------------------------------ MODULE UsbThreads ------------------------------
(***************************************************************************)
(* The threads of one open USB device in src/usb-mce.cpp (the build       *)
(* without USE_PORTDRIVER_SOCKETS) and what the reactor does with them.   *)
(*                                                                         *)
(* IN: usb_start_read_thread starts usb_read_thread_proc, which starts a   *)
(* bulk read into dev->rx.buffer and, when it completes, sends one byte to *)
(* the reactor on rx.data_events_socket and blocks in recv for the answer; *)
(* the reactor's device_process_sockets reads the result and answers, and *)
(* only then does the thread start the next read.  The data itself is     *)
(* MuxReassembly's.                                                        *)
(*                                                                         *)
(* OUT: the reactor's usb_send starts an overlapped bulk transfer per mux *)
(* packet, and a zero-length one after a packet that is a multiple of the  *)
(* endpoint's packet size.  Each transfer takes an element {buffer,        *)
(* OVERLAPPED} from dev->tx.pool or allocates a new one.  In turbo mode a  *)
(* pending transfer is handed to the write thread through dev->tx.q; the   *)
(* thread waits for its result and puts the element back in the pool.     *)
(* Without the thread, usb_send waits itself.                              *)
(*                                                                         *)
(* usb_disconnect stops the read thread (its stop event, then a wait that  *)
(* ends in TerminateThread), then the write thread (writeThreadStop and a  *)
(* stop element; if it ended in time, the pool is deleted), then closes    *)
(* the port and frees or resets the device.                                *)
(*                                                                         *)
(* dev->tx.q and dev->tx.pool are moodycamel BlockingReaderWriterQueues:   *)
(* a single-producer, single-consumer queue and a semaphore that enqueue   *)
(* signals after publishing and try_dequeue waits on (without blocking)    *)
(* before taking the front; when the semaphore is taken, try_dequeue       *)
(* returns true whether or not the inner queue had an element.  The pool   *)
(* has two producers (the reactor after a transfer that completed at once, *)
(* the write thread after a result), so its enqueue is split into the two  *)
(* steps that race: read the tail, then write the slot, publish tail + 1   *)
(* and signal.  Two enqueues that read the same tail leave one element and *)
(* two signals.  The queues' other operations, each used by one thread,    *)
(* are atomic.  A try_dequeue that then takes the semaphore of an empty    *)
(* pool leaves its element as it was: usb_send's uninitialised local, or   *)
(* usb_disconnect's last freed one.  What the process does with it is      *)
(* undefined; the model stops there ("undefined").                         *)
(*                                                                         *)
(* An OVERLAPPED is a number 1 .. MaxOv; 0 is the NULL of the stop element *)
(* and of the ZLP buffer.  A packet buffer is the number of its usb_send.  *)
(***************************************************************************)
EXTENDS Integers, Sequences, FiniteSets

CONSTANTS
    MaxSends,     \* bound: usb_send calls of the connection
    Outcomes,     \* what com_plugin_transfer may do: "ok", "pending", "error"
    TurboModes    \* the values port.bTurbo may have

ASSUME /\ MaxSends \in Nat \ {0}
       /\ Outcomes \subseteq {"ok", "pending", "error"}
       /\ TurboModes \subseteq BOOLEAN /\ TurboModes /= {}

MaxOv == 2 * MaxSends       \* each usb_send allocates at most two elements
Ovs == 1 .. MaxOv
Slots == 0 .. MaxOv - 1     \* pool positions: at most MaxOv enqueues
Elem(ov, buf) == [ov |-> ov, buf |-> buf]
Unassigned == -1            \* an element try_dequeue returned without setting
StopElem == Elem(0, 0)

VARIABLES
    turbo,      \* port.bTurbo of the open port
    started,    \* usb_add_pending_device has passed device_add (and the thread start)
    txThread,   \* dev->tx.thread /= NULL
    sent,       \* usb_send calls so far
    nov,        \* OVERLAPPEDs allocated so far (new OVERLAPPED)
    inflight,   \* OVERLAPPEDs whose transfer the driver still owns
    freedOv,    \* OVERLAPPEDs deleted
    bufFrees,   \* number of free() calls on each packet buffer
    q,          \* dev->tx.q
    pslot,      \* dev->tx.pool slots
    pfront,     \* dev->tx.pool front index (consumer)
    ptail,      \* dev->tx.pool tail index (producers)
    psema,      \* dev->tx.pool's semaphore count
    rc,         \* the reactor thread: usb_send and usb_disconnect
    wt,         \* the write thread
    stopEv,     \* dev->tx.writeThreadStop is signalled (auto-reset)
    dev,        \* the usb_device: "alive", "reset" (WAITING) or "freed"
    wts,        \* dev->tx.writeThreadStop has been created
    rx,         \* the read thread: "none" (not created), "start", "wait"
                \* (WaitForMultipleObjects), "recv" (for the answer), "ended"
    rxStop,     \* dev->rx.thread_stop_event is signalled (auto-reset)
    rxSig,      \* the read thread's byte, not yet read by the reactor
    rxAns       \* the reactor's answer byte, not yet read by the read thread

rxVars == <<rx, rxStop, rxSig, rxAns>>
vars == <<turbo, started, txThread, sent, nov, inflight, freedOv, bufFrees,
          q, pslot, pfront, ptail, psema, psema, rc, wt, stopEv, dev, wts, rxVars>>

PoolOvs == {pslot[i] : i \in {j \in Slots : pfront <= j /\ j < ptail}}

\* free(e.buffer) of ReUseTXQElement and of send_packet's failure path
FreeBuf(b) == IF b = 0 THEN bufFrees ELSE [bufFrees EXCEPT ![b] = @ + 1]

-----------------------------------------------------------------------------
(* usb_send, on the reactor                                                *)

GetTXQElement_empty(b) ==
    IF pfront <= ptail
    THEN [e |-> Elem(pslot[pfront], b), pfront |-> pfront + 1, nov |-> nov,
          psema |-> psema - 1]
    ELSE [e |-> Elem(nov + 1, b), pfront |-> pfront, nov |-> nov + 1, psema |-> psema]

\* GetTXQElement: try_dequeue the pool, else a new OVERLAPPED; with the
\* semaphore taken and the inner queue empty, e stays unassigned
GetTXQElement(b) ==
    CASE psema = 0 ->
           [e |-> Elem(nov + 1, b), pfront |-> pfront, nov |-> nov + 1, psema |-> 0]
      [] pfront < ptail ->
           [e |-> Elem(pslot[pfront], b), pfront |-> pfront + 1, nov |-> nov,
            psema |-> psema - 1]
      [] OTHER ->
           [e |-> Elem(Unassigned, b), pfront |-> pfront, nov |-> nov, psema |-> psema - 1]

\* one transfer of usb_send: the data (zlp = FALSE) or the zero-length packet;
\* more: a ZLP is still due after the data
Transfer(b, zlp, more, o) ==
    LET g == GetTXQElement(IF zlp THEN 0 ELSE b)
        e == g.e
        after == IF more THEN "zlp" ELSE "idle"
    IN /\ pfront' = g.pfront /\ nov' = g.nov /\ psema' = g.psema
       /\ IF e.ov = Unassigned
          THEN \* com_plugin_transfer with an indeterminate OVERLAPPED
               /\ rc' = [rc EXCEPT !.pc = "undefined"]
               /\ UNCHANGED <<inflight, q, bufFrees, freedOv>>
          ELSE \/ \* completed at once: ReUseTXQElement
                  /\ o = "ok"
                  /\ bufFrees' = FreeBuf(e.buf)
                  /\ rc' = [pc |-> "reuse", el |-> e, b |-> b, more |-> more, ret |-> 0, k |-> ptail]
                  /\ UNCHANGED <<inflight, q, freedOv>>
               \/ \* pending, the write thread will wait for it
                  /\ o = "pending" \/ (zlp /\ o = "error")
                  /\ txThread
                  /\ inflight' = IF o = "pending" THEN inflight \cup {e.ov} ELSE inflight
                  /\ q' = Append(q, e)
                  /\ rc' = [rc EXCEPT !.pc = after, !.b = b, !.more = FALSE]
                  /\ UNCHANGED <<bufFrees, freedOv>>
               \/ \* pending without the thread: usb_send waits for the result
                  /\ o = "pending" \/ (zlp /\ o = "error")
                  /\ ~txThread
                  /\ inflight' = IF o = "pending" THEN inflight \cup {e.ov} ELSE inflight
                  /\ rc' = [pc |-> "wait", el |-> e, b |-> b, more |-> more,
                            ret |-> IF o = "error" THEN -1 ELSE 0, k |-> 0]
                  /\ UNCHANGED <<q, bufFrees, freedOv>>
               \/ \* the data transfer failed: ExitProcess(1)
                  /\ o = "error" /\ ~zlp
                  /\ rc' = [rc EXCEPT !.pc = "exited"]
                  /\ UNCHANGED <<inflight, q, bufFrees, freedOv>>

\* send_packet -> usb_send of a mux packet; full: its length is a multiple
\* of tx_max_packet_size.  The first one is device_add's VERSION request.
usb_send(full, o) ==
    /\ rc.pc = "idle" /\ dev = "alive"
    /\ sent < MaxSends /\ (started \/ sent = 0)
    /\ sent' = sent + 1
    /\ Transfer(sent + 1, FALSE, full, o)
    /\ UNCHANGED <<wts, rxVars, turbo, started, txThread, pslot, ptail, wt, stopEv, dev>>

\* the zero-length packet, after a data transfer that did not fail
usb_send_zlp(o) ==
    /\ rc.pc = "zlp"
    /\ Transfer(rc.b, TRUE, FALSE, o)
    /\ UNCHANGED <<wts, rxVars, turbo, started, txThread, sent, pslot, ptail, wt, stopEv, dev>>

\* com_plugin_get_transfer_result(..., TRUE) on the reactor, then
\* ReUseTXQElement; a failed ZLP result makes usb_send return -1
usb_send_wait ==
    /\ rc.pc = "wait" /\ rc.el.ov \notin inflight
    /\ bufFrees' = FreeBuf(rc.el.buf)
    /\ rc' = [rc EXCEPT !.pc = "reuse", !.k = ptail]
    /\ UNCHANGED <<wts, rxVars, turbo, started, txThread, sent, nov, inflight, freedOv, q,
                   pslot, pfront, ptail, psema, wt, stopEv, dev>>

\* the second step of the reactor's pool.enqueue; then usb_send goes on with
\* the ZLP or returns, and send_packet frees the buffer when it returns -1
usb_send_reuse ==
    /\ rc.pc = "reuse"
    /\ pslot' = [pslot EXCEPT ![rc.k] = rc.el.ov]
    /\ ptail' = rc.k + 1 /\ psema' = psema + 1
    /\ bufFrees' = IF rc.ret < 0 THEN FreeBuf(rc.b) ELSE bufFrees
    /\ rc' = [rc EXCEPT !.pc = IF rc.more THEN "zlp" ELSE "idle", !.more = FALSE]
    /\ UNCHANGED <<wts, rxVars, turbo, started, txThread, sent, nov, inflight, freedOv, q,
                   pfront, wt, stopEv, dev>>

\* usb_add_pending_device after device_add: usb_start_read_thread connects
\* rx.data_events_socket, sends the device id and starts the read thread.
\* Should any of it fail, lblCleanup calls usb_disconnect, which finds no
\* thread of either kind and closes the port.
usb_start_read_thread ==
    /\ rc.pc = "idle" /\ ~started /\ sent = 1 /\ dev = "alive"
    /\ \/ /\ rx' = "start"
          /\ rc' = [rc EXCEPT !.pc = "start_wt"]
       \/ /\ rc' = [rc EXCEPT !.pc = "close"]
          /\ UNCHANGED rx
    /\ UNCHANGED <<turbo, started, txThread, sent, nov, inflight, freedOv,
                   bufFrees, q, pslot, pfront, ptail, psema, wt, stopEv, dev, wts,
                   rxStop, rxSig, rxAns>>

\* then, in turbo mode only, usb_start_write_thread: CreateEventA of
\* writeThreadStop and the thread; if the thread cannot be created,
\* lblCleanup calls usb_disconnect with the read thread running
usb_start_write_thread ==
    /\ rc.pc = "start_wt"
    /\ \/ /\ ~turbo
          /\ started' = TRUE
          /\ rc' = [rc EXCEPT !.pc = "idle"]
          /\ UNCHANGED <<txThread, wt, wts, rxStop>>
       \/ /\ turbo /\ wts' = TRUE
          /\ started' = TRUE /\ txThread' = TRUE
          /\ wt' = [wt EXCEPT !.pc = "wait"]
          /\ rc' = [rc EXCEPT !.pc = "idle"]
          /\ UNCHANGED rxStop
       \/ /\ turbo /\ wts' = TRUE
          /\ rxStop' = TRUE
          /\ rc' = [rc EXCEPT !.pc = "rx_wait"]
          /\ UNCHANGED <<started, txThread, wt>>
    /\ UNCHANGED <<turbo, sent, nov, inflight, freedOv, bufFrees, q, pslot,
                   pfront, ptail, psema, stopEv, dev, rx, rxSig, rxAns>>

-----------------------------------------------------------------------------
(* usb_write_thread_proc                                                   *)

\* dev->tx.q.wait_dequeue(e)
wt_dequeue ==
    /\ wt.pc = "wait" /\ q /= <<>>
    /\ wt' = [wt EXCEPT !.pc = "got", !.el = Head(q)]
    /\ q' = Tail(q)
    /\ UNCHANGED <<wts, rxVars, turbo, started, txThread, sent, nov, inflight, freedOv,
                   bufFrees, pslot, pfront, ptail, psema, rc, stopEv, dev>>

wt_check_stop_inverted ==
    /\ wt.pc = "got"
    /\ stopEv' = FALSE
    /\ wt' = [wt EXCEPT !.pc = IF ~stopEv THEN "cleanup"
                               ELSE IF wt.el.ov = 0 THEN "wait" ELSE "result"]
    /\ UNCHANGED <<wts, rxVars, turbo, started, txThread, sent, nov, inflight, freedOv,
                   bufFrees, q, pslot, pfront, ptail, psema, rc, dev>>

\* WaitForSingleObject(writeThreadStop, 0): when signalled the thread
\* leaves its loop with the element it holds
wt_check_stop ==
    /\ wt.pc = "got"
    /\ stopEv' = FALSE
    /\ wt' = [wt EXCEPT !.pc = IF stopEv THEN "cleanup"
                               ELSE IF wt.el.ov = 0 THEN "wait" ELSE "result"]
    /\ UNCHANGED <<wts, rxVars, turbo, started, txThread, sent, nov, inflight, freedOv,
                   bufFrees, q, pslot, pfront, ptail, psema, rc, dev>>

wt_result_nowait ==
    /\ wt.pc = "result"
    /\ bufFrees' = FreeBuf(wt.el.buf)
    /\ wt' = [wt EXCEPT !.pc = "reuse", !.k = ptail]
    /\ UNCHANGED <<wts, rxVars, turbo, started, txThread, sent, nov, inflight, freedOv, q,
                   pslot, pfront, ptail, psema, rc, stopEv, dev>>

\* com_plugin_get_transfer_result(..., TRUE) returns once the driver is done
\* with the transfer; ReUseTXQElement frees the buffer and starts the enqueue
wt_result ==
    /\ wt.pc = "result" /\ wt.el.ov \notin inflight
    /\ bufFrees' = FreeBuf(wt.el.buf)
    /\ wt' = [wt EXCEPT !.pc = "reuse", !.k = ptail]
    /\ UNCHANGED <<wts, rxVars, turbo, started, txThread, sent, nov, inflight, freedOv, q,
                   pslot, pfront, ptail, psema, rc, stopEv, dev>>

\* the second step of the write thread's pool.enqueue
wt_reuse ==
    /\ wt.pc = "reuse"
    /\ pslot' = [pslot EXCEPT ![wt.k] = wt.el.ov]
    /\ ptail' = wt.k + 1 /\ psema' = psema + 1
    /\ wt' = [wt EXCEPT !.pc = "wait"]
    /\ UNCHANGED <<wts, rxVars, turbo, started, txThread, sent, nov, inflight, freedOv,
                   bufFrees, q, pfront, rc, stopEv, dev>>

\* after the loop: free the buffer and delete the OVERLAPPED of every
\* element left in the queue
wt_cleanup ==
    /\ wt.pc = "cleanup"
    /\ LET rest == {q[i] : i \in 1 .. Len(q)}
       IN /\ freedOv' = freedOv \cup ({e.ov : e \in rest} \ {0})
          /\ bufFrees' = [b \in DOMAIN bufFrees |->
                             bufFrees[b] + Cardinality({i \in 1 .. Len(q) : q[i].buf = b})]
    /\ q' = <<>>
    /\ wt' = [wt EXCEPT !.pc = "exited"]
    /\ UNCHANGED <<wts, rxVars, turbo, started, txThread, sent, nov, inflight, pslot,
                   pfront, ptail, psema, rc, stopEv, dev>>

-----------------------------------------------------------------------------------------------------------------------------------------------------
(* usb_read_thread_proc and its handshake with the reactor                 *)

\* the first usb_start_read; a transfer that fails at once (not
\* ERROR_IO_PENDING) ends the thread
rx_begin ==
    /\ rx = "start"
    /\ \E ok \in BOOLEAN : rx' = IF ok THEN "wait" ELSE "ended"
    /\ UNCHANGED <<rxStop, rxSig, rxAns>>

\* WaitForMultipleObjects returns the stop event, the lower index when both
\* are signalled
rx_stop ==
    /\ rx = "wait" /\ rxStop
    /\ rx' = "ended" /\ rxStop' = FALSE
    /\ UNCHANGED <<rxSig, rxAns>>

rx_data_nowait ==
    /\ rx = "wait" /\ ~rxStop
    /\ \/ rx' = "wait" /\ rxSig' = TRUE
       \/ rx' = "ended" /\ UNCHANGED rxSig
    /\ UNCHANGED <<rxStop, rxAns>>

\* the read transfer completes (the device sent data, or the transfer
\* failed): send the byte to the reactor and block in recv; a failed send
\* ends the thread
rx_data ==
    /\ rx = "wait" /\ ~rxStop
    /\ \/ rx' = "recv" /\ rxSig' = TRUE
       \/ rx' = "ended" /\ UNCHANGED rxSig
    /\ UNCHANGED <<rxStop, rxAns>>

rx_answer_noans ==
    /\ rx = "recv"
    /\ rxAns' = FALSE
    /\ \E ok \in BOOLEAN : rx' = IF ok THEN "wait" ELSE "ended"
    /\ UNCHANGED <<rxStop, rxSig>>

\* the answer arrives: start another read into the same buffer; if it
\* fails at once the thread ends
rx_answer ==
    /\ rx = "recv" /\ rxAns
    /\ rxAns' = FALSE
    /\ \E ok \in BOOLEAN : rx' = IF ok THEN "wait" ELSE "ended"
    /\ UNCHANGED <<rxStop, rxSig>>

\* usb_get_read_result: whether rx.data_size is known, or
\* com_plugin_get_transfer_result succeeds (it fails for a transfer that
\* failed; usb_handle_port_failure is PendingCommands')
usb_get_read_result == BOOLEAN

\* device_process_sockets on the reactor: recv the byte, then
\* usb_get_read_result; a failed result (usb_handle_port_failure queues a
\* REMOVE for some errors) skips the data and the answer
device_process_sockets ==
    /\ rc.pc = "idle" /\ dev = "alive" /\ rxSig
    /\ rxSig' = FALSE
    /\ \E ok \in usb_get_read_result : rxAns' = ok
    /\ UNCHANGED <<rx, rxStop>>

-----------------------------------------------------------------------------
(* usb_disconnect, on the reactor                                          *)

\* the write thread's part: if writeThreadStop was created, SetEvent it and
\* enqueue the stop element, then wait for the thread; else close the port
TxStop ==
    IF wts
    THEN /\ stopEv' = TRUE
         /\ q' = Append(q, StopElem)
         /\ rc' = [rc EXCEPT !.pc = "disc_wait"]
    ELSE /\ rc' = [rc EXCEPT !.pc = "close"]
         /\ UNCHANGED <<stopEv, q>>

\* usb_disconnect: if the read thread was created, SetEvent its stop event
\* and wait for it
usb_disconnect ==
    /\ rc.pc = "idle" /\ dev = "alive"
    /\ IF rx /= "none"
       THEN /\ rxStop' = TRUE
            /\ rc' = [rc EXCEPT !.pc = "rx_wait"]
            /\ UNCHANGED <<stopEv, q>>
       ELSE /\ TxStop /\ UNCHANGED rxStop
    /\ UNCHANGED <<turbo, started, txThread, sent, nov, inflight, freedOv,
                   bufFrees, pslot, pfront, ptail, psema, wt, dev, wts, rx, rxSig, rxAns>>

disc_rx_ended_nowait ==
    /\ rc.pc = "rx_wait"
    /\ TxStop
    /\ UNCHANGED <<turbo, started, txThread, sent, nov, inflight, freedOv,
                   bufFrees, pslot, pfront, ptail, psema, wt, dev, wts, rxVars>>

\* WaitForSingleObject(rx.thread, READ_THREAD_SHUTDOWN_TIMEOUT) returns
\* WAIT_OBJECT_0
disc_rx_ended ==
    /\ rc.pc = "rx_wait" /\ rx = "ended"
    /\ TxStop
    /\ UNCHANGED <<turbo, started, txThread, sent, nov, inflight, freedOv,
                   bufFrees, pslot, pfront, ptail, psema, wt, dev, wts, rxVars>>

disc_rx_timeout_infinite ==
    /\ rc.pc = "rx_wait" /\ rx \in {"start", "wait", "recv"} /\ FALSE
    /\ UNCHANGED vars

\* the wait times out (the thread is blocked in recv for an answer the
\* reactor, now in usb_disconnect, will not send): TerminateThread; if that
\* fails, usb_disconnect returns at once, with the threads running and the
\* port open
disc_rx_timeout ==
    /\ rc.pc = "rx_wait" /\ rx \in {"start", "wait", "recv"}
    /\ \/ /\ rx' = "ended"
          /\ TxStop
       \/ /\ rc' = [rc EXCEPT !.pc = "abandoned"]
          /\ UNCHANGED <<rx, stopEv, q>>
    /\ UNCHANGED <<turbo, started, txThread, sent, nov, inflight, freedOv,
                   bufFrees, pslot, pfront, ptail, psema, wt, dev, wts, rxStop, rxSig, rxAns>>

\* the write thread was never created: WaitForSingleObject(NULL) fails at
\* once and the pool is left alone
disc_wait_failed ==
    /\ rc.pc = "disc_wait" /\ ~txThread
    /\ rc' = [rc EXCEPT !.pc = "close"]
    /\ UNCHANGED <<wts, rxVars, turbo, started, txThread, sent, nov, inflight,
                   freedOv, bufFrees, q, pslot, pfront, ptail, psema, wt, stopEv, dev>>

\* WaitForSingleObject(tx.thread, 5000) returns WAIT_OBJECT_0: delete the
\* OVERLAPPEDs in the pool, one try_dequeue per signal; a signal more than
\* there are elements deletes freePoll again (the last OVERLAPPED deleted,
\* or an uninitialised pointer)
disc_thread_ended ==
    /\ rc.pc = "disc_wait" /\ wt.pc = "exited"
    /\ freedOv' = freedOv \cup PoolOvs
    /\ pfront' = ptail /\ psema' = 0
    /\ rc' = [rc EXCEPT !.pc = IF psema > ptail - pfront THEN "undefined" ELSE "close"]
    /\ UNCHANGED <<wts, rxVars, turbo, started, txThread, sent, nov, inflight, bufFrees, q,
                   pslot, ptail, wt, stopEv, dev>>

\* the wait times out: the thread is still blocked on a transfer the device
\* does not complete; usb_disconnect carries on without the pool
disc_timeout ==
    /\ rc.pc = "disc_wait"
    /\ wt.pc = "result" /\ wt.el.ov \in inflight
    /\ rc' = [rc EXCEPT !.pc = "close"]
    /\ UNCHANGED <<wts, rxVars, turbo, started, txThread, sent, nov, inflight, freedOv,
                   bufFrees, q, pslot, pfront, ptail, psema, wt, stopEv, dev>>

\* com_plugin_close cancels the pending transfers; then usb_free_device
\* (manual removal or DISABLE) or the reset to WAITING
disc_close ==
    /\ rc.pc = "close"
    /\ inflight' = {}
    /\ \E free \in BOOLEAN : dev' = IF free THEN "freed" ELSE "reset"
    /\ rc' = [rc EXCEPT !.pc = "gone"]
    /\ UNCHANGED <<wts, rxVars, turbo, started, txThread, sent, nov, freedOv, bufFrees, q,
                   pslot, pfront, ptail, psema, wt, stopEv>>

\* the device takes a pending OUT transfer (environment)
usb_transfer_complete(o) ==
    /\ o \in inflight
    /\ inflight' = inflight \ {o}
    /\ UNCHANGED <<wts, rxVars, turbo, started, txThread, sent, nov, freedOv, bufFrees, q,
                   pslot, pfront, ptail, psema, rc, wt, stopEv, dev>>

-----------------------------------------------------------------------------

\* the port was opened by usb_add_pending_device; device_add is about to
\* send the VERSION request
Init ==
    /\ turbo \in TurboModes
    /\ started = FALSE /\ txThread = FALSE
    /\ sent = 0 /\ nov = 0
    /\ inflight = {} /\ freedOv = {}
    /\ bufFrees = [b \in 1 .. MaxSends |-> 0]
    /\ q = <<>>
    /\ pslot = [i \in Slots |-> 0] /\ pfront = 0 /\ ptail = 0 /\ psema = 0
    /\ rc = [pc |-> "idle", el |-> StopElem, b |-> 0, more |-> FALSE, ret |-> 0, k |-> 0]
    /\ wt = [pc |-> "none", el |-> StopElem, k |-> 0]
    /\ stopEv = FALSE
    /\ dev = "alive"
    /\ wts = FALSE
    /\ rx = "none" /\ rxStop = FALSE /\ rxSig = FALSE /\ rxAns = FALSE

\* the reactor's part of the read handshake; the read thread's state is its own
ReactorRead ==
    /\ device_process_sockets
    /\ UNCHANGED <<turbo, started, txThread, sent, nov, inflight, freedOv,
                   bufFrees, q, pslot, pfront, ptail, psema, rc, wt, stopEv, dev, wts>>

ReadThreadOwn == rx_begin \/ rx_stop \/ rx_answer

\* usb_read_thread_proc; rx_data waits for the device
ReadThread ==
    /\ ReadThreadOwn \/ rx_data
    /\ UNCHANGED <<turbo, started, txThread, sent, nov, inflight, freedOv,
                   bufFrees, q, pslot, pfront, ptail, psema, rc, wt, stopEv, dev, wts>>

\* the steps of a usb_send or usb_disconnect under way
ReactorSteps ==
    \/ \E o \in Outcomes : usb_send_zlp(o)
    \/ usb_send_wait \/ usb_send_reuse \/ usb_start_read_thread
    \/ usb_start_write_thread
    \/ disc_rx_ended \/ disc_rx_timeout \/ disc_wait_failed
    \/ disc_thread_ended \/ disc_timeout \/ disc_close
    \/ ReactorRead

\* the device layer sends a packet, or usb_process handles the device's removal
Reactor ==
    \/ \E full \in BOOLEAN, o \in Outcomes : usb_send(full, o)
    \/ usb_disconnect
    \/ ReactorSteps

WriteThread ==
    wt_dequeue \/ wt_check_stop \/ wt_result \/ wt_reuse \/ wt_cleanup

\* ExitProcess(1) ends every thread; past undefined behaviour nothing is modelled
Next == /\ rc.pc \notin {"exited", "undefined"}
        /\ Reactor \/ WriteThread \/ ReadThread \/ \E o \in Ovs : usb_transfer_complete(o)

\* Both threads are scheduled and a call under way completes; whether more
\* packets are sent and whether the device is removed is up to the device
\* layer and the user.  The device takes the OUT transfers it is sent.
Spec == Init /\ [][Next]_vars /\ WF_vars(ReactorSteps) /\ WF_vars(WriteThread)
        /\ WF_vars(ReadThreadOwn /\ UNCHANGED <<turbo, started, txThread, sent,
               nov, inflight, freedOv, bufFrees, q, pslot, pfront, ptail, psema, rc, wt,
               stopEv, dev, wts>>)
        /\ \A o \in Ovs : WF_vars(usb_transfer_complete(o))

-----------------------------------------------------------------------------
(* Properties                                                              *)

Elems == [ov : 0 .. MaxOv, buf : 0 .. MaxSends]

TypeOK ==
    /\ turbo \in BOOLEAN /\ started \in BOOLEAN /\ txThread \in BOOLEAN
    /\ sent \in 0 .. MaxSends /\ nov \in 0 .. MaxOv
    /\ inflight \subseteq 1 .. nov /\ freedOv \subseteq 1 .. nov
    /\ bufFrees \in [1 .. MaxSends -> Nat]
    /\ q \in Seq(Elems)
    /\ pslot \in [Slots -> 0 .. MaxOv] /\ pfront \in 0 .. MaxOv /\ ptail \in 0 .. MaxOv
    /\ psema \in 0 .. MaxOv
    /\ rc.pc \in {"idle", "zlp", "wait", "reuse", "exited", "disc_wait", "close", "gone",
                  "start_wt", "rx_wait", "abandoned", "undefined"}
    /\ rc.el \in Elems /\ rc.k \in Slots \cup {0}
    /\ wt.pc \in {"none", "wait", "got", "result", "reuse", "cleanup", "exited"}
    /\ wt.el \in Elems /\ wt.k \in Slots \cup {0}
    /\ stopEv \in BOOLEAN /\ dev \in {"alive", "reset", "freed"}
    /\ wts \in BOOLEAN /\ rx \in {"none", "start", "wait", "recv", "ended"}
    /\ rxStop \in BOOLEAN /\ rxSig \in BOOLEAN /\ rxAns \in BOOLEAN

\* GetTXQElement only ever takes an OVERLAPPED that is allocated, not
\* deleted and not owned by a transfer the driver still has: an element goes
\* back to the pool only after its result, on either thread, even when the
\* reactor and the write thread race on the pool's tail.
PoolHoldsIdleOverlapped ==
    \A o \in PoolOvs : o \in 1 .. nov /\ o \notin inflight \cup freedOv

InQueue(o) == \E i \in 1 .. Len(q) : q[i].ov = o
Stopping == rc.pc \in {"disc_wait", "close", "gone", "exited", "undefined"}

\* usb_disconnect closes the port (com_plugin_close, the data events socket)
\* and frees or resets the device only after the read thread has ended on
\* its stop event or been killed by TerminateThread: the thread never reads
\* into a closed port or a freed rx.buffer.
ReadThreadGoneBeforeClose ==
    rc.pc \in {"close", "gone"} => rx \in {"none", "ended"}

\* rx.buffer is handed back and forth by the one-byte handshake: from the
\* read thread's send until the reactor's answer, device_process_sockets
\* owns the data, and the thread is blocked in recv (or has been killed); it
\* never starts the next usb_start_read into the buffer the reactor is
\* still to read.
RxBufferHandedOver ==
    (rxSig \/ rxAns) => rx \in {"recv", "ended"}

\* the state of dev->rx.buffer the handshake stands for
RxBuf ==
    CASE rx = "ended"           -> "off"
      [] rx = "wait"            -> "reading"
      [] rx = "recv" /\ rxSig   -> "full"
      [] rx = "recv" /\ rxAns   -> "empty"
      [] rx = "recv"            -> "stuck"
      [] OTHER                  -> "empty"

\* The read thread and device_process_sockets implement RxHandshake: a
\* transfer is started into rx.buffer only after the reactor has processed
\* the previous one, whatever order the thread's steps, the reactor's, a
\* failed result and usb_disconnect's stop and TerminateThread come in.
Handshake == INSTANCE RxHandshake WITH buf <- RxBuf

RxHandshakeSpec == Handshake!Spec

\* Once the reactor has begun usb_disconnect it gets through it: the waits
\* for the read and write threads end, by the thread ending or by the
\* timeout, even when the read thread is blocked in recv for an answer that
\* device_process_sockets never sent after a failed read result (or it
\* deletes the pool into undefined behaviour, where the model stops).
DisconnectEnds ==
    rc.pc \in {"rx_wait", "disc_wait", "close"} ~> rc.pc \in {"gone", "abandoned", "undefined"}

\* A transfer handed to the write thread through dev->tx.q is eventually
\* taken and its result collected, unless the device is being disconnected
\* (or the process has exited).
QueuedTransferReaped ==
    \A o \in Ovs :
        InQueue(o) ~> ((~InQueue(o) /\ ~(wt.pc \in {"got", "result"} /\ wt.el.ov = o))
                       \/ Stopping)

====
