---------------------------- MODULE RxHandshake ----------------------------
(***************************************************************************)
(* What the read side of an open USB device promises the reactor: the     *)
(* bulk IN transfers into dev->rx.buffer complete one at a time, and a    *)
(* completed transfer is the reactor's until it has processed it; only    *)
(* then may the next one complete into the same buffer.  This is the      *)
(* environment MuxReassembly assumes (its usb_read_complete and           *)
(* device_process_sockets), with the two ways the code leaves it: the     *)
(* reactor may fail to read a result and give the buffer up ("stuck"),    *)
(* and the reading may stop for good ("off").                             *)
(***************************************************************************)

VARIABLE buf    \* "empty", "reading" (a transfer the driver owns), "full"
                \* (a transfer the reactor is to process), "stuck" or "off"

Init == buf = "empty"

\* a transfer into the buffer is started ...
Start == buf = "empty" /\ buf' = "reading"

\* ... completes, and the reactor is told
Complete == buf = "reading" /\ buf' = "full"

\* the reactor processes it and hands the buffer back ...
Process == buf = "full" /\ buf' = "empty"

\* ... or cannot read the result and never hands it back
GiveUp == buf = "full" /\ buf' = "stuck"

\* reading ends: stopped, killed, or a read or a signal that failed
Stop == buf /= "off" /\ buf' = "off"

Next == Start \/ Complete \/ Process \/ GiveUp \/ Stop

Spec == Init /\ [][Next]_buf

====
