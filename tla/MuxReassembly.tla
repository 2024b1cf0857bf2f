---------------------------- MODULE MuxReassembly ----------------------------
(***************************************************************************)
(* The host side of mux framing on the USB IN direction: the read thread  *)
(* of src/usb-mce.cpp completes one bulk transfer at a time into          *)
(* dev->rx.buffer, and the reactor's device_process_sockets feeds it to   *)
(* device_data_input (src/device.cpp) until the transfer is consumed,     *)
(* stitching packets split across transfers in dev->pktbuf.  The read     *)
(* thread starts the next transfer only after the reactor's one-byte      *)
(* answer, so transfers are processed one at a time, in order.            *)
(*                                                                         *)
(* Bytes are units; a unit is named by its packet (position in the       *)
(* device's write order) and its offset, so that what the parser reads   *)
(* as a header is known.  The sizes are scaled down but keep their order: *)
(* USB_MRU < DEVICE_RX_BUFFER_SIZE < DEV_MRU, and the read size is not a  *)
(* multiple of USB_MRU (0x8008 = 2 * 16384 + 8).                          *)
(*                                                                         *)
(* The device is the environment.  It writes each mux packet on its own,  *)
(* ending the write with a short packet, so a bulk read completes with    *)
(* the read size or with the end of the write, whichever comes first.     *)
(***************************************************************************)
EXTENDS Naturals, Sequences, FiniteSetsExt

CONSTANTS
    USB_MRU,                \* the transfer size the reassembly tests for
    DEVICE_RX_BUFFER_SIZE,  \* the size of each bulk read (usb_start_read)
    DEV_MRU,                \* the size of dev->pktbuf
    PktLens,                \* the lengths a device packet may have
    NPackets                \* bound: packets the device writes

ASSUME /\ {USB_MRU, DEVICE_RX_BUFFER_SIZE, DEV_MRU, NPackets} \subseteq Nat \ {0}
       /\ PktLens \subseteq 1 .. DEV_MRU

VARIABLES
    sent,       \* lengths of the packets the device has written
    wire,       \* the units of each write not yet read, in write order
    rx,         \* dev->rx.buffer holding a completed transfer (<<>>: read pending)
    pktbuf,     \* dev->pktbuf[0 .. pktlen-1]
    delivered   \* packets handed to the protocol handlers (0: not a packet)

vars == <<sent, wire, rx, pktbuf, delivered>>

Unit(k, j) == [k |-> k, j |-> j]

\* mhdr = (struct mux_header *)b: only the first unit of a packet is a header
Header(b) == b[1].j = 1
MhdrLength(b) == IF Header(b) THEN sent[b[1].k] ELSE 0

\* the first len units of b are the whole of one packet
Intact(b, len) == len <= Len(b) /\ \A j \in 1 .. len : b[j] = Unit(b[1].k, j)

-----------------------------------------------------------------------------
(* device_data_input                                                       *)

\* the protocol switch after the size check; a header read from the middle
\* of a packet has an unknown protocol, and the rest of the buffer is dropped
Dispatch(st, b) ==
    LET len == MhdrLength(b) IN
    IF ~Header(b)
    THEN [s |-> [st EXCEPT !.delivered = Append(@, 0)], n |-> Len(b)]
    ELSE IF len > Len(b)
    THEN [s |-> st, n |-> Len(b)]
    ELSE [s |-> [st EXCEPT !.delivered = Append(@, IF Intact(b, len) THEN b[1].k ELSE 0)],
          n |-> IF len < Len(b) THEN len ELSE Len(b)]

\* a continuation completes the packet
Gathered(length, full) == length < USB_MRU \/ MhdrLength(full) = Len(full)

\* buffer = dev->pktbuf; length += dev->pktlen; dev->pktlen = 0
GatherInto(st, full) == [st EXCEPT !.pktbuf = <<>>]

\* one call: returns the new state and the length it reports consumed
device_data_input(st, b) ==
    LET length == Len(b) IN
    IF length = 0 \/ length > DEV_MRU THEN [s |-> st, n |-> length]
    ELSE IF st.pktbuf /= <<>>
    THEN IF length + Len(st.pktbuf) > DEV_MRU
         THEN [s |-> [st EXCEPT !.pktbuf = <<>>], n |-> length]
         ELSE LET full == st.pktbuf \o b IN
              IF Gathered(length, full)
              THEN Dispatch(GatherInto(st, full), full)
              ELSE [s |-> [st EXCEPT !.pktbuf = full], n |-> length]
    ELSE IF length = USB_MRU /\ length < MhdrLength(b)
    THEN [s |-> [st EXCEPT !.pktbuf = b], n |-> length]
    ELSE Dispatch(st, b)

\* the while loop of device_process_sockets over one transfer
RECURSIVE ProcessFrom(_, _, _)
ProcessFrom(st, buf, done) ==
    IF done >= Len(buf) THEN st
    ELSE LET r == device_data_input(st, SubSeq(buf, done + 1, Len(buf)))
         IN ProcessFrom(r.s, buf, done + r.n)

-----------------------------------------------------------------------------

Init == sent = <<>> /\ wire = <<>> /\ rx = <<>> /\ pktbuf = <<>> /\ delivered = <<>>

\* the device writes one mux packet (environment)
device_write(len) ==
    /\ Len(sent) < NPackets
    /\ sent' = Append(sent, len)
    /\ wire' = Append(wire, [j \in 1 .. len |-> Unit(Len(sent) + 1, j)])
    /\ UNCHANGED <<rx, pktbuf, delivered>>

ReadSize_overrun(w) == Min({DEVICE_RX_BUFFER_SIZE + 1, Len(w)})

\* a transfer reads at most DEVICE_RX_BUFFER_SIZE of the write in progress
ReadSize(w) == Min({DEVICE_RX_BUFFER_SIZE, Len(w)})

\* the read thread's transfer completes into dev->rx.buffer (usb_start_read,
\* then the wait in usb_read_thread_proc and its signal to the reactor)
usb_read_complete ==
    /\ rx = <<>> /\ wire /= <<>>
    /\ LET w == Head(wire)
           n == ReadSize(w)
       IN /\ rx' = SubSeq(w, 1, n)
          /\ wire' = IF n = Len(w) THEN Tail(wire)
                     ELSE [wire EXCEPT ![1] = SubSeq(w, n + 1, Len(w))]
    /\ UNCHANGED <<sent, pktbuf, delivered>>

\* the reactor takes the signal, reads the result (usb_get_read_result),
\* feeds it to device_data_input and answers; only then does the read
\* thread start the next transfer into the same buffer
device_process_sockets ==
    /\ rx /= <<>>
    /\ LET next == ProcessFrom([pktbuf |-> pktbuf, delivered |-> delivered], rx, 0)
       IN /\ pktbuf' = next.pktbuf
          /\ delivered' = next.delivered
    /\ rx' = <<>>
    /\ UNCHANGED <<sent, wire>>

Next == (\E len \in PktLens : device_write(len)) \/ usb_read_complete \/ device_process_sockets

\* the bus completes a pending read of available data, and the reactor serves
\* the device's event socket
Spec == Init /\ [][Next]_vars /\ WF_vars(usb_read_complete) /\ WF_vars(device_process_sockets)

-----------------------------------------------------------------------------
(* Properties                                                              *)

Units == [k : 1 .. NPackets, j : 1 .. DEV_MRU]

TypeOK ==
    /\ sent \in Seq(PktLens) /\ Len(sent) <= NPackets
    /\ wire \in Seq(Seq(Units))
    /\ rx \in Seq(Units) /\ Len(rx) <= DEVICE_RX_BUFFER_SIZE
    /\ pktbuf \in Seq(Units) /\ Len(pktbuf) <= DEV_MRU
    /\ delivered \in Seq(0 .. NPackets)

\* The framing implements the packet channel of MuxChannel: every packet
\* the device writes reaches the protocol handlers whole, once, in order.
\* With the fork's read size it does not (the read_size run).
Channel == INSTANCE MuxChannel WITH recvd <- delivered

MuxChannelSpec == Channel!Spec

=============================================================================
