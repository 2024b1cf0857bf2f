--------------------------- MODULE MuxConnection ---------------------------
(***************************************************************************)
(* The virtual TCP connections that usbmuxd multiplexes over one device   *)
(* (src/device.cpp) and the client sessions that own them                 *)
(* (src/client.cpp), as driven by the single reactor thread              *)
(* (src/usbmuxd.cpp, MainThreadProc).  Every handler runs to completion   *)
(* on that thread, so each is one atomic action; the order in which the   *)
(* reactor serves sockets is free.                                        *)
(*                                                                         *)
(* The device-side TCP endpoint (on the phone) is not code of this        *)
(* repository: it is the environment, a peer that answers a SYN, honours *)
(* the window it is given, consumes data and may reset.  The USB bulk     *)
(* pipes are reliable and ordered, so both directions are FIFO sequences. *)
(*                                                                         *)
(* Data is counted in payload units; only lengths matter to the control.  *)
(* send_tcp never fails here: usb_send calls ExitProcess(1) on a failed   *)
(* transfer, and no segment the connection engine builds exceeds USB_MTU. *)
(***************************************************************************)
EXTENDS Naturals, Sequences, FiniteSetsExt

CONSTANTS
    Clients,              \* accepted client sockets (model values)
    NoClient,             \* conn->client == NULL
    MaxConnects,          \* bound: device_start_connect calls that succeed
    MaxBytes,             \* bound: payload units each side sends per connection
    CONN_INBUF_SIZE,      \* ib_capacity, the host receive window
    MaxPayload,           \* min(ob_capacity, max_payload): largest host segment
    MAX_MUX_PACKET_SIZE,  \* threshold of the window-advertise rule
    WinUnit,              \* th_win carries the window >> 8: its granularity
    DevRcvWin             \* the device's receive buffer (environment)

ASSUME /\ NoClient \notin Clients
       /\ \A k \in {MaxConnects, MaxBytes, CONN_INBUF_SIZE, MaxPayload,
                    MAX_MUX_PACKET_SIZE, WinUnit, DevRcvWin} : k \in Nat \ {0}

Sports == 1 .. MaxConnects      \* find_sport hands out next_sport++; no wrap within the bound

VARIABLES
    dev_state,   \* mux_device.state: "MUXDEV_ACTIVE" or "MUXDEV_DEAD" (removed)
    next_sport,  \* mux_device.next_sport
    conn,        \* sport -> mux_connection; state "NONE" when not in dev->connections
    cstate,      \* mux_client.state; "FREED" once client_close has freed it
    cevents,     \* mux_client.events: the poll set the reactor selects on
    cdevents,    \* mux_client.devents: events requested by the connection
    cob,         \* result packets queued in mux_client.ob_buf
    closes,      \* history: client_close calls per client
    uaf,         \* history: clients whose freed mux_client a handler wrote
    peer,        \* device-side TCP endpoint per sport (environment)
    to_dev,      \* segments on the USB OUT pipe
    to_host      \* segments on the USB IN pipe

vars == <<dev_state, next_sport, conn, cstate, cevents, cdevents, cob, closes,
          uaf, peer, to_dev, to_host>>
hostVars == <<dev_state, next_sport, conn, cstate, cevents, cdevents, cob,
              closes, uaf>>

ClientStates == {"COMMAND", "CONNECTING1", "CONNECTING2", "CONNECTED", "FREED"}
Flags == SUBSET {"SYN", "ACK", "RST"}
Seg(p, fl, ack, win, len) ==
    [sport |-> p, flags |-> fl, ack |-> ack, win |-> win, len |-> len]
Segments == [sport : Sports, flags : Flags, ack : Nat, win : Nat, len : Nat]

NoConn == [state |-> "NONE", client |-> NoClient, tx_seq |-> 0, tx_ack |-> 0,
           tx_acked |-> 0, tx_win |-> 0, rx_ack |-> 0, rx_win |-> 0,
           ib_size |-> 0, sendable |-> 0, events |-> {}]
Live(p) == conn[p].state /= "NONE"
ConnOf(c) == {p \in Sports : Live(p) /\ conn[p].client = c}

-----------------------------------------------------------------------------
(* Helpers of device.cpp                                                   *)

\* the segment send_tcp builds from a connection's counters
TcpSeg(p, r, fl, len) == Seg(p, fl, r.tx_ack, r.tx_win \div WinUnit, len)

\* send_tcp's bookkeeping once send_packet succeeded
Acked(r) == [r EXCEPT !.tx_acked = r.tx_ack]

\* the window fields of device_tcp_input: rx_ack, rx_win = th_win << 8
RxFrom(r, s) == [r EXCEPT !.rx_ack = s.ack, !.rx_win = s.win * WinUnit]

\* Variant: sendable from the window alone, forgetting the unacknowledged data
update_connection_unsent(r) ==
    LET s == Min({r.rx_win, MaxPayload}) IN
    [r EXCEPT !.sendable = s,
              !.events = (IF s > 0 THEN {"POLLIN"} ELSE {})
                         \cup (IF r.ib_size > 0 THEN {"POLLOUT"} ELSE {})]

\* update_connection: sendable from the peer window, then the poll set.
\* sent is a uint32: an rx_ack ahead of tx_seq wraps to more than any window.
update_connection(r) ==
    LET sent == r.tx_seq - r.rx_ack
        s    == Min({IF r.rx_ack <= r.tx_seq /\ r.rx_win > sent
                     THEN r.rx_win - sent ELSE 0, MaxPayload})
    IN [r EXCEPT !.sendable = s,
                 !.events = (IF s > 0 THEN {"POLLIN"} ELSE {})
                            \cup (IF r.ib_size > 0 THEN {"POLLOUT"} ELSE {})]

\* client_set_events, applied to the client state cs it will see
SetEvents(c, cs, ev, evs) ==
    IF cs = "CONNECTED" THEN [evs EXCEPT ![c] = ev] ELSE evs
SetDevents(c, cs, ev) ==
    IF cs \in {"CONNECTED", "CONNECTING2"} THEN [cdevents EXCEPT ![c] = ev]
    ELSE cdevents

\* connection_teardown sends an RST unless the device or the peer is gone
RstNeeded(st) == dev_state /= "MUXDEV_DEAD" /\ st \notin {"DYING", "REFUSED"}
RstOut(p, st) ==
    IF RstNeeded(st) THEN <<TcpSeg(p, conn[p], {"RST"}, 0)>> ELSE <<>>


\* Variant: the test made after tx_win += size
ShouldAdvertise_after(old, new) == new.tx_win < MAX_MUX_PACKET_SIZE

\* ShouldAdvertise of device_client_process: the window before the write
\* was below MAX_MUX_PACKET_SIZE (old and new are the connection before and
\* after the write)
ShouldAdvertise(old, new) == old.tx_win < MAX_MUX_PACKET_SIZE

\* Variants: the window is not shrunk, or is grown, by the payload
connection_device_input_nowin(r, len) ==
    [r EXCEPT !.ib_size = @ + len, !.tx_ack = @ + len]
connection_device_input_sign(r, len) ==
    [r EXCEPT !.ib_size = @ + len, !.tx_win = @ + len, !.tx_ack = @ + len]

\* connection_device_input: the payload joins ib_buf and closes the window
connection_device_input(r, len) ==
    [r EXCEPT !.ib_size = @ + len, !.tx_win = @ - len, !.tx_ack = @ + len]

\* device_tcp_input acknowledges at once when update_connection set
\* CONN_ACK_PENDING
AckPending(r) == r.tx_acked /= r.tx_ack

-----------------------------------------------------------------------------
(* connection_teardown and client_close                                    *)

\* send_result, through send_plist_pkt or send_pkt: one more result packet
\* in client->ob_buf (enlarged when short), and the client polls for POLLOUT
send_result(c) == [ob |-> cob[c] + 1, events |-> cevents[c] \cup {"POLLOUT"}]

\* client_notify_connect on a CONNECTING1 client (the callers test the
\* state, which is the -1 return): the result is queued; on RESULT_OK the
\* client is CONNECTING2 and polls for POLLOUT only, until it has gone out
client_notify_connect(c, ok) ==
    LET sr == send_result(c) IN
    [state  |-> IF ok THEN "CONNECTING2" ELSE "COMMAND",
     events |-> IF ok THEN {"POLLOUT"} ELSE sr.events,
     ob     |-> sr.ob]

\* The client side of connection_teardown for connections whose clients
\* are in R (the connection was CONNECTING or REFUSED:
\* client_notify_connect(RESULT_CONNREFUSED)) or in K (CONNECTED or DYING:
\* client_close).  None of these clients is inside client_close already.
TeardownClients(R, K) ==
    LET notified == {c \in R : cstate[c] = "CONNECTING1"}
        n(c)     == client_notify_connect(c, FALSE)
    IN
    /\ cstate'  = [c \in Clients |-> IF c \in notified THEN n(c).state
                                     ELSE IF c \in K THEN "FREED" ELSE cstate[c]]
    /\ cevents' = [c \in Clients |-> IF c \in notified THEN n(c).events
                                     ELSE IF c \in K THEN {} ELSE cevents[c]]
    /\ cob'     = [c \in Clients |-> IF c \in notified THEN n(c).ob ELSE cob[c]]
    /\ closes'  = [c \in Clients |-> IF c \in K THEN closes[c] + 1 ELSE closes[c]]

\* Variant: a refused connection does not tell its client
connection_teardown_silent(p, st) ==
    LET refusing == st \in {"CONNECTING", "REFUSED"} IN
    /\ conn'   = [conn EXCEPT ![p] = NoConn]
    /\ to_dev' = to_dev \o RstOut(p, st)
    /\ TeardownClients({}, IF refusing THEN {} ELSE {conn[p].client})

\* connection_teardown of the connection on sport p, found in state st
\* (the ib_buf flush to a CONNECTED client moves data only)
connection_teardown(p, st) ==
    LET c == conn[p].client
        refusing == st \in {"CONNECTING", "REFUSED"}
    IN /\ conn'   = [conn EXCEPT ![p] = NoConn]
       /\ to_dev' = to_dev \o RstOut(p, st)
       /\ TeardownClients(IF refusing THEN {c} ELSE {}, IF refusing THEN {} ELSE {c})

\* Variant: client_close without device_abort_connect
client_close_noabort(c) ==
    /\ cstate'  = [cstate EXCEPT ![c] = "FREED"]
    /\ cevents' = [cevents EXCEPT ![c] = {}]
    /\ closes'  = [closes EXCEPT ![c] = @ + 1]
    /\ UNCHANGED <<conn, to_dev>>

\* client_close: a client that dies mid-connect is marked DEAD and
\* device_abort_connect tears its connection down.  The connection keeps
\* conn->client, so tearing down a CONNECTED one calls client_close on the
\* same client again (the nested call finds it DEAD and frees it).
client_close(c) ==
    LET aborting == cstate[c] \in {"CONNECTING1", "CONNECTING2"} /\ ConnOf(c) /= {}
        p        == CHOOSE q \in ConnOf(c) : TRUE
        again    == aborting /\ conn[p].state = "CONNECTED"
    IN /\ cstate'  = [cstate EXCEPT ![c] = "FREED"]
       /\ cevents' = [cevents EXCEPT ![c] = {}]
       /\ closes'  = [closes EXCEPT ![c] = @ + (IF again THEN 2 ELSE 1)]
       /\ IF aborting
          THEN /\ conn'   = [conn EXCEPT ![p] = NoConn]
               /\ to_dev' = to_dev \o RstOut(p, conn[p].state)
          ELSE UNCHANGED <<conn, to_dev>>

-----------------------------------------------------------------------------
(* Client requests (client.cpp process_recv / client_command)              *)

\* client_command MESSAGE_CONNECT: device_start_connect allocates a sport,
\* sends the SYN and joins dev->connections; the client is CONNECTING1.
\* The client library sends a request only after the previous reply.
client_connect(c) ==
    LET p == next_sport
        r == [NoConn EXCEPT !.state = "CONNECTING", !.client = c,
                            !.tx_win = CONN_INBUF_SIZE]
    IN /\ cstate[c] = "COMMAND" /\ "POLLIN" \in cevents[c] /\ cob[c] = 0
       /\ dev_state = "MUXDEV_ACTIVE"
       /\ next_sport <= MaxConnects
       /\ next_sport' = next_sport + 1
       /\ conn' = [conn EXCEPT ![p] = r]
       /\ to_dev' = Append(to_dev, TcpSeg(p, r, {"SYN"}, 0))
       /\ cstate' = [cstate EXCEPT ![c] = "CONNECTING1"]
       /\ UNCHANGED <<dev_state, cevents, cdevents, cob, closes, uaf, peer, to_host>>

\* client_command MESSAGE_CONNECT for a device that has been removed:
\* device_start_connect returns -RESULT_BADDEV and the result is queued
client_connect_baddev(c) ==
    /\ cstate[c] = "COMMAND" /\ "POLLIN" \in cevents[c] /\ cob[c] = 0
    /\ dev_state = "MUXDEV_DEAD"
    /\ cob' = [cob EXCEPT ![c] = send_result(c).ob]
    /\ cevents' = [cevents EXCEPT ![c] = send_result(c).events]
    /\ UNCHANGED <<dev_state, next_sport, conn, cstate, cdevents, closes, uaf,
                   peer, to_dev, to_host>>

\* client_command in a state other than COMMAND (a request sent while the
\* connect is pending): RESULT_BADCOMMAND, client_close, return -1; then
\* process_recv sets client->ib_size = 0 on the client it freed
client_bad_command(c) ==
    /\ cstate[c] = "CONNECTING1" /\ "POLLIN" \in cevents[c]
    /\ client_close(c)
    /\ uaf' = uaf \cup {c}
    /\ UNCHANGED <<dev_state, next_sport, cdevents, cob, peer, to_host>>

\* process_recv: recv() returns 0 or fails, or the header is malformed
client_hangup(c) ==
    /\ cstate[c] \in {"COMMAND", "CONNECTING1"} /\ "POLLIN" \in cevents[c]
    /\ client_close(c)
    /\ UNCHANGED <<dev_state, next_sport, cdevents, cob, uaf, peer, to_host>>

\* process_send: the queued results go out; once the connect result is out
\* a CONNECTING2 client is CONNECTED and polls with the connection's events.
\* A failed send() closes the client.
process_send(c) ==
    /\ cstate[c] \in {"COMMAND", "CONNECTING1", "CONNECTING2"}
    /\ "POLLOUT" \in cevents[c] /\ cob[c] > 0
    /\ \/ /\ cob' = [cob EXCEPT ![c] = 0]
          /\ cstate' = [cstate EXCEPT ![c] =
                          IF @ = "CONNECTING2" THEN "CONNECTED" ELSE @]
          /\ cevents' = [cevents EXCEPT ![c] =
                          IF cstate[c] = "CONNECTING2" THEN cdevents[c]
                          ELSE @ \ {"POLLOUT"}]
          /\ UNCHANGED <<conn, to_dev, closes>>
       \/ /\ client_close(c)
          /\ UNCHANGED cob
    /\ UNCHANGED <<dev_state, next_sport, cdevents, uaf, peer, to_host>>

-----------------------------------------------------------------------------
(* device_client_process: a CONNECTED client's socket is ready             *)

\* POLLOUT: client_write of part of ib_buf; tx_win grows and, when it was
\* small, an ACK advertises it.  A failed write tears the connection down.
client_process_out(c) ==
    /\ cstate[c] = "CONNECTED" /\ "POLLOUT" \in cevents[c]
    /\ \E p \in ConnOf(c) :
         /\ conn[p].ib_size > 0
         /\ \/ /\ connection_teardown(p, conn[p].state)
               /\ UNCHANGED cdevents
            \/ \E size \in 1 .. conn[p].ib_size :
                 LET r1  == [conn[p] EXCEPT !.ib_size = @ - size, !.tx_win = @ + size]
                     adv == ShouldAdvertise(conn[p], r1)
                     r2  == update_connection(IF adv THEN Acked(r1) ELSE r1)
                 IN /\ conn' = [conn EXCEPT ![p] = r2]
                    /\ to_dev' = IF adv THEN Append(to_dev, TcpSeg(p, r1, {"ACK"}, 0))
                                 ELSE to_dev
                    /\ cdevents' = SetDevents(c, "CONNECTED", r2.events)
                    /\ cevents' = SetEvents(c, "CONNECTED", r2.events, cevents)
                    /\ UNCHANGED <<cstate, cob, closes>>
    /\ UNCHANGED <<dev_state, next_sport, uaf, peer, to_host>>

\* POLLIN: client_read of at most sendable units, sent to the device as one
\* ACK segment and tx_seq advanced; recv() == 0 (hangup) or < 0 tears the
\* connection down
client_process_in(c) ==
    /\ cstate[c] = "CONNECTED" /\ "POLLIN" \in cevents[c]
    /\ \E p \in ConnOf(c) :
         /\ conn[p].sendable > 0
         /\ \/ /\ connection_teardown(p, conn[p].state)
               /\ UNCHANGED cdevents
            \/ \E size \in 1 .. Min({conn[p].sendable, MaxBytes + 1 - conn[p].tx_seq}) :
                 LET r == update_connection([Acked(conn[p]) EXCEPT !.tx_seq = @ + size])
                 IN /\ conn' = [conn EXCEPT ![p] = r]
                    /\ to_dev' = Append(to_dev, TcpSeg(p, conn[p], {"ACK"}, size))
                    /\ cdevents' = SetDevents(c, "CONNECTED", r.events)
                    /\ cevents' = SetEvents(c, "CONNECTED", r.events, cevents)
                    /\ UNCHANGED <<cstate, cob, closes>>
    /\ UNCHANGED <<dev_state, next_sport, uaf, peer, to_host>>

-----------------------------------------------------------------------------
(* device_tcp_input: the reactor takes the next TCP segment from the device *)

\* no connection on that port: an anonymous RST unless the segment is one
tcp_input_unknown(s) ==
    /\ ~Live(s.sport)
    /\ to_dev' = IF "RST" \in s.flags THEN to_dev
                 ELSE Append(to_dev, Seg(s.sport, {"RST"}, 0, 0, 0))
    /\ UNCHANGED <<conn, cstate, cevents, cdevents, cob, closes>>

\* CONNECTING and SYN|ACK: ACK it, CONNECTED, client_notify_connect(OK),
\* update_connection.  Should the notification fail the connection is torn
\* down with conn->client = NULL (ConnClientPaired shows it cannot).
tcp_input_synack(s) ==
    LET p  == s.sport
        c  == conn[p].client
        r1 == [RxFrom(conn[p], s) EXCEPT !.tx_seq = @ + 1, !.tx_ack = @ + 1]
        r2 == update_connection([Acked(r1) EXCEPT !.state = "CONNECTED"])
    IN /\ Live(p) /\ conn[p].state = "CONNECTING" /\ s.flags = {"SYN", "ACK"}
       /\ IF cstate[c] = "CONNECTING1"
          THEN /\ conn' = [conn EXCEPT ![p] = r2]
               /\ to_dev' = Append(to_dev, TcpSeg(p, r1, {"ACK"}, 0))
               /\ cstate' = [cstate EXCEPT ![c] = client_notify_connect(c, TRUE).state]
               /\ cevents' = [cevents EXCEPT ![c] = client_notify_connect(c, TRUE).events]
               /\ cob' = [cob EXCEPT ![c] = client_notify_connect(c, TRUE).ob]
               /\ cdevents' = [cdevents EXCEPT ![c] = r2.events]
               /\ UNCHANGED closes
          ELSE /\ conn' = [conn EXCEPT ![p] = NoConn]
               /\ to_dev' = to_dev \o <<TcpSeg(p, r1, {"ACK"}, 0),
                                        TcpSeg(p, Acked(r1), {"RST"}, 0)>>
               /\ UNCHANGED <<cstate, cevents, cdevents, cob, closes>>

\* CONNECTING and anything else: REFUSED on an RST, then connection_teardown
\* (which tells the client RESULT_CONNREFUSED)
tcp_input_refused(s) ==
    LET p == s.sport IN
    /\ Live(p) /\ conn[p].state = "CONNECTING" /\ s.flags /= {"SYN", "ACK"}
    /\ connection_teardown(p, IF "RST" \in s.flags THEN "REFUSED" ELSE "CONNECTING")
    /\ UNCHANGED cdevents

\* CONNECTED and a bare ACK: connection_device_input takes the payload (an
\* overflow of ib_buf tears the connection down) and the pending ACK is sent
tcp_input_data(s) ==
    LET p  == s.sport
        c  == conn[p].client
        r1 == RxFrom(conn[p], s)
        r2 == update_connection(connection_device_input(r1, s.len))
        ak == AckPending(r2)
        r3 == IF ak THEN update_connection(Acked(r2)) ELSE r2
    IN /\ Live(p) /\ conn[p].state = "CONNECTED" /\ s.flags = {"ACK"}
       /\ IF r1.ib_size + s.len > CONN_INBUF_SIZE
          THEN connection_teardown(p, "CONNECTED") /\ UNCHANGED cdevents
          ELSE /\ conn' = [conn EXCEPT ![p] = r3]
               /\ to_dev' = IF ak THEN Append(to_dev, TcpSeg(p, r2, {"ACK"}, 0))
                            ELSE to_dev
               /\ cdevents' = SetDevents(c, cstate[c], r3.events)
               /\ cevents' = SetEvents(c, cstate[c], r3.events, cevents)
               /\ UNCHANGED <<cstate, cob, closes>>

\* CONNECTED and anything but a bare ACK: DYING on an RST (no RST back),
\* then connection_teardown closes the client
tcp_input_reset(s) ==
    LET p == s.sport IN
    /\ Live(p) /\ conn[p].state = "CONNECTED" /\ s.flags /= {"ACK"}
    /\ connection_teardown(p, IF "RST" \in s.flags THEN "DYING" ELSE "CONNECTED")
    /\ UNCHANGED cdevents

device_tcp_input ==
    /\ dev_state = "MUXDEV_ACTIVE" /\ to_host /= <<>>
    /\ to_host' = Tail(to_host)
    /\ LET s == Head(to_host) IN
          \/ tcp_input_unknown(s)
          \/ tcp_input_synack(s)
          \/ tcp_input_refused(s)
          \/ tcp_input_data(s)
          \/ tcp_input_reset(s)
    /\ UNCHANGED <<dev_state, next_sport, uaf, peer>>

\* device_remove of an ACTIVE device: DEAD, every connection torn down with
\* no RST (a CONNECTING one refuses its client, a CONNECTED one closes it),
\* then the device leaves the list; its pipes go with the USB device
device_remove ==
    LET L == {p \in Sports : Live(p)}
        R == {conn[p].client : p \in {q \in L : conn[q].state = "CONNECTING"}}
        K == {conn[p].client : p \in {q \in L : conn[q].state = "CONNECTED"}}
    IN /\ dev_state = "MUXDEV_ACTIVE"
       /\ dev_state' = "MUXDEV_DEAD"
       /\ conn' = [p \in Sports |-> NoConn]
       /\ TeardownClients(R, K)
       /\ to_dev' = <<>>
       /\ to_host' = <<>>
       /\ UNCHANGED <<next_sport, cdevents, uaf, peer>>

-----------------------------------------------------------------------------
(* The device-side TCP endpoint: environment, not code of this repository. *)
(* snd and rcv count payload units; una and win are the host's last ACK   *)
(* number and window as the device saw them.                             *)

PeerInit == [st |-> "LISTEN", snd |-> 1, rcv |-> 0, buf |-> 0, win |-> 0, una |-> 1]
PeerSeg(p, q, fl, len) ==
    Seg(p, fl, q.rcv + 1, (DevRcvWin - q.buf) \div WinUnit, len)
Usable(q) == q.win - (q.snd - q.una)

\* the device takes the next segment of the OUT pipe
dev_receive ==
    LET s == Head(to_dev)
        p == s.sport
        q == peer[p]
    IN /\ dev_state = "MUXDEV_ACTIVE" /\ to_dev /= <<>>
       /\ to_dev' = Tail(to_dev)
       /\ \/ /\ s.flags = {"SYN"} /\ q.st = "LISTEN"       \* port open
             /\ peer' = [peer EXCEPT ![p] = [q EXCEPT !.st = "ESTAB", !.win = s.win * WinUnit]]
             /\ to_host' = Append(to_host, PeerSeg(p, q, {"SYN", "ACK"}, 0))
          \/ /\ s.flags = {"SYN"} /\ q.st = "LISTEN"       \* port closed
             /\ peer' = [peer EXCEPT ![p].st = "CLOSED"]
             /\ to_host' = Append(to_host, PeerSeg(p, q, {"RST"}, 0))
          \/ /\ s.flags = {"ACK"} /\ q.st = "ESTAB"
             /\ peer' = [peer EXCEPT ![p] = [q EXCEPT !.rcv = @ + s.len, !.buf = @ + s.len,
                                                       !.una = s.ack, !.win = s.win * WinUnit]]
             /\ UNCHANGED to_host
          \/ /\ "RST" \in s.flags
             /\ peer' = [peer EXCEPT ![p].st = "CLOSED"]
             /\ UNCHANGED to_host
          \/ /\ s.flags = {"ACK"} /\ q.st = "CLOSED"        \* late segment: dropped
             /\ UNCHANGED <<peer, to_host>>
    /\ UNCHANGED hostVars

\* the device application reads k units and the device sends a window update
dev_consume(p) ==
    /\ dev_state = "MUXDEV_ACTIVE" /\ peer[p].st = "ESTAB" /\ peer[p].buf > 0
    /\ \E k \in 1 .. peer[p].buf :
         LET q == [peer[p] EXCEPT !.buf = @ - k] IN
         /\ peer' = [peer EXCEPT ![p] = q]
         /\ to_host' = Append(to_host, PeerSeg(p, q, {"ACK"}, 0))
    /\ UNCHANGED <<hostVars, to_dev>>

\* the device sends data within the window the host advertised
dev_send(p) ==
    /\ dev_state = "MUXDEV_ACTIVE" /\ peer[p].st = "ESTAB"
    /\ \E len \in 1 .. Min({Usable(peer[p]), MaxBytes + 1 - peer[p].snd}) :
         /\ peer' = [peer EXCEPT ![p].snd = @ + len]
         /\ to_host' = Append(to_host, PeerSeg(p, peer[p], {"ACK"}, len))
    /\ UNCHANGED <<hostVars, to_dev>>

\* the device resets the connection
dev_reset(p) ==
    /\ dev_state = "MUXDEV_ACTIVE" /\ peer[p].st = "ESTAB"
    /\ peer' = [peer EXCEPT ![p].st = "CLOSED"]
    /\ to_host' = Append(to_host, PeerSeg(p, peer[p], {"RST"}, 0))
    /\ UNCHANGED <<hostVars, to_dev>>

-----------------------------------------------------------------------------
(* The specification                                                       *)

\* an ACTIVE device (device_version_input done) and clients that
\* client_accept has put in COMMAND, polling for input
Init ==
    /\ dev_state = "MUXDEV_ACTIVE"
    /\ next_sport = 1
    /\ conn = [p \in Sports |-> NoConn]
    /\ cstate = [c \in Clients |-> "COMMAND"]
    /\ cevents = [c \in Clients |-> {"POLLIN"}]
    /\ cdevents = [c \in Clients |-> {}]
    /\ cob = [c \in Clients |-> 0]
    /\ closes = [c \in Clients |-> 0]
    /\ uaf = {}
    /\ peer = [p \in Sports |-> PeerInit]
    /\ to_dev = <<>>
    /\ to_host = <<>>

Host ==
    \/ \E c \in Clients :
          \/ client_connect(c)
          \/ client_connect_baddev(c)
          \/ client_bad_command(c)
          \/ client_hangup(c)
          \/ process_send(c)
          \/ client_process_out(c)
          \/ client_process_in(c)
    \/ device_tcp_input
    \/ device_remove

Device ==
    \/ dev_receive
    \/ \E p \in Sports : dev_consume(p) \/ dev_send(p) \/ dev_reset(p)

Next == Host \/ Device

\* The reactor serves every ready socket, and the device answers what it is
\* sent: weak fairness on the reactor's device input and the device's receive.
Fairness ==
    /\ WF_vars(device_tcp_input)
    /\ WF_vars(dev_receive)

Spec == Init /\ [][Next]_vars /\ Fairness

-----------------------------------------------------------------------------
(* Properties                                                              *)

ConnRecs ==
    [state : {"NONE", "CONNECTING", "CONNECTED"}, client : Clients \cup {NoClient},
     tx_seq : Nat, tx_ack : Nat, tx_acked : Nat, tx_win : 0 .. CONN_INBUF_SIZE,
     rx_ack : Nat, rx_win : Nat, ib_size : 0 .. CONN_INBUF_SIZE,
     sendable : 0 .. MaxPayload, events : SUBSET {"POLLIN", "POLLOUT"}]

TypeOK ==
    /\ dev_state \in {"MUXDEV_ACTIVE", "MUXDEV_DEAD"}
    /\ next_sport \in 1 .. MaxConnects + 1
    /\ conn \in [Sports -> ConnRecs]
    /\ cstate \in [Clients -> ClientStates]
    /\ cevents \in [Clients -> SUBSET {"POLLIN", "POLLOUT"}]
    /\ cdevents \in [Clients -> SUBSET {"POLLIN", "POLLOUT"}]
    /\ cob \in [Clients -> Nat]
    /\ closes \in [Clients -> Nat]
    /\ uaf \subseteq Clients
    /\ to_dev \in Seq(Segments)
    /\ to_host \in Seq(Segments)

\* A connection and its client live and die together: a CONNECTING
\* connection's client is CONNECTING1, a CONNECTED connection's client is
\* CONNECTING2 or CONNECTED, and every client in one of those states owns
\* exactly one connection.  Teardown paths (device reset, device removal,
\* client errors, client_close) must each leave both sides consistent;
\* device_client_process and client_notify_connect rely on it.
ConnClientPaired ==
    /\ \A p \in Sports : Live(p) =>
          cstate[conn[p].client] \in
             IF conn[p].state = "CONNECTING" THEN {"CONNECTING1"}
             ELSE {"CONNECTING2", "CONNECTED"}
    /\ \A c \in Clients :
          cstate[c] \in {"CONNECTING1", "CONNECTING2", "CONNECTED"} =>
             Cardinality(ConnOf(c)) = 1

\* The host never sends the device more than the window the device
\* advertised: update_connection's sendable accounts for the data still
\* unacknowledged (tx_seq - rx_ack), so the device's buffer never overflows.
DeviceWindowRespected == \A p \in Sports : peer[p].buf <= DevRcvWin

\* Units of the device on their way to the host
InFlight(p) ==
    MapThenSumSet(LAMBDA i : IF to_host[i].sport = p THEN to_host[i].len ELSE 0,
                  DOMAIN to_host)

\* What the host buffers plus what the device has in flight fits ib_buf:
\* the window the host advertises (tx_win >> 8, shrunk by
\* connection_device_input, grown by the client writes) never lets a device
\* that honours it hit the overflow teardown.
HostInbufFits ==
    \A p \in Sports : Live(p) => conn[p].ib_size + InFlight(p) <= CONN_INBUF_SIZE

\* The device is stalled on p: the host has drained everything, but the
\* window the device knows is exhausted and nothing is on the way that
\* would reopen it.
Stalled(p) ==
    /\ conn[p].state = "CONNECTED" /\ peer[p].st = "ESTAB"
    /\ conn[p].ib_size = 0
    /\ Usable(peer[p]) <= 0
    /\ \A i \in DOMAIN to_dev : to_dev[i].sport /= p
    /\ \A i \in DOMAIN to_host : to_host[i].sport /= p

\* Zero-window recovery: the window-advertise rule of device_client_process
\* (an ACK whenever the window was below MAX_MUX_PACKET_SIZE before a
\* write) never leaves the device waiting on a window the host has opened.
NoWindowStall == \A p \in Sports : ~Stalled(p)

\* A connect request is answered: a client that device_start_connect put in
\* CONNECTING1 leaves it (result OK, CONNREFUSED, or closed).  There is no
\* connect timeout in the code, so this needs the device to answer the SYN.
ConnectAnswered ==
    \A c \in Clients : cstate[c] = "CONNECTING1" ~> cstate[c] /= "CONNECTING1"

\* client_close runs once per client: a second call frees the mux_client
\* and its buffers again.
ClientClosedOnce == \A c \in Clients : closes[c] <= 1

\* No handler writes a mux_client after client_close freed it (process_recv
\* clears ib_size after client_command returns).
NoWriteAfterFree == uaf = {}

=============================================================================
