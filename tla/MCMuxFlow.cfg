\* One client connection: windows fill and reopen in both directions, and the
\* connect request is always answered.  ib_buf is larger than MAX_MUX_PACKET_SIZE
\* (the code's 262144 and 0x7FFC keep it well above), so a client write may
\* leave the window at or above the threshold and send no window update.
CONSTANTS
    c1 = c1
    c2 = c2
    Clients = {c1}
    NoClient = NoClient
    MaxConnects = 1
    MaxBytes = 4
    CONN_INBUF_SIZE = 3
    MaxPayload = 2
    MAX_MUX_PACKET_SIZE = 2
    WinUnit = 1
    DevRcvWin = 1
SPECIFICATION Spec
CHECK_DEADLOCK FALSE
INVARIANT TypeOK
INVARIANT ConnClientPaired
INVARIANT DeviceWindowRespected
INVARIANT HostInbufFits
INVARIANT NoWindowStall
PROPERTY ConnectAnswered
