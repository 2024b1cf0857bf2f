\* One client, one connection: checks ClientClosedOnce alone.
CONSTANTS
    c1 = c1
    c2 = c2
    Clients = {c1}
    NoClient = NoClient
    MaxConnects = 1
    MaxBytes = 1
    CONN_INBUF_SIZE = 1
    MaxPayload = 1
    MAX_MUX_PACKET_SIZE = 1
    WinUnit = 1
    DevRcvWin = 1
SPECIFICATION Spec
CHECK_DEADLOCK FALSE
INVARIANT ClientClosedOnce
