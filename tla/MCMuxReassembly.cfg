\* The fork's read size (DEVICE_RX_BUFFER_SIZE = 0x8008, between USB_MRU and
\* DEV_MRU, scaled: 2, 5, 8) and packets of every length up to DEV_MRU:
\* packets that fit one read, packets split across reads, and a read that
\* ends exactly USB_MRU into a packet.
CONSTANTS
    USB_MRU = 2
    DEVICE_RX_BUFFER_SIZE = 5
    DEV_MRU = 8
    PktLens = {1, 2, 3, 4, 5, 6, 7, 8}
    NPackets = 3
SPECIFICATION Spec
INVARIANT TypeOK
\* The device may stop writing; the reactor then waits in poll.
CHECK_DEADLOCK FALSE
