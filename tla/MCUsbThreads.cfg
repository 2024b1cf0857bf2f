\* One device connection, three usb_send calls (the VERSION request and two
\* more), every com_plugin_transfer outcome, with and without the write thread,
\* every outcome of the read thread's reads, sends and read results.
\* The system stops when the process exits or the device is gone.
CONSTANTS
    MaxSends = 3
    Outcomes = {"ok", "pending", "error"}
    TurboModes = {TRUE, FALSE}
SPECIFICATION Spec
CHECK_DEADLOCK FALSE
INVARIANT TypeOK
INVARIANT PoolHoldsIdleOverlapped
INVARIANT ReadThreadGoneBeforeClose
INVARIANT RxBufferHandedOver
PROPERTY QueuedTransferReaped
PROPERTY DisconnectEnds
PROPERTY RxHandshakeSpec
