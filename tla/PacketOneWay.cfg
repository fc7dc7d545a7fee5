\* One way over a line with faults, restarts and more packets than orders; it stops
\* when the bounds are reached.
SPECIFICATION Spec
CONSTANTS
    a = a
    b = b
    Endpoints = {a, b}
    Senders = {a}
    RxBufSize = 4
    OrderMod = 4
    MaxPackets = 4
    MaxFaults = 1
    MaxRestarts = 1
    Peer <- MCPeer
INVARIANTS InOrder DroppedWereLost WholeIsDelivered ResetsJustified
CHECK_DEADLOCK FALSE
