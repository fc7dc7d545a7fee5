\* Both ways, with restarts of both ends; it stops when the bounds are reached.
SPECIFICATION Spec
CONSTANTS
    a = a
    b = b
    Endpoints = {a, b}
    Senders = {a, b}
    RxBufSize = 4
    OrderMod = 2
    MaxPackets = 2
    MaxFaults = 0
    MaxRestarts = 1
    Peer <- MCPeer
INVARIANTS Accounting InOrder
CHECK_DEADLOCK FALSE
