SPECIFICATION Spec
CONSTANTS
    p1 = p1
    p2 = p2
    p3 = p3
    p4 = p4
    Process <- MCProcess
    Idle = idle
    NULL = null
    process_queue_size = 3
INVARIANTS
    RingHoldsWaiting
PROPERTIES
    ImplementsRoundRobin
