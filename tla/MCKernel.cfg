SPECIFICATION FairSpec
CONSTANTS
    p1 = p1
    p2 = p2
    Process <- TwoProcesses
    Idle = idle
    NULL = null
    process_queue_size = 2
    UserPCs = 2
INVARIANTS
    ContextsPreserved
    TrapEntryReady
    WaitingOrOnHart
    RunningIsOnHart
    SharedStructuresExclusive
    NoInternalPanic
PROPERTIES
    EveryProcessRuns
    SyscallsComplete
