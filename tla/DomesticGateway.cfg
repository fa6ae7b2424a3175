CONSTANTS
    t1 = t1  t2 = t2  default = default  fast = fast
    None = None
    Threads <- MCThreads
    Ports <- MCPorts
    Default = default
    Fast = fast
    Concurrency <- OneSlotEach
SPECIFICATION FairSpec
INVARIANTS
    TypeOK
    SlotsConserved
    ConnectionsBounded
    SilentOnlyWhenDropped
PROPERTIES
    BusyOnlyWhenFull
    LaneFrees
