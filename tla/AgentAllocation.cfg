SPECIFICATION Spec
CONSTANTS
    Agents = {a1, a2}
    OrderIds = {o1, o2}
    Handlers = {h1, h2}
    Quantities = {1, 2}
    MaxAllocated = 2
    MaxGranted = 2
    NoAgent = NoAgent
    Archive = Archive
SYMMETRY Symmetry
CHECK_DEADLOCK FALSE
INVARIANTS
    TypeOK
    NoOversell
    LedgerExplainsQuota
    BookingsCoverOrders
    OneLevelHierarchy
PROPERTY ImplementsPool
