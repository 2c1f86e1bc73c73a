SPECIFICATION Spec

CONSTANTS
    Tables = {"leases"}
    Keys = {k1}
    Contents = {a, b}
    Trackings = {"rent"}
    MaxLoads = 3
    Threads = {"loader", "reader", "reader2"}
    Tenants = {"acme", "other"}
    TenantOf <- MCTenantOf
    MaxCachedEngines = 1
    MaxEngines = 2
    Loads <- MCLoads

INVARIANTS
    OneVersionAtATime
    LoadedIsCurrent
    CacheWithinBudget

PROPERTIES
    LeavesClosed
    LoadsEnd

CHECK_DEADLOCK FALSE
