SPECIFICATION Spec
CONSTANTS
    a1 = a1
    e1 = e1
    d1 = d1
    App = {a1}
    EventType = {t1}
    Endpoint = {e1}
    Delivery = {d1}
    AppOf <- MCAppOf
    EndpointOf <- MCEndpointOf
    Caller = {c1, c2}
    Worker = {w1}
    Writable = TRUE
    HasCompareAndSwap = TRUE
    MaxCalls = 3
CHECK_DEADLOCK FALSE
INVARIANTS
    ListsAgree
    AuditIsTrue
    NothingLeftToCall
PROPERTIES
    LeftoversSettle
