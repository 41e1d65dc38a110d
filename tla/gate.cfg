SPECIFICATION GateSpec
CONSTANTS
    a1 = a1
    App = {a1, a2}
    Catalog = Catalog
    NoOne = NoOne
    admin = admin
    viewer = viewer
    Host = {admin, viewer}
    RolesOf <- MCRolesOf
    Panel <- MCPanel
    Lifetime = 1
    MaxTime = 1
    Sender <- MCSender
CHECK_DEADLOCK FALSE
INVARIANTS
    PortalConfined
    ReadersOnlyRead
    AnswersAreDocumented
