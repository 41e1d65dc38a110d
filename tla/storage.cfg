SPECIFICATION Spec
CONSTANTS
    Client = {c1, c2}
    App <- Apps
    Key <- Keys
    AppOf <- KeyApp
    Alike <- UpToCase
    Wild <- AsWildcards
    v1 = v1
    c1 = c1
    c2 = c2
    Value = {v1}
    AsksOf <- ClientAsks
PROPERTIES
    ImplementsStore
    Recovers
