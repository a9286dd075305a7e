SPECIFICATION FairSpec
CONSTANTS
    Clients = {a, b, c}
    NoClient = NoClient
    MaxRuns = 2
INVARIANTS
    TypeOK
    OneHolder
    NobodyLeftBehind
PROPERTIES
    KeepsToContract
    FinishedClientsDeleted
    OwnerComesBack
\* The owner may destroy the server.
CHECK_DEADLOCK FALSE
