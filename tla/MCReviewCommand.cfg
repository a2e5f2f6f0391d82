SPECIFICATION Spec
CONSTANTS
    Setups <- MCSetups
    Clients <- MCClients
    Workers = 2
    BatchSize = 2
CHECK_DEADLOCK FALSE
INVARIANTS
    ReportInSetupOrder
    CallsAccounted
PROPERTIES
    KeepsPromise
    AlwaysEnds
