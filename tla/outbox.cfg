CONSTANTS
    Position = 1
    SendCounts = {1, 2, 3}
    Rivals = TRUE
    MaxNodes = 3
    ParentIsArbitrum = FALSE
    RecursionLimit = 2
    RpcFaults = TRUE
    MaxSent = 2
SPECIFICATION Spec
INVARIANTS TypeOK RootIsConfirmed ProofIsAccepted
PROPERTIES ImplementsLifecycle RivalsOnlyDelay WaitReturnsReady CallReturns
