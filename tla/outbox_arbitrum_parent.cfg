CONSTANTS
    Position = 1
    SendCounts = {1, 2, 3}
    Rivals = FALSE
    MaxNodes = 3
    ParentIsArbitrum = TRUE
    RecursionLimit = 2
    RpcFaults = FALSE
    MaxSent = 2
SPECIFICATION Spec
PROPERTIES ConfirmedIsReported
