CONSTANTS
    Lifetime = 3
    Gaps = {1, 3}
    MaxBlocks = 7
    MaxExtensions = 1
    InitialIncrement = 1
    TargetSpan = 2
    Confirmations = {0, 1}
    Faults = {"rpc"}
SPECIFICATION Spec
INVARIANTS TypeOK NoFalseExpiry
PROPERTIES ImplementsLifecycle StatusMovesForward
