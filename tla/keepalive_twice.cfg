CONSTANTS
    Lifetime = 2
    Gaps = {1}
    MaxBlocks = 8
    MaxExtensions = 2
    InitialIncrement = 1
    TargetSpan = 1
    Confirmations = {0}
    Faults = {}
SPECIFICATION Spec
PROPERTIES RedeemedIsReported
