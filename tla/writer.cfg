CONSTANTS
    Lifetime = 2
    Gaps = {1}
    MaxBlocks = 6
    MaxExtensions = 1
    InitialIncrement = 1
    TargetSpan = 1
    Confirmations = {0}
    Faults = {"rpc", "swallowed"}
    MaxSent = 2
SPECIFICATION WriterSpec
INVARIANTS WriterTypeOK LostRedeemIsFinal
PROPERTIES OwnRedeemIsSeen OperationEnds OnlyExpiryCanBeWrong SwallowedFailureIsRepaired CallReturns
