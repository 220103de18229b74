CONSTANTS
    Receipts <- MCReceipts
    OtherIndices = {0, 1}
    Confirmations = {1, 2}
    Margin = 1
    OwnFees = {1}
    OwnNonces = {1}
    MaxBaseFee = 2
    MaxBlocks = 3
    MaxSigned = 2
SPECIFICATION Spec
INVARIANTS TypeOK PairsBelongTogether CompleteMeansConfirmed
PROPERTIES OnceCompleteAlways WaitEnds DroppedIsOvertaken
CHECK_DEADLOCK FALSE
