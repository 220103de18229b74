CONSTANTS
    Geneses = {0, 2}
    Ids = {0, 1, 2}
    MaxBlocks = 3
    OutboxSets = {{}, {0, 2}}
SPECIFICATION Spec
INVARIANTS TypeOK SearchIsExact OutboxIsRight
CHECK_DEADLOCK FALSE
