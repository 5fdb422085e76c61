CONSTANTS
    CardCount = 2
    System <- OneSystem
    Blocks <- Five
    Room <- Three
    Overhead = 0
    Encoding = 1
    Disks <- MCDisks
    ReadOnlyCards = {2}
    Nowhere = Nowhere
    MaxParts = 2
SPECIFICATION Spec
CHECK_DEADLOCK FALSE
INVARIANT NeverFull
