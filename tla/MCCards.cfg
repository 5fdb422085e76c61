\* Six formats of card, each of the fewest blocks that a save of two, one of
\* one and a hole between them need.
CONSTANTS
    Formats <- MCFormats
    Sizes <- MCSizes
    MAX = 2
    CONTENT = 4
    UNITS = 3
    LongNames = {}
    Folders = {9}
    Games <- MCGames
    MaxHeld = 2
    MaxDamage = 1
    Unreadable = Unreadable
    Unused = Unused
SPECIFICATION CardsSpec
CHECK_DEADLOCK FALSE
INVARIANTS CardsTypeOK EveryCardIsWritable SharedBlocksAreCounted CopiesStandIn MemoryIsKept
PROPERTIES EveryCardKeepsItsPromise GamesRunInPlace PaksAreKept
