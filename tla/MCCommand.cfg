\* Three runs, two outputs' names; two cards; a run and a sitting end.
SPECIFICATION ProgramsSpec
CONSTANTS
    a = a
    b = b
    r1 = r1
    r2 = r2
    r3 = r3
    Runs = {r1, r2, r3}
    Names = {a, b}
    Lines <- LinesTold
    Nothing = Nothing
    Old = Old
    Leftover = Leftover
    CardCount = 2
    System <- OneSystem
    Blocks <- Five
    Room <- Three
    Overhead = 0
    Encoding = 1
    Disks <- MCDisks
    ReadOnlyCards = {2}
    Nowhere = Nowhere
    MaxParts = 2
INVARIANTS
    OutputsAreSound BesideIsAFile
    SelectionIsListed  CleanIsOnDisk
PROPERTIES
    FoundIsKept RunsEnd
    KeysDoWhatTheySay
CHECK_DEADLOCK FALSE
