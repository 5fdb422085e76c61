CONSTANTS
    SLOTS = 3
    Unreadable = Unreadable
    Names = {"a", "c", "z"}
    NoName = NoName
    Contents = {"a1", "c1", "c2", "c3"}
    Zeros = Zeros
    Areas = {"formatted", "own"}
    Formatted = "formatted"
    Games <- MCGames
    MaxHeld = 2
    MaxDamage = 1
SPECIFICATION Spec
CHECK_DEADLOCK FALSE
INVARIANTS
    TypeOK
    ChainIsSimple
    ReadsBackTheSame
    RebuiltIsSound
    SizesAgree
PROPERTIES
    KeepsItsPromise
    Settles
