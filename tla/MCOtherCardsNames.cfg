CONSTANTS
    Formats = {"saturn"}
    Sizes <- MCSaturnSize
    MAX = 2
    CONTENT = 4
    UNITS = 3
    LongNames = {8}
    Folders = {9}
    Games <- MCSaturnGames
    MaxHeld = 2
    MaxDamage = 0
    Unreadable = Unreadable
SPECIFICATION Spec
INVARIANT
    UndamagedIsWritable
