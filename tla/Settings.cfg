SPECIFICATION MCSpec
CONSTANTS
    old = old
    new = new
    Default = default
    Configs = {default, old, new}
    Blank = Blank
    Torn = Torn
    None = None
    NULL = NULL
    Networks = {n1, n2}
    LongPress = 1
INVARIANTS
    PartsTypeOK
    NoTornLoad
    StaysInReach
PROPERTIES
    Atomic
    SavedOnReturn
    FormsSaved
    StationLives
