SPECIFICATION Spec
CONSTANTS
    NULL = NULL
    Networks = {n1}
    LongPress = 6
INVARIANT ShortPressesIgnored
