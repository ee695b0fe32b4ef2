SPECIFICATION ColdSpec
CONSTANTS
    Modulus = 1048576
    Readings <- MCCold
    Times <- MCTimes
    Timezones <- MCTimezones
    Configs <- MCManual
    Step = 30
    None = None
PROPERTIES
    SwitchedForReason
