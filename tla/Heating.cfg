SPECIFICATION MCSpec
CONSTANTS
    Modulus = 1048576
    Readings <- MCReadings
    Times <- MCTimes
    Timezones <- MCTimezones
    Configs <- MCConfigs
    Step = 30
    None = None
INVARIANTS
    PartsTypeOK
    CalendarRight
    ScheduleRight
PROPERTIES
    SwitchingRight
    LoopRegulates
CHECK_DEADLOCK FALSE
