SPECIFICATION MCSpec
CONSTANTS
    Bytes = {"relay", "1"}
    RX_BUFF_SIZE = 4
    MaxLine = 6
    None = None
    Outputs = {1, 2}
    PWM_DEPTH = 3
    PwmPeriod = 10
    Modulus = 32
    Asked = {0, 1, 2, 7}
    patterns <- MCPatterns
    LedMax = 2
    Lengths = {0, 1}
    Shades = 6
    Published = {"red"}
    Codes <- MCCodes
    FamilyBits = 2
    Families <- MCFamilies
    MaxDevices = 5
    Temperatures = {1}
    Width = 2
    Measured <- MCMeasured
    ByteBits = 3
    Tries = 4
    InitClocks = 13
    Address = 4
    ResetCommand = 6
    Commands = {3, 5}
    Readings <- MCReadings
INVARIANTS
    PartsTypeOK
    LineRight
    ThermometersRight
    HumidityRight
PROPERTIES
    PulsesRight
    PulsesReached
    LedsRight
    SensorsAnswer
CHECK_DEADLOCK FALSE
