SPECIFICATION MCSpec
CONSTANTS
    MaxDoublings = 3
    MaxLate = 2
    None = None
    NULL = NULL
    c1 = c1
    c2 = c2
    Answers <- MCAnswers
    BufferMax = 4
    MostAtOnce = 2
INVARIANTS
    PartsTypeOK
    OneChain
    HttpRight
    DeliveryRight
PROPERTIES
    RequestsEnd
    MqttMoves
CHECK_DEADLOCK FALSE
