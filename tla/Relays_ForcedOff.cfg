SPECIFICATION Spec
CONSTANTS
    Relays = {1, 2}
    Board = "relay"
    None = None
INVARIANTS
    OffMeansOff
