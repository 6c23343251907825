SPECIFICATION Spec
CONSTANTS
    Hosts = {h1, h2, h3, h4}
    MAX_BOARD_NUM = 3
    AppIdLen = 2
    Payloads <- SomePayloads
    Unset = Unset
    RecvFaults = TRUE
INVARIANTS
    TypeOK
    OneSlotPerBoard
PROPERTIES
    RequestsReachBoards
    SlotsAreKept
CHECK_DEADLOCK FALSE
