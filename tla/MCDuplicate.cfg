SPECIFICATION Spec
CONSTANTS
    board = board
    other = other
    temp = temp
    accel = accel
    t = t
    x = x
    y = y
    Addresses = {board}
    MaxRows = 2
    ReadFaults = TRUE
    AppIdLen = 2
    Payloads <- OnlyTheId
    NoAddress = NoAddress
    Polls = {p1}
    Resources = {temp}
    RecordNames = {t}
    Offers <- MCNoOffers
    Records <- MCRecords
    NoDevice = NoDevice
INVARIANTS
    UniqueAddress
CHECK_DEADLOCK FALSE
