SPECIFICATION Spec
CONSTANTS
    board = board
    other = other
    temp = temp
    accel = accel
    t = t
    x = x
    y = y
    Addresses = {board, other}
    MaxRows = 2
    ReadFaults = FALSE
    AppIdLen = 2
    Payloads <- ShortPayloads
    NoAddress = NoAddress
    Polls = {p1}
    Resources = {temp}
    RecordNames = {t}
    Offers <- MCNoOffers
    Records <- MCRecords
    NoDevice = NoDevice
INVARIANTS
    OnlyAnnounced
CHECK_DEADLOCK FALSE
