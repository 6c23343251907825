SPECIFICATION Spec
CONSTANTS
    board = board
    other = other
    temp = temp
    accel = accel
    t = t
    x = x
    y = y
    Addresses = {board, other}
    MaxRows = 2
    ReadFaults = FALSE
    AppIdLen = 2
    Payloads <- OnlyTheId
    NoAddress = NoAddress
    Polls = {p1, p2}
    Resources = {temp, accel}
    RecordNames = {t, x, y}
    Offers <- MCOffers
    Records <- MCRecords
    NoDevice = NoDevice
INVARIANTS
    OnePointPerPoll
    NothingAfterRequestError
    Accounted
CHECK_DEADLOCK FALSE
SYMMETRY Symmetry
