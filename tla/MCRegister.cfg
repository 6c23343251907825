SPECIFICATION FairSpec
CONSTANTS
    board = board
    other = other
    temp = temp
    accel = accel
    t = t
    x = x
    y = y
    Addresses = {board, other}
    MaxRows = 2
    ReadFaults = FALSE
    AppIdLen = 2
    Payloads <- FullPayloads
    NoAddress = NoAddress
    Polls = {p1, p2}
    Resources = {temp}
    RecordNames = {t}
    Offers <- MCOffers
    Records <- MCRecords
    NoDevice = NoDevice
INVARIANTS
    TypeOK
    UniqueAddress
    OnlyAnnounced
    NeverOvercounted
    ExactCount
PROPERTIES
    IsRegister
    EveryPollEnds
CHECK_DEADLOCK FALSE
