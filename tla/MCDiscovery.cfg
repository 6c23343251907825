SPECIFICATION Spec
CONSTANTS
    Addresses = {b1, b2}
    Boards = {b1, b2}
    MaxRows = 2
    ReadFaults = FALSE
    AppIdLen = 2
    Payloads <- OtherPayloads
    NoAddress = NoAddress
    SendFaults = TRUE
    MaxRestarts = 1
PROPERTIES
    AnnouncersGetRegistered
CHECK_DEADLOCK FALSE
