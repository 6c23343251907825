SPECIFICATION Spec
CONSTANTS
    Packs <- AllPacks
    Lens <- AllLens
INVARIANTS
    TypeOK
    InBuffer
    WellFormed
    NothingLost
    RoomSuffices
CHECK_DEADLOCK FALSE
