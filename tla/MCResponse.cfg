SPECIFICATION Spec
CONSTANTS
    Names <- AllNames
    Units <- AllUnits
    Readings <- AllReadings
    TokenLens <- AllTokenLens
INVARIANTS
    TypeOK
    AnswerTellsReading
    PacketFits
    OnlyKnownCrashes
    RoundsNonNegative
CHECK_DEADLOCK FALSE
