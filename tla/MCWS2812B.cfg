SPECIFICATION Spec
CONSTANTS
    MAX_LED_NUM = 3
    Counts = {0, 1, 2, 3}
    Colors <- AllColors
    Length = 2
    NopNs = 21
    RestNs <- AllRests
    Timing <- Quoted
PROPERTIES
    IsStripe
    InterruptsComeBack
CHECK_DEADLOCK FALSE
