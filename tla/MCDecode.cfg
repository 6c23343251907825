SPECIFICATION Spec
CONSTANTS
    Documents <- MCDocuments
    Nums = {0, 1, 2, 3}
    BaseKeys = {"bn"}
    FieldKeys = {"n", "u"}
    ValueKeys = {"v", "vs"}
INVARIANTS
    TypeOK
    InBounds
    PackIsDocument
CHECK_DEADLOCK FALSE
