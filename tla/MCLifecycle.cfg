SPECIFICATION Spec
CONSTANTS
    Polls = {p1, p2}
    Commands = {{}, {"sampleconfig"}, {"config", "sampleconfig"}, {"cleardb"}, {"initdb"}, {"reinitdb"}, {"cleardb", "initdb"}}
INVARIANTS
    TypeOK
    InitMakesDatabase
    EndIsExplained
PROPERTIES
    NothingElseLost
    FailureEndsServer
    ServerKeepsPolling
    RecoverableDatabase
    NoPollAfterCancel
CHECK_DEADLOCK FALSE
