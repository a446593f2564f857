SPECIFICATION Spec
CONSTANTS
    Requests <- MCRequests
    Files <- MCFiles
    Envs <- MCEnvs
INVARIANTS
    TypeOK
    OrderlyExitAnswersAll
    ClientsOutliveHandlers
    ServesSoundConfig
PROPERTIES
    SignalCutsOnlyInGaps
    StopsWhenAsked
CHECK_DEADLOCK FALSE
