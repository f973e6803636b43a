CONSTANTS
    MaxLoads = 2
    MaxPopups = 2
SPECIFICATION Spec
INVARIANTS TypeOK SourcesAreAlive NoneLeftBehind KeepsClient UnusableAsksToEnd
CHECK_DEADLOCK FALSE
