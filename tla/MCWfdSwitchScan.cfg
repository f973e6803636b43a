CONSTANTS
    MaxEvents = 1
SPECIFICATION Spec
INVARIANTS ScanWhenOff
CHECK_DEADLOCK FALSE
