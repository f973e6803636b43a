CONSTANTS
    TimeOut = 5
    Period = 2
    Links = {0, 3, 4, 7}
SPECIFICATION Spec
INVARIANTS TypeOK OneHandle IdleIsQuiet
PROPERTIES OffersInTime OffersOnce
CHECK_DEADLOCK FALSE
