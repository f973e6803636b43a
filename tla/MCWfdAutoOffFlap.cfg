CONSTANTS
    TimeOut = 5
    Period = 2
    Links = {0, 3, 4, 7}
SPECIFICATION Spec
PROPERTIES NoActivity
CHECK_DEADLOCK FALSE
