CONSTANTS
    TimeOut = 5
    Period = 2
    Links = {0, 3, 4, 7}
SPECIFICATION Spec
PROPERTIES SwitchesTimer
CHECK_DEADLOCK FALSE
