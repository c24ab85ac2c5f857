SPECIFICATION ShellSpec
CONSTANTS
    Others <- MCOthers
    MaxListeners = 3
    MaxBuffered = 2
INVARIANTS ShiftIsTracked
CHECK_DEADLOCK FALSE
