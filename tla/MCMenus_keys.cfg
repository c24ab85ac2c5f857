SPECIFICATION ShellSpec
CONSTANTS
    Others <- MCOthers
    MaxListeners = 3
    MaxBuffered = 2
INVARIANTS ShowsSelection CalledInOrder DecodesAsTyped
PROPERTIES ClearedIsDrawnAgain
CHECK_DEADLOCK FALSE
