SPECIFICATION Spec
CONSTANTS
    NTasks = 3
    Contents = {r1, r2, r3}
INVARIANTS ProgramUndisturbed HandlerKnowsCaller
PROPERTIES DiesOnlyInWindow SyscallsReturn
CHECK_DEADLOCK FALSE
