SPECIFICATION Spec
CONSTANTS
    Letters  <- MCLetters
    Commands <- MCCommands
    Ports    <- MCPorts
    UARTSH_BUFFER_MAX = 2
    PROMPT_LENGTH = 2
CHECK_DEADLOCK FALSE
INVARIANTS PromptStands
PROPERTIES RunsWhatIsShown HaltsOnlyAtStart ListensFromThenOn
