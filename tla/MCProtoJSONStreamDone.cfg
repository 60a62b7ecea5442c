SPECIFICATION Spec
CONSTANTS
    MaxTokens = 5
    Inputs <- MCInputs
INVARIANTS
    DoneStaysDone
