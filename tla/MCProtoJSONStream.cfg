SPECIFICATION Spec
CONSTANTS
    MaxTokens = 5
    Inputs <- MCInputs
INVARIANTS
    TypeOK
    MessagesInOrder
    EOFIsNoError
