SPECIFICATION Spec
CONSTANTS
    Second = 1
    IntMax = 40
    Parameters <- MCParameters
INVARIANTS
    TypeOK
    PanicsOnlyIfUnsound
    PauseBounded
PROPERTIES
    PeriodGrows
CHECK_DEADLOCK FALSE
