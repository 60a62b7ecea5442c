SPECIFICATION DetailSpec
CONSTANTS
    Reasons = {"", "DISABLED", "a", "b"}
    Second = 1
    IntMax = 1000
    MaxLayers = 4
    Origins <- MCOrigins
    Judges <- MCJudges
    Payloads <- MCPayloads
INVARIANTS
    HTTPCodeIsUnderlying
CHECK_DEADLOCK FALSE
