SPECIFICATION HeaderSpec
CONSTANTS
    Goroutines = {g1, g2}
    key = key
    XGoog = xgoog
    Keys = {key, xgoog}
    v = v
    w = w
    Values = {v, w}
    Blank = blank
    Keyvals <- MCKeyvals
    MaxContexts = 4
INVARIANTS
    ExistingValuesKept
SYMMETRY MCGoroutines
