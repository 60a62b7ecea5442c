SPECIFICATION FairSpec
CONSTANTS
    Users = {c1, c2}
    Askers = {c1, c2}
    MaxChanges = 1
    Second = 1
    IntMax = 100
    MaxAttempts = 2
    Environments <- MCEnvironments
    TelemetryOptions <- MCTelemetryOptions
    CallOptions <- MCCallOptions
    Keyvals <- MCKeyvals
    Parameters <- MCParameters
INVARIANTS
    TypeOK
    FlagsOfOneEnvironment
    OneInstrument
    PointIsOwn
    OwnEnvelope
PROPERTIES
    EveryCallEnds
