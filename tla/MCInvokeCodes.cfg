SPECIFICATION Spec
CONSTANTS
    Reasons = {"", "DISABLED"}
    Second = 1
    IntMax = 30
    MaxTime = 3
    MaxCount = 2
    CallErrors <- MCErrors
    SettingsChoices <- MCSettings
    FeatureChoices <- MCFeatures
    CallerDeadlines <- MCDeadlines
INVARIANTS
    RetryOnlyWhenPromised
