SPECIFICATION AuthenticationSpec
CONSTANTS
    c1 = c1
    c2 = c2
    c3 = c3
    Client = {c1, c2, c3}
    MaxCodes = 3
    MaxTokens = 3
    MaxAttempts = 2
    MaxRequests = 5
    Session = {c1, c2}
    MaxSecrets = 2
    MaxSlice = 4
    MaxRotations = 1
    MaxSteps = 4
INVARIANTS
    AuthenticationTypeOK
    OneActivePerLogin
    CodeAcceptedOnce
    EnabledIsProven
PROPERTY
    OnlyFreshCodeConfirms
CHECK_DEADLOCK FALSE
