\* Three requests out of ten, two at a time, one fault and one change by an operator.
CONSTANTS
    Tenants = {"t1", "t2"}
    Legacy <- MCLegacy
    InitStatus <- MCInitStatus
    Profiles <- MCProfiles
    MaxRequests = 3
    MaxInFlight = 2
    MaxFaults = 1
    MaxChanges = 1
SPECIFICATION Spec
INVARIANTS TypeOK OneAccountEach SuspensionBites ServedIsEntitled VerdictsRecorded
PROPERTIES PasswordsKept RolesAreMeant
CHECK_DEADLOCK FALSE
