\* Three requests, two at a time, on two instances, and no more than one fault.
CONSTANTS
    NumReplicas = 2
    Tiers = {"client", "route", "account", "address"}
    LimitOf <- MCLimitOf
    WindowOf <- MCWindowOf
    BucketKeys <- MCBucketKeys
    Profiles <- MCProfiles
    Second = 2
    MaxRequests = 3
    MaxInFlight = 2
    MaxFaults = 1
SPECIFICATION Spec
INVARIANT FailureIsCounted
