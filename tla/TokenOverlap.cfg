\* One instance and one token, and no verification.
CONSTANTS
    i1 = i1
    i2 = i2
    t1 = t1
    v1 = v1
    Instances = {i1}
    Tokens = {t1}
    Verifications = {}
    MaxKeys = 2
    MaxRotations = 1
    Unloadable = {}
    TTL = 2
    Tolerance = 1
    Interval = 2
    Cooldown = 1
    Wait = 0
SPECIFICATION Spec
INVARIANT OverlapCovers
