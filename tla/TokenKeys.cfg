\* Two instances, one token and one verification at a time; one rotation of either purpose,
\* which may take a unit of time to commit.
CONSTANTS
    i1 = i1
    i2 = i2
    t1 = t1
    v1 = v1
    Instances = {i1, i2}
    Tokens = {t1}
    Verifications = {v1}
    MaxKeys = 2
    MaxRotations = 1
    Unloadable <- MCUnloadable
    TTL = 2
    Tolerance = 1
    Interval = 1
    Cooldown = 1
    Wait = 1
SPECIFICATION FairSpec
INVARIANTS TypeOK TrustIsRecent OverlapCoversFresh RetrySuffices
PROPERTY SnapshotsConverge
