\* Two Distributions of two namespaces, five classes and secrets.
SPECIFICATION FairSpec
CHECK_DEADLOCK FALSE
CONSTANTS
    NoRef = NoRef
    Nowhere = Nowhere
    Absent = Absent
    Keys <- TwoKeys
    Specs <- ByKind
    Auths <- SomeAuths
    Certificates = {x, y}
    Watched <- Resources
    Grants <- EastGrants
    MaxChanges = 2
INVARIANTS
    NoWakeupLost
PROPERTIES
    RepairHeals
