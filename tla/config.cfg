\* One Distribution from spec and class to what CloudFront holds.
SPECIFICATION FairSpec
CHECK_DEADLOCK FALSE
CONSTANTS
    None = None
    Origins = {o1, o2}
    HostLists <- Lists
    MethodLists <- ThreeMethods
    CacheIds = {cp}
    RequestIds = {rp}
    SslModes = {"sni-only", "vpi"}
    Arns = {a1, a2}
    MaxEdits = 2
INVARIANTS
    RefusedForItsClass
    InEffectAtRest
PROPERTIES
    UpdatesMean
    ComesToRest
