\* One Distribution, everything that can go wrong, safety.
SPECIFICATION Spec
CHECK_DEADLOCK FALSE
CONSTANTS
    NoConfig = NoConfig
    NoObject = NoObject
    NoTLS = NoTLS
    Distros = {d1}
    Configs = {c1, c2}
    Hostless = {}
    CloudFrontSpecs = {"cloudfront"}
    PlainSpecs = {"plain"}
    Serials = {"01", "02"}
    MaxCf = 2
    MaxArn = 2
    Secrets = {s1}
    ClassNames = {k1}
    Specs <- TwoConfigs
    Chaos = {"edit", "delete", "class", "secret", "resync", "crash", "apiError", "apiLost", "awsError", "awsLost", "drift", "destroy", "stale"}
    Uncounted = {"stale"}
    MaxChaos = 3
INVARIANTS
    TypeOK
    OneDistributionPerResource
PROPERTIES
    UnfinalizeOnlyWhenGone
    ReadyIsEarned
    ForgetOnlyDead
    NeverTurnedOff
