\* One Distribution; no failed API writes, nobody else at AWS: settling and liveness.
SPECIFICATION FairSpec
CHECK_DEADLOCK FALSE
CONSTANTS
    NoConfig = NoConfig
    NoObject = NoObject
    NoTLS = NoTLS
    Distros = {d1}
    Configs = {c1, c2}
    Hostless = {}
    CloudFrontSpecs = {"cloudfront"}
    PlainSpecs = {"plain"}
    Serials = {"01", "02"}
    MaxCf = 2
    MaxArn = 4
    Secrets = {s1}
    ClassNames = {k1}
    Specs <- TwoConfigs
    Chaos = {"edit", "delete", "class", "secret", "crash", "awsError", "awsLost", "stale"}
    Uncounted = {}
    MaxChaos = 3
INVARIANTS
    SettledWhenIdle
PROPERTIES
    BecomesReady
    DeletionCompletes
    Promise
