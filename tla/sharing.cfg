\* Two Distributions behind one worker: what belongs to one never ends up with the other.
SPECIFICATION Spec
CHECK_DEADLOCK FALSE
CONSTANTS
    NoConfig = NoConfig
    NoObject = NoObject
    NoTLS = NoTLS
    Distros = {d1, d2}
    Configs = {c1}
    Hostless = {}
    CloudFrontSpecs = {"cloudfront"}
    PlainSpecs = {}
    Serials = {"01"}
    MaxCf = 3
    MaxArn = 3
    Secrets = {s1}
    ClassNames = {k1}
    Specs <- TwoConfigs
    Chaos = {"delete", "crash", "apiError", "awsLost", "destroy"}
    Uncounted = {}
    MaxChaos = 2
INVARIANTS
    OwnershipIsExclusive
