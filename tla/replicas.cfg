\* One Distribution, two managers with caches of their own, as stale as can be.
SPECIFICATION Spec
CHECK_DEADLOCK FALSE
SYMMETRY Symmetry
CONSTANTS
    NoConfig = NoConfig
    NoObject = NoObject
    NoTLS = NoTLS
    Distros = {d1}
    Configs = {c1, c2}
    Hostless = {}
    CloudFrontSpecs = {"cloudfront"}
    PlainSpecs = {}
    Serials = {"01"}
    MaxCf = 2
    MaxArn = 2
    Secrets = {s1}
    ClassNames = {k1}
    Specs <- WithTLS
    Chaos = {"edit", "delete", "stale", "crash"}
    Uncounted = {"stale"}
    MaxChaos = 1
INVARIANTS
    OnlyOneForBoth
    SettledForBoth
PROPERTIES
    BothRemember
    NeitherTearsDown
