\* One Ingress name, two incarnations of its Distribution, both controllers.
SPECIFICATION FairManagerSpec
CHECK_DEADLOCK FALSE
CONSTANTS
    NoConfig = NoConfig
    NoObject = NoObject
    NoTLS = NoTLS
    NoIngress = NoIngress
    NoClass = NoClass
    UsesService = FALSE
    MaxUid = 2
    Distros = {d1, d2, d3}
    Configs = {c1, c2}
    Hostless = {}
    CloudFrontSpecs = {"cloudfront"}
    PlainSpecs = {}
    Serials = {"01"}
    MaxCf = 3
    MaxArn = 5
    Secrets = {s1}
    ClassNames = {k1}
    Specs <- WithTLS
    Chaos = {"ingress", "balancer", "delete", "edit", "crash", "stale"}
    Uncounted = {}
    MaxChaos = 2
INVARIANTS
    InSyncWhenQuiet
    CleanWhenQuiet
PROPERTIES
    IngressServed
    NeverUndone
