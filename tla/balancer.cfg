\* The origin is a Service's load balancer, whose address changes.
SPECIFICATION ManagerSpec
CHECK_DEADLOCK FALSE
CONSTANTS
    NoConfig = NoConfig
    NoObject = NoObject
    NoTLS = NoTLS
    NoIngress = NoIngress
    NoClass = NoClass
    UsesService = TRUE
    MaxUid = 1
    Distros = {d1}
    Configs = {c1, c2}
    Hostless = {}
    CloudFrontSpecs = {"cloudfront"}
    PlainSpecs = {}
    Serials = {"01"}
    MaxCf = 1
    MaxArn = 1
    Secrets = {s1}
    ClassNames = {k1}
    Specs <- WithTLS
    Chaos = {"ingress", "balancer"}
    Uncounted = {}
    MaxChaos = 2
INVARIANTS
    BalancerFollowed
