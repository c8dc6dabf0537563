\* A Distribution without a TLS section; nothing goes wrong around it.
SPECIFICATION Spec
CHECK_DEADLOCK FALSE
CONSTANTS
    NoConfig = NoConfig
    NoObject = NoObject
    NoTLS = NoTLS
    Distros = {d1}
    Configs = {c1}
    Hostless = {}
    CloudFrontSpecs = {"cloudfront"}
    PlainSpecs = {}
    Serials = {"01"}
    MaxCf = 2
    MaxArn = 2
    Secrets = {s1}
    ClassNames = {k1}
    Specs <- MaybeTLS
    Chaos = {}
    Uncounted = {}
    MaxChaos = 0
INVARIANTS
    TLSIsOptional
