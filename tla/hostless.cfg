\* A Distribution without hosts; nothing goes wrong around it.
SPECIFICATION FairSpec
CHECK_DEADLOCK FALSE
CONSTANTS
    NoConfig = NoConfig
    NoObject = NoObject
    NoTLS = NoTLS
    Distros = {d1}
    Configs = {c1}
    Hostless = {c1}
    CloudFrontSpecs = {"cloudfront"}
    PlainSpecs = {}
    Serials = {"01"}
    MaxCf = 2
    MaxArn = 2
    Secrets = {s1}
    ClassNames = {k1}
    Specs <- TwoConfigs
    Chaos = {}
    Uncounted = {}
    MaxChaos = 0
PROPERTIES
    UpdateOnlyOnChange
