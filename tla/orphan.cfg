\* A user deletes a Distribution while it is being created.
SPECIFICATION FairSpec
CHECK_DEADLOCK FALSE
CONSTANTS
    NoConfig = NoConfig
    NoObject = NoObject
    NoTLS = NoTLS
    Distros = {d1}
    Configs = {c1, c2}
    Hostless = {}
    CloudFrontSpecs = {"cloudfront"}
    PlainSpecs = {}
    Serials = {"01"}
    MaxCf = 2
    MaxArn = 2
    Secrets = {s1}
    ClassNames = {k1}
    Specs <- TwoConfigs
    Chaos = {"delete"}
    Uncounted = {}
    MaxChaos = 1
PROPERTIES
    NothingLeftBehind
