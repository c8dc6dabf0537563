\* Two Distributions, two secrets, one of which goes missing.
SPECIFICATION Spec
CHECK_DEADLOCK FALSE
CONSTANTS
    NoConfig = NoConfig
    NoObject = NoObject
    NoTLS = NoTLS
    Distros = {d1, d2}
    Configs = {c1}
    Hostless = {}
    CloudFrontSpecs = {"cloudfront"}
    PlainSpecs = {}
    Serials = {"01"}
    MaxCf = 2
    MaxArn = 3
    Secrets = {s1, s2}
    ClassNames = {k1}
    Specs <- TwoConfigs
    Chaos = {"secret"}
    Uncounted = {}
    MaxChaos = 1
INVARIANTS
    CertificateIsOwn
