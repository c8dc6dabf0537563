--------------------------- MODULE DistributionConfig ---------------------------
(***************************************************************************)
(* pkg/provider/cloudfront/distribution.go, the part CloudFrontProvider    *)
(* abstracts: how a spec, a class and a certificate become the             *)
(* DistributionConfig that is sent to AWS, and how Check() compares it     *)
(* with what AWS answers.  Fields with a fixed value are left out.         *)
(*                                                                         *)
(* Host names are numbers in their alphabetical order.  One Distribution;  *)
(* a pass reads everything at once and writes in a step of its own.        *)
(***************************************************************************)
EXTENDS Integers, FiniteSets, Sequences, SequencesExt

CONSTANTS
    Origins,      \* Spec.Origin: host and ports
    HostLists,    \* the values of Spec.Hosts users may write
    MethodLists,  \* the values of SupportedMethods classes may have
    CacheIds,     \* ids of CloudFront cache policies
    RequestIds,   \* ids of CloudFront origin request policies
    SslModes,     \* the values of sslMode
    Arns,         \* ARNs of imported certificates
    None,         \* an empty string or a nil pointer
    MaxEdits      \* how often the user or the certificate changes

ASSUME ListAssumption == /\ HostLists \subseteq Seq(Nat)
                         /\ MethodLists \subseteq Seq(STRING)
ASSUME EditAssumption == MaxEdits \in Nat

VARIABLES
    spec,     \* the newest spec, class and certificate
    class,
    arn,
    hosted,   \* the configuration AWS holds, or None
    pass,     \* what a pass has loaded and wants, or None
    awake,    \* the Distribution waits to be reconciled
    edits

vars == <<spec, class, arn, hosted, pass, awake, edits>>

Modes == {"redirect", "only", "both"}

DistributionSpec == [origin : Origins, hosts : HostLists, mode : Modes]

CloudFrontSpec == [methods : MethodLists, cachePolicyId : CacheIds \cup {None},
                   originRequestPolicyId : RequestIds \cup {None},
                   sslMode : SslModes]

-----------------------------------------------------------------------------
(* generateDistributionConfig                                               *)

Unsafe == {"POST", "PUT", "DELETE"}

\* calculateMethods: CloudFront has three sets of methods to choose from.  OPTIONS is
\* appended as often as it is listed.
Methods(c) ==
    LET listed == {k \in DOMAIN c.methods : c.methods[k] = "OPTIONS"}
        some   == <<"HEAD", "GET">> \o [k \in 1..Cardinality(listed) |-> "OPTIONS"]
    IN IF ToSet(c.methods) \cap Unsafe # {}
       THEN [allowed |-> <<"HEAD", "GET", "OPTIONS", "POST", "PUT", "DELETE">>,
             cached  |-> <<"HEAD", "GET", "OPTIONS">>]
       ELSE [allowed |-> some, cached |-> some]

\* calculateViewerPolicy
ViewerPolicy(s) == CASE s.mode = "both"     -> "allow-all"
                     [] s.mode = "only"     -> "https-only"
                     [] s.mode = "redirect" -> "redirect-to-https"

\* calculateViewerCertificate
ViewerCertificate(c, a) == [source |-> "acm", arn |-> a, support |-> c.sslMode,
                            minimum |-> "TLSv1.2_2021"]

AliasesBug(s) == s.hosts     \* not sorted

\* The orders in which a list can be put.
Orders(l) == {[k \in DOMAIN l |-> l[p[k]]] : p \in Bijection(DOMAIN l, DOMAIN l)}

\* sort.Strings
Sorted(l) == CHOOSE o \in Orders(l) : \A j, k \in DOMAIN l : j < k => o[j] <= o[k]

\* calculateAliases
Aliases(s) == Sorted(s.hosts)

\* calculateForwardedValues and calculateTTLs: both give way to a cache policy.
ForwardHost == [cookies |-> "none", queryString |-> TRUE, headers |-> {"Host"}]
DefaultTTLs == [min |-> 0, max |-> 31536000, default |-> 86400]

ForwardedValues(c) == IF c.cachePolicyId # None THEN None ELSE ForwardHost

TTLsBug(c) == DefaultTTLs     \* whatever the cache policy

TTLs(c) == IF c.cachePolicyId # None THEN None ELSE DefaultTTLs

Generate(s, c, a) ==
    [origin                |-> s.origin,
     aliases               |-> Aliases(s),
     viewerCertificate     |-> ViewerCertificate(c, a),
     viewerProtocolPolicy  |-> ViewerPolicy(s),
     cachePolicyId         |-> c.cachePolicyId,
     originRequestPolicyId |-> c.originRequestPolicyId,
     forwardedValues       |-> ForwardedValues(c),
     ttls                  |-> TTLs(c),
     methods               |-> Methods(c)]

\* The configurations there are.
Configuration ==
    [origin                : Origins,
     aliases               : Seq(Nat),
     viewerCertificate     : {ViewerCertificate(c, a) : c \in CloudFrontSpec, a \in Arns},
     viewerProtocolPolicy  : {ViewerPolicy(s) : s \in DistributionSpec},
     cachePolicyId         : CacheIds \cup {None},
     originRequestPolicyId : RequestIds \cup {None},
     forwardedValues       : {ForwardHost, None},
     ttls                  : {DefaultTTLs, None},
     methods               : {Methods(c) : c \in CloudFrontSpec}]

Pass == [seen : Configuration \cup {None}, want : Configuration]

ASSUME NoneAssumption == None \notin {ForwardHost, DefaultTTLs} \cup Configuration \cup Pass

-----------------------------------------------------------------------------
(* CloudFront                                                               *)

\* "CloudFront returns the list in the order that they were added": by whom and when is
\* not known, so in any order.
Stored(config) == {[config EXCEPT !.aliases = o] : o \in Orders(config.aliases)}

\* CloudFront's words for SSLSupportMethod.
SupportMethods == {"sni-only", "vip", "static-ip"}

\* What CloudFront asks of policies, of the values they replace, and of the way TLS is
\* served.  Which sets of methods it takes is not judged: the repository has no source
\* for that but the comment of the function that makes them.
Acceptable(config) ==
    /\ config.originRequestPolicyId # None => config.cachePolicyId # None
    /\ (config.cachePolicyId # None) # (config.forwardedValues # None)
    /\ (config.cachePolicyId # None) # (config.ttls # None)
    /\ config.viewerCertificate.support \in SupportMethods

-----------------------------------------------------------------------------
(* The Distribution and its passes                                          *)

Init == /\ spec \in DistributionSpec
        /\ class \in CloudFrontSpec
        /\ arn \in Arns
        /\ hosted = None
        /\ pass = None
        /\ awake = TRUE
        /\ edits = 0

Edit == /\ edits < MaxEdits
        /\ edits' = edits + 1
        /\ awake' = TRUE
        /\ UNCHANGED <<hosted, pass>>

EditSpec == /\ Edit
            /\ spec' \in DistributionSpec \ {spec}
            /\ UNCHANGED <<class, arn>>

EditClass == /\ Edit
             /\ class' \in CloudFrontSpec \ {class}
             /\ UNCHANGED <<spec, arn>>

\* The certificate was lost at AWS and imported again.
Reimport == /\ Edit
            /\ arn' \in Arns \ {arn}
            /\ UNCHANGED <<spec, class>>

InOrderBug(config) == config     \* compared in AWS's order

\* Check() sorts the aliases it has loaded, as AWS lists them in an order of its own.
InOrder(config) == [config EXCEPT !.aliases = Sorted(@)]

\* GetDistribution, or nothing to get yet; then the configuration to compare it with.
Load == /\ awake
        /\ pass = None
        /\ pass' = [seen |-> IF hosted = None THEN None ELSE InOrder(hosted),
                    want |-> Generate(spec, class, arn)]
        /\ awake' = FALSE
        /\ UNCHANGED <<spec, class, arn, hosted, edits>>

DeepEqualBug(current, desired) ==     \* some fields not compared
    /\ current # None
    /\ current.origin = desired.origin
    /\ current.aliases = desired.aliases /\ desired.aliases # <<>>

\* reflect.DeepEqual; two empty lists, one nil and one not, are different for it.
DeepEqual(current, desired) == current = desired /\ desired.aliases # <<>>

Rest == /\ pass # None
        /\ DeepEqual(pass.seen, pass.want)
        /\ pass' = None
        /\ UNCHANGED <<spec, class, arn, hosted, awake, edits>>

\* CreateDistribution or UpdateDistribution.  Taken, the distribution is not ready
\* yet, refused, the pass has failed: either way it is repeated.
Put == /\ pass # None
       /\ ~DeepEqual(pass.seen, pass.want)
       /\ hosted' \in IF Acceptable(pass.want) THEN Stored(pass.want) ELSE {hosted}
       /\ pass' = None
       /\ awake' = TRUE
       /\ UNCHANGED <<spec, class, arn, edits>>

Next == EditSpec \/ EditClass \/ Reimport \/ Load \/ Rest \/ Put

Spec == Init /\ [][Next]_vars

FairSpec == Spec /\ WF_vars(Load) /\ WF_vars(Rest \/ Put)

-----------------------------------------------------------------------------
(* Properties                                                               *)

\* What a class itself can be blamed for: a request policy without the cache policy that
\* the API's comment requires with it, and an sslMode that is not one of CloudFront's
\* words, though the schema takes it ("vpi").
Servable(c) == /\ c.originRequestPolicyId # None => c.cachePolicyId # None
               /\ c.sslMode \in SupportMethods

\* CloudFront refuses a pass only for its class, or because an edit has overtaken it:
\* once the class has been repaired no later pass is refused, although three functions
\* look at the cache policy separately.
RefusedForItsClass ==
    pass # None /\ ~awake /\ Servable(class) => Acceptable(pass.want)

\* Every field of a spec and of a class is in effect in a configuration, as the comments
\* on the fields and on the calculate functions say: methods "standard" to CloudFront
\* work and unsafe ones are not cached, and without a cache policy the origin gets the
\* Host header and the query string.  The documentation of classes promises it cookies
\* too: the code forwards none, and they are left out here.
InEffect(config, s, c, a) ==
    /\ config.origin = s.origin
    /\ ToSet(config.aliases) = ToSet(s.hosts)
    /\ LET allowed == ToSet(config.methods.allowed)
           cached  == ToSet(config.methods.cached)
       IN /\ {"HEAD", "GET"} \cup (ToSet(c.methods) \cap (Unsafe \cup {"OPTIONS"}))
                \subseteq allowed
          /\ "OPTIONS" \in allowed => "OPTIONS" \in cached
          /\ cached \cap Unsafe = {}
    /\ config.viewerProtocolPolicy = "allow-all" <=> s.mode = "both"
    /\ config.viewerProtocolPolicy = "redirect-to-https" <=> s.mode = "redirect"
    /\ config.viewerCertificate.arn = a
    /\ config.viewerCertificate.support = c.sslMode
    /\ config.cachePolicyId = c.cachePolicyId
    /\ config.originRequestPolicyId = c.originRequestPolicyId
    /\ c.cachePolicyId = None => /\ "Host" \in config.forwardedValues.headers
                                /\ config.forwardedValues.queryString

\* The controller rests only once every field of the newest spec, class and certificate
\* is in effect at CloudFront: no edit escapes the comparison, whatever it changes and
\* whenever it comes, and what CloudFront refuses is never taken for what it has.
InEffectAtRest == ~awake /\ pass = None => /\ hosted # None
                                          /\ InEffect(hosted, spec, class, arn)

\* A configuration up to the order of its lists.
Meaning(config) ==
    [config EXCEPT !.aliases = ToSet(@),
                   !.methods = [allowed |-> ToSet(@.allowed), cached |-> ToSet(@.cached)]]

IdlePut == /\ Put
           /\ hosted # None
           /\ pass.want.aliases # <<>>
           /\ Meaning(pass.want) = Meaning(hosted)

\* "If nothing has changed, we do not need to request an update": never is one sent
\* that means what CloudFront already has, in whatever order it lists it.
UpdatesMean == [][~IdlePut]_vars

\* Users may edit in any order: once they stop, and unless the class cannot be served or
\* there are no hosts, the controller comes to rest.  Of the class's methods CloudFront
\* is assumed to take what it is sent.
ComesToRest == <>[](Servable(class) /\ spec.hosts # <<>>)
               => <>[](~awake /\ pass = None)
=============================================================================
