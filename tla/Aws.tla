--------------------------------- MODULE Aws ---------------------------------
(***************************************************************************)
(* The two AWS services the manager drives: CloudFront (distributions) and *)
(* ACM (certificates).  Neither is part of the repository: they are        *)
(* modelled from how pkg/provider/cloudfront uses their clients and from   *)
(* the error codes it tests for.  Only what the controller can tell apart  *)
(* is kept: a distribution's life cycle, its owner, its configuration and  *)
(* its certificate; a certificate's serial number.                         *)
(***************************************************************************)
EXTENDS Integers, FiniteSets

CONSTANTS
    Distros,          \* Distribution resources, each standing for its UID
    Configs,          \* what Spec.{Origin,Hosts,TLS.Mode} may ask for
    CloudFrontSpecs,  \* class specs with a CloudFront provider section
    Serials,          \* serial numbers of usable TLS certificates (strings)
    MaxCf,            \* quota: CloudFront distributions ever created
    MaxArn,           \* quota: certificates ever imported as new
    NoConfig,         \* a configuration nobody here asked for
    NoObject,         \* absence of a Kubernetes object
    Chaos,            \* kinds of perturbation switched on
    Uncounted,        \* the kinds among them that may occur any number of times
    MaxChaos          \* how many of the others a behaviour may hold

CfIds == 1..MaxCf
Arns  == 1..MaxArn

Kinds == {"edit", "delete", "class", "secret", "resync", "crash", "apiError",
          "apiLost", "awsError", "awsLost", "drift", "destroy", "stale",
          "ingress", "balancer"}

ASSUME QuotaAssumption == MaxCf \in Nat /\ MaxArn \in Nat /\ MaxChaos \in Nat
ASSUME SerialAssumption == /\ IsFiniteSet(Serials)
                           /\ Serials \cap {"unused", "gone", "absent", "opaque",
                                            "garbage", "blank"} = {}
ASSUME ChaosAssumption == Chaos \subseteq Kinds /\ Uncounted \subseteq Chaos

VARIABLES
    cf,     \* CloudFront: distribution by id
    acm,    \* ACM: the serial of each imported certificate, by ARN
    chaos   \* counted perturbations so far

awsVars == <<cf, acm>>

-----------------------------------------------------------------------------

Phases == {"unused", "InProgress", "Deployed", "gone"}

\* A DistributionConfig, up to what DeepEqual of desired and current tells apart.
CfConfig == [config : Configs, class : CloudFrontSpecs] \cup {NoConfig}

CfRecord == [phase : Phases, ref : Distros \cup {NoObject}, enabled : BOOLEAN,
             config : CfConfig, arn : Arns \cup {0}]

UnusedCf == [phase |-> "unused", ref |-> NoObject, enabled |-> FALSE,
             config |-> NoConfig, arn |-> 0]

AwsTypeOK == /\ cf \in [CfIds -> CfRecord]
             /\ acm \in [Arns -> Serials \cup {"unused", "gone"}]
             /\ chaos \in 0..MaxChaos

AwsInit == /\ cf = [i \in CfIds |-> UnusedCf]
           /\ acm = [a \in Arns |-> "unused"]
           /\ chaos = 0

Live(i) == i \in CfIds /\ cf[i].phase \in {"InProgress", "Deployed"}

\* The distributions created with the caller reference ref.
Owned(ref) == {i \in CfIds : Live(i) /\ cf[i].ref = ref}

Imported(a) == a \in Arns /\ acm[a] \in Serials

\* A distribution may only name a certificate that exists; 0 is AWS's own.
Usable(a) == a = 0 \/ Imported(a)

InUse(a) == \E i \in CfIds : Live(i) /\ cf[i].arn = a

\* The next id AWS hands out.
FreshCf(i) == /\ cf[i].phase = "unused"
              /\ \A j \in CfIds : j < i => cf[j].phase # "unused"
FreshArn(a) == /\ acm[a] = "unused"
               /\ \A b \in Arns : b < a => acm[b] # "unused"

-----------------------------------------------------------------------------
(* Perturbations: what a user, a failure, a slow informer or another AWS      *)
(* client may do.  Each takes one unit of the bound MaxChaos, unless Uncounted. *)

Perturb(kind) == /\ kind \in Chaos
                 /\ IF kind \in Uncounted THEN UNCHANGED chaos
                    ELSE chaos < MaxChaos /\ chaos' = chaos + 1

\* CloudFront finishes rolling a configuration out.
Deploy(i) == /\ cf[i].phase = "InProgress"
             /\ cf' = [cf EXCEPT ![i].phase = "Deployed"]
             /\ UNCHANGED <<acm, chaos>>

\* Another client changes a distribution's configuration.
Drift(i) == /\ Perturb("drift")
            /\ Live(i)
            /\ \E on \in BOOLEAN :
                 cf' = [cf EXCEPT ![i] = [@ EXCEPT !.phase = "InProgress", !.enabled = on,
                                                   !.config = NoConfig]]
            /\ UNCHANGED acm

\* Another client disables and deletes a distribution ...
Destroy(i) == /\ Perturb("destroy")
              /\ Live(i)
              /\ cf' = [cf EXCEPT ![i].phase = "gone"]
              /\ UNCHANGED acm

\* ... or deletes a certificate no distribution uses.
DestroyCert(a) == /\ Perturb("destroy")
                  /\ Imported(a)
                  /\ ~InUse(a)
                  /\ acm' = [acm EXCEPT ![a] = "gone"]
                  /\ UNCHANGED cf
=============================================================================
