------------------------- MODULE DistributionRefinement -------------------------
(***************************************************************************)
(* The Distribution controller implements ManagedDistribution: what a user *)
(* is promised, seen through caches, passes, AWS calls and their failures. *)
(***************************************************************************)
EXTENDS DistributionController

ASSUME WishAssumption == /\ Configs \cap {"doomed", "gone"} = {}
                         /\ NoConfig \notin [config : Configs, class : CloudFrontSpecs]

\* What the object of d asks for.
WishOf(d) == CASE ~Exists(d)                    -> "gone"
               [] Exists(d) /\ obj[d].deleting  -> "doomed"
               [] OTHER                         -> obj[d].spec.config

StateOf(phase) == CASE phase = "InProgress" -> "rolling"
                    [] phase = "Deployed"   -> "settled"
                    [] OTHER                -> phase

\* A CloudFront distribution without its certificate and its class.
View(r) == [state |-> StateOf(r.phase), on |-> r.enabled, owner |-> r.ref,
            serves |-> IF r.config = NoConfig THEN NoConfig ELSE r.config.config]

Site(i) == View(cf[i])

\* The objects whose status says so.
Ready == {d \in Distros : Exists(d) /\ ~obj[d].deleting /\ obj[d].status.ready}

WantedBy == [d \in Distros |-> WishOf(d)]
SiteAt   == [i \in CfIds |-> Site(i)]

\* The pass at work is for a class no provider takes.
Unmanaged == pc # "idle" /\ ~Wants(cls)

Promised == INSTANCE ManagedDistribution WITH
    Owners <- Distros, Sites <- CfIds, Wishes <- Configs,
    Nobody <- NoObject, Nothing <- NoConfig,
    wanted <- WantedBy, site <- SiteAt, ready <- Ready, unmanaged <- Unmanaged

\* One site per owner, never turned off or removed while it is wanted, and announced as
\* ready only when it serves, rolled out, the wish of that moment: through stale copies,
\* conflicts, lost answers and crashes, as long as nobody else meddles at AWS.
Promise == Promised!Spec
=============================================================================
