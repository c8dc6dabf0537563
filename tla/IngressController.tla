--------------------------- MODULE IngressController ---------------------------
(***************************************************************************)
(* pkg/controller/ingress.go: for an annotated Ingress it creates the      *)
(* Distribution of the same name, and afterwards overwrites its spec       *)
(* whenever it differs from what the Ingress asks for.  It shares the API  *)
(* server, and nothing else, with the Distribution controller.             *)
(*                                                                         *)
(* One Ingress name, hence one Distribution name: the members of Distros   *)
(* are the UIDs of its incarnations, of which the API server holds at most *)
(* one at a time.  An address stands for the origin and the hosts that     *)
(* come with it, a member of Configs.                                      *)
(***************************************************************************)
EXTENDS DistributionController

CONSTANTS
    MaxUid,       \* Ingresses ever created under the name
    NoIngress,    \* absence of the Ingress
    NoClass,      \* neither annotation is set
    UsesService   \* --ingress-service is given

ASSUME IngressAssumption ==
    /\ MaxUid \in Nat /\ UsesService \in BOOLEAN
    /\ NoConfig \notin Configs /\ NoClass \notin ClassNames
    /\ NoObject \notin Distros
    /\ \A s \in DistributionSpec : s.secret # NoTLS => s \in Specs

VARIABLES
    ing,        \* the API server's Ingress
    ingCache,   \* the manager's informer cache of it
    balancer,   \* load balancer address of the Service of --ingress-service
    owner,      \* UID of the Ingress in a Distribution's owner reference, or 0
    unborn,     \* UIDs not yet given to a Distribution
    uids,       \* UIDs given to Ingresses so far: 1..uids
    ingQueue,   \* the Ingress waits to be reconciled
    ingPass     \* the write a pass is about to do, or Resting

ingressVars == <<ing, ingCache, balancer, owner, unborn, uids, ingQueue, ingPass>>

Uids == 1..MaxUid

Address == Configs \cup {NoConfig}

Ingress == [uid : Uids, class : ClassNames \cup {NoClass}, address : Address,
            secret : Secrets \cup {NoTLS}]

\* target is the Distribution found, or NoObject; base its cached copy; fresh says
\* that base still is its newest version.
Resting == [target |-> NoObject, base |-> NoObject, want |-> NoConfig, uid |-> 0,
            fresh |-> FALSE]

-----------------------------------------------------------------------------

\* GetIngressHost of the Service's or the Ingress's own load balancer.
Origin(i) == IF UsesService THEN balancer ELSE i.address

\* getDesiredDistribution
DesiredSpec(i) == [config |-> Origin(i), secret |-> i.secret, class |-> i.class]

\* What the cache knows under the name.
Found == {d \in Distros : cache[d] # NoObject}

\* No class annotation, or no load balancer address yet: nothing is done.
Passed(i) == i # NoIngress => i.class = NoClass \/ Origin(i) = NoConfig

InSyncBug(d, spec) == cache[d].spec.secret = spec.secret    \* a new origin unnoticed

\* reflect.DeepEqual(desired.Spec, distro.Spec)
InSync(d, spec) == cache[d].spec = spec

IngressBegin ==
    /\ ingQueue
    /\ ingPass = Resting
    /\ ingQueue' = FALSE
    /\ \/ /\ Passed(ingCache)
          /\ UNCHANGED ingPass
       \/ /\ ~Passed(ingCache)
          /\ Found = {}
          /\ ingPass' = [Resting EXCEPT !.want = DesiredSpec(ingCache), !.uid = ingCache.uid]
       \/ /\ ~Passed(ingCache)
          /\ \E d \in Found :
               ingPass' = IF InSync(d, DesiredSpec(ingCache)) THEN Resting
                          ELSE [target |-> d, base |-> cache[d], uid |-> ingCache.uid,
                                want |-> DesiredSpec(ingCache), fresh |-> synced[d]]
    /\ IF ingCache = ing THEN UNCHANGED chaos ELSE Perturb("stale")
    /\ UNCHANGED <<awsVars, apiVars, inputVars, workerVars, ing, ingCache, balancer, owner,
                   unborn, uids>>

\* Without TLS the host list is nil and sent as null, which the schema of a required
\* list refuses.
Accepted(spec) == spec.secret # NoTLS

OwnerReferenceBug(uid) == 0     \* metadata copied without an owner

\* AddDistributionMeta
OwnerReference(uid) == uid

\* r.Create, its error logged.  A taken name is refused.
IngressCreate ==
    /\ ingPass # Resting /\ ingPass.target = NoObject
    /\ \/ /\ Accepted(ingPass.want) /\ ~\E d \in Distros : Exists(d)
          /\ unborn # {}
          /\ LET d == CHOOSE d \in unborn : TRUE IN
               /\ Write(d, [spec |-> ingPass.want, deleting |-> FALSE, finalizer |-> FALSE,
                            status |-> EmptyStatus])
               /\ owner' = [owner EXCEPT ![d] = OwnerReference(ingPass.uid)]
               /\ unborn' = unborn \ {d}
          /\ UNCHANGED chaos
       \/ /\ \/ /\ ~Accepted(ingPass.want) \/ \E d \in Distros : Exists(d)
                /\ UNCHANGED chaos
             \/ Perturb("apiError")
          /\ UNCHANGED <<apiVars, owner, unborn>>
    /\ ingPass' = Resting
    /\ UNCHANGED <<awsVars, inputVars, workerVars, ing, ingCache, balancer, uids,
                   ingQueue>>

UnconflictedBug == Exists(ingPass.target)     \* a patch without a resource version

\* The API server takes an update of the newest version only.
Unconflicted == ingPass.fresh

\* r.Update, its error logged.  The status is a subresource, which it leaves alone.
IngressUpdate ==
    /\ ingPass.target # NoObject
    /\ LET d == ingPass.target IN
       \/ /\ Accepted(ingPass.want) /\ Unconflicted
          /\ Write(d, [ingPass.base EXCEPT !.spec = ingPass.want, !.status = obj[d].status])
          /\ Outdate(d)
          /\ UNCHANGED chaos
       \/ /\ \/ ~(Accepted(ingPass.want) /\ Unconflicted) /\ UNCHANGED chaos
             \/ Perturb("apiError")
          /\ UNCHANGED <<apiVars, current>>
    /\ ingPass' = Resting
    /\ UNCHANGED <<awsVars, inputVars, passVars, queue, held, ing, ingCache, balancer, owner,
                   unborn, uids, ingQueue>>

IngressWork == IngressBegin \/ IngressCreate \/ IngressUpdate

\* For(&networking.Ingress{}): the Ingress's own watch.
IngressEvent == /\ ingCache # ing
                /\ ingCache' = ing
                /\ ingQueue' = TRUE
                /\ UNCHANGED <<awsVars, chaos, apiVars, inputVars, workerVars, ing, balancer,
                               owner, unborn, uids, ingPass>>

OwnsBug(d) == UNCHANGED ingQueue     \* .Owns left out

\* Owns(&api.Distribution{}): a Distribution event wakes the Ingress that its owner
\* reference names.
Owns(d) == ingQueue' = (ingQueue \/ owner[d] # 0)

-----------------------------------------------------------------------------
(* Users, the cloud and Kubernetes                                          *)

\* A user creates the Ingress, which has no address then, or changes its spec.
ApplyIngress ==
    /\ Perturb("ingress")
    /\ \E new \in Ingress :
         /\ new # ing
         /\ new.uid = IF ing = NoIngress THEN uids + 1 ELSE ing.uid
         /\ new.address = IF ing = NoIngress THEN NoConfig ELSE ing.address
         /\ ing' = new
         /\ uids' = new.uid
    /\ UNCHANGED <<awsVars, apiVars, inputVars, workerVars, ingCache, balancer, owner, unborn,
                   ingQueue, ingPass>>

DeleteIngress == /\ Perturb("delete")
                 /\ ing # NoIngress
                 /\ ing' = NoIngress
                 /\ UNCHANGED <<awsVars, apiVars, inputVars, workerVars, ingCache, balancer,
                                owner, unborn, uids, ingQueue, ingPass>>

\* The load balancer gets an address or another one.  The Ingress's own status has a
\* watch, the Service has none.
AddressChange ==
    /\ \/ /\ UsesService
          /\ balancer' \in Configs \ {balancer}
          /\ IF balancer = NoConfig THEN UNCHANGED chaos ELSE Perturb("balancer")
          /\ UNCHANGED ing
       \/ /\ ~UsesService
          /\ ing # NoIngress
          /\ \E a \in Configs \ {ing.address} : ing' = [ing EXCEPT !.address = a]
          /\ IF ing.address = NoConfig THEN UNCHANGED chaos ELSE Perturb("balancer")
          /\ UNCHANGED balancer
    /\ UNCHANGED <<awsVars, apiVars, inputVars, workerVars, ingCache, owner, unborn, uids,
                   ingQueue, ingPass>>

\* The garbage collector deletes what an Ingress of the past owns.
Orphaned(d) == /\ Exists(d) /\ ~obj[d].deleting
               /\ owner[d] # 0
               /\ ing # NoIngress => ing.uid # owner[d]

Collect(d) ==
    /\ Orphaned(d)
    /\ UserWrites(d, IF obj[d].finalizer THEN [obj[d] EXCEPT !.deleting = TRUE]
                                         ELSE NoObject)
    /\ UNCHANGED <<chaos, ing, ingCache, balancer, owner, unborn, uids, ingQueue>>
=============================================================================
