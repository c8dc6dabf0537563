------------------------------ MODULE CdnManager ------------------------------
(***************************************************************************)
(* cmd/manager/main.go: one process with two controllers, each with a      *)
(* worker goroutine of its own.  They meet at the API server only: both    *)
(* write the Distribution, each from a cached copy, and a write of one     *)
(* makes the copy of the other stale.                                      *)
(***************************************************************************)
EXTENDS IngressController

allVars == <<vars, ingressVars>>

\* The manager starts in a cluster that may hold an Ingress, so far without an
\* address, and no Distribution.
ManagerInit ==
    /\ AwsInit
    /\ obj = [d \in Distros |-> NoObject]
    /\ cache = obj
    /\ synced = [d \in Distros |-> TRUE]
    /\ class \in [ClassNames -> CloudFrontSpecs]
    /\ secret \in [Secrets -> Serials]
    /\ queue = {}
    /\ pc = "idle" /\ key = NoObject /\ copy = NoObject /\ cls = "absent"
    /\ cert = NoSecret /\ status = EmptyStatus /\ etag = FALSE /\ failed = FALSE
    /\ current = FALSE
    /\ held = NoSecret
    /\ \/ ing = NoIngress /\ uids = 0
       \/ ing \in {i \in Ingress : i.uid = 1 /\ i.address = NoConfig} /\ uids = 1
    /\ ingCache = NoIngress
    /\ balancer \in IF UsesService THEN Address ELSE {NoConfig}
    /\ owner = [d \in Distros |-> 0]
    /\ unborn = Distros
    /\ ingQueue = FALSE
    /\ ingPass = Resting

\* The ingress worker's copy is outdated by any write to its object.
Outdates == ingPass' = [ingPass EXCEPT !.fresh = @ /\ obj'[ingPass.target] = obj[ingPass.target]]

\* A step of the Distribution controller or its surroundings beside the ingress worker.
Beside(step) == /\ step
                /\ Outdates
                /\ UNCHANGED <<ing, ingCache, balancer, owner, unborn, uids, ingQueue>>

\* A Distribution event reaches both controllers.  Events under one name keep their
\* order: an incarnation is heard of after the end of the one before it.
DistributionEvent(d) ==
    /\ Sync(d)
    /\ Exists(d) => Found \subseteq {d}
    /\ Owns(d)
    /\ UNCHANGED <<ing, ingCache, balancer, owner, unborn, uids, ingPass>>

Collection == (\E d \in Distros : Collect(d)) /\ Outdates

\* The process ends, and with it both workers; the initial lists wake everything.
Restart == /\ Panic \/ Crash
           /\ ingCache' = ing
           /\ ingQueue' = (ing # NoIngress \/ \E d \in Distros : Exists(d) /\ owner[d] # 0)
           /\ ingPass' = Resting
           /\ UNCHANGED <<ing, balancer, owner, unborn, uids>>

ManagerNext ==
    \/ \E d \in Distros : Beside(Begin(d)) \/ Beside(Skip(d)) \/ DistributionEvent(d)
    \/ Beside(Stretch)
    \/ \E d \in Distros : Beside(EditSpec(d)) \/ Beside(DeleteObject(d))
    \/ \E i \in CfIds : Beside(Rollout(i))
    \/ IngressWork \/ IngressEvent
    \/ ApplyIngress \/ DeleteIngress \/ AddressChange
    \/ Collection
    \/ Restart

ManagerSpec == ManagerInit /\ [][ManagerNext]_allVars

\* As in DistributionController; the ingress worker runs, and so do its watch and
\* Kubernetes' garbage collector.
ManagerFairness ==
    /\ WF_allVars(Beside(Stretch))
    /\ \A d \in Distros : /\ SF_allVars(Beside(Begin(d) \/ Skip(d)))
                         /\ WF_allVars(DistributionEvent(d))
    /\ \A i \in CfIds : WF_allVars(Beside(Rollout(i)))
    /\ WF_allVars(IngressWork)
    /\ WF_allVars(IngressEvent)
    /\ WF_allVars(Collection)

FairManagerSpec == ManagerSpec /\ ManagerFairness

-----------------------------------------------------------------------------
(* Properties                                                               *)

\* The Ingress asks for a Distribution that the API server will take.
Wanted == /\ ing # NoIngress
          /\ ~Passed(ing)
          /\ Accepted(DesiredSpec(ing))

AllQuiet == /\ Quiet
            /\ ingCache = ing /\ ~ingQueue /\ ingPass = Resting
            /\ ~\E d \in Distros : Orphaned(d)

\* No update of the ingress controller is lost for good: it never requeues, but what
\* made its write conflict, or its cache trail, is an event of a Distribution it owns
\* and wakes it again.  Once all is quiet the Distribution asks for what the Ingress
\* asks for, through any interleaving of the two controllers, re-creation of either
\* object and direct edits by users.
InSyncWhenQuiet ==
    AllQuiet /\ Wanted => \E d \in Distros : /\ Exists(d)
                                           /\ owner[d] = ing.uid
                                           /\ obj[d].spec = DesiredSpec(ing)

\* End to end: an Ingress that stays as it is, with class, address and certificate,
\* is sooner or later served by CloudFront as it asks.
IngressServed ==
    <>[]Wanted
    => <>[](\E d \in Distros : /\ Exists(d)
                               /\ ing # NoIngress => obj[d].spec = DesiredSpec(ing)
                               /\ Served(d))

\* An Ingress that is gone leaves no Distribution behind: each carries the owner
\* reference by which Kubernetes deletes it, whatever incarnation of the Ingress a
\* stale pass made it for, and the finalizer then gives it up.  Of the API server's
\* objects only: what CloudFront may keep is the finding of the run orphan.
CleanWhenQuiet == AllQuiet /\ ing = NoIngress => ~\E d \in Distros : Exists(d)

\* The ingress controller writes whole objects from its cache, yet never undoes what
\* the Distribution controller wrote meanwhile, nor a deletion.
WriteSpecOnly ==
    \A d \in Distros :
        ingPass.target = d /\ ingPass' = Resting /\ obj'[d] # obj[d]
        => Exists(d) /\ obj'[d] = [obj[d] EXCEPT !.spec = ingPass.want]

NeverUndone == [][WriteSpecOnly]_allVars
-----------------------------------------------------------------------------
(* A promise of the API's comments that the code does not keep in every       *)
(* behaviour.                                                                 *)

\* "If targetted at a service or ingress, the Distribution will be kept up to date with
\* its external ingress address": once nothing is left to do short of the ten-hour
\* resync, the Distribution has the address of the load balancer.
BalancerFollowed ==
    AllQuiet /\ Wanted
    => \A d \in Distros : Exists(d) /\ owner[d] = ing.uid => obj[d].spec.config = Origin(ing)
=============================================================================
