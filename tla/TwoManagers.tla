------------------------------ MODULE TwoManagers ------------------------------
(***************************************************************************)
(* cmd/manager/main.go without --leader-elect, its default: while one      *)
(* manager replaces another, both reconcile the same Distributions.  They  *)
(* share the API server and AWS; each has its own process memory, caches   *)
(* and work queue.  Each is an instance of DistributionController; what a  *)
(* step of one means to the other is added here.                           *)
(***************************************************************************)
EXTENDS Aws

CONSTANTS Hostless, Secrets, ClassNames, PlainSpecs, NoTLS, Specs

VARIABLES
    obj, class, secret,                                               \* shared
    pc1, key1, copy1, cls1, cert1, status1, etag1, failed1,           \* the old manager
    cache1, synced1, queue1, current1, held1,
    pc2, key2, copy2, cls2, cert2, status2, etag2, failed2,           \* the new one
    cache2, synced2, queue2, current2, held2

\* DistributionWakeupProofs adds to DistributionController what one manager may rely on,
\* for TwoManagersProofs to cite of each.
M1 == INSTANCE DistributionWakeupProofs WITH
    pc <- pc1, key <- key1, copy <- copy1, cls <- cls1, cert <- cert1, status <- status1,
    etag <- etag1, failed <- failed1, cache <- cache1, synced <- synced1,
    queue <- queue1, current <- current1, held <- held1

M2 == INSTANCE DistributionWakeupProofs WITH
    pc <- pc2, key <- key2, copy <- copy2, cls <- cls2, cert <- cert2, status <- status2,
    etag <- etag2, failed <- failed2, cache <- cache2, synced <- synced2,
    queue <- queue2, current <- current2, held <- held2

ASSUME ManagersAssumption ==
    /\ Hostless \subseteq Configs
    /\ Specs \subseteq M1!DistributionSpec
    /\ NoObject \notin M1!Object
    /\ CloudFrontSpecs \cap (PlainSpecs \cup {"absent"}) = {}
    /\ "absent" \notin PlainSpecs
    /\ NoTLS \notin Secrets
    /\ Configs \cap {"doomed", "gone"} = {}
    /\ NoConfig \notin [config : Configs, class : CloudFrontSpecs]

\* What a manager's memory holds but for the facts the other one's steps may end.
memory1 == <<pc1, key1, copy1, cls1, cert1, status1, failed1, cache1, queue1, held1>>
memory2 == <<pc2, key2, copy2, cls2, cert2, status2, failed2, cache2, queue2, held2>>

facts1 == <<etag1, synced1, current1>>
facts2 == <<etag2, synced2, current2>>

vars == <<awsVars, chaos, obj, class, secret, memory1, facts1, memory2, facts2>>

-----------------------------------------------------------------------------

\* A write by others outdates a manager's cache and the copy of its pass, and a new
\* configuration has another ETag than the one it loaded; put is the distribution the
\* other manager has just updated, to whatever configuration, or 0.  Of a call that
\* failed nobody knows whether only its answer was lost.
StillSynced(synced)        == [d \in Distros |-> synced[d] /\ obj'[d] = obj[d]]
StillCurrent(current, key) == current /\ obj'[key] = obj[key]
StillTagged(etag, i, put)  == /\ etag
                              /\ i # 0 => /\ i # put
                                          /\ cf'[i].config = cf[i].config
                                          /\ cf'[i].enabled = cf[i].enabled
                                          /\ cf'[i].arn = cf[i].arn

Put(pc, failedNow, i) ==
    {p \in {0, i} : \/ p = 0 /\ (pc \notin {"update", "disable"} \/ failedNow)
                    \/ p = i /\ pc \in {"update", "disable"}
                             /\ (failedNow => "awsLost" \in Chaos)}

\* A step of one manager, and what becomes of the other.
Step1(step) == /\ step
               /\ synced2' = StillSynced(synced2)
               /\ current2' = StillCurrent(current2, key2)
               /\ \E put \in Put(pc1, failed1', status1.id) :
                    etag2' = StillTagged(etag2, status2.id, put)
               /\ UNCHANGED memory2

Step2(step) == /\ step
               /\ synced1' = StillSynced(synced1)
               /\ current1' = StillCurrent(current1, key1)
               /\ \E put \in Put(pc2, failed2', status2.id) :
                    etag1' = StillTagged(etag1, status1.id, put)
               /\ UNCHANGED memory1

Pass1 == Step1((\E d \in Distros : M1!Begin(d) \/ M1!Skip(d)) \/ M1!Work)
Pass2 == Step2((\E d \in Distros : M2!Begin(d) \/ M2!Skip(d)) \/ M2!Work)

Hears1 == Step1(\E d \in Distros : M1!Sync(d))
Hears2 == Step2(\E d \in Distros : M2!Sync(d))

Crash1 == Step1(M1!Crash)
Crash2 == Step2(M2!Crash)

\* What happens to both at once: users write, CloudFront rolls out.
Around == \/ \E d \in Distros : \/ M1!EditSpec(d) /\ M2!EditSpec(d)
                                \/ M1!DeleteObject(d) /\ M2!DeleteObject(d)
          \/ \E i \in CfIds : M1!Rollout(i) /\ M2!Rollout(i)

Init == M1!Init /\ M2!Init

Next == Pass1 \/ Pass2 \/ Hears1 \/ Hears2 \/ Crash1 \/ Crash2 \/ Around

Spec == Init /\ [][Next]_vars

-----------------------------------------------------------------------------
(* Properties                                                               *)

\* Both create: the caller reference is the same, so one of them finds the other's
\* distribution, whatever each knew, lost or repeated.
OnlyOneForBoth == M1!OneDistributionPerResource

Moves1 == pc1' # pc1
Moves2 == pc2' # pc2

SafeStep == /\ Moves1 => M1!ForgetDead /\ M1!UnfinalizeWhenGone
            /\ Moves2 => M2!ForgetDead /\ M2!UnfinalizeWhenGone

\* Neither manager makes a status forget what is alive, nor lets an object go whose
\* distribution or certificate is, though the other one may change both in between.
BothRemember == [][SafeStep]_vars

\* Neither tears down what the other one serves for a Distribution nobody deletes.
NeitherTearsDown == [][M1!TurnOffDoomed /\ M2!TurnOffDoomed]_vars

\* The two do not leave a Distribution to each other: when neither has anything queued,
\* in hand or on its way, it is served as its spec asks, whoever did what.
SettledForBoth == M1!Quiet /\ M2!Quiet => M1!SettledWhenIdle
=============================================================================
