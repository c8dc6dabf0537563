------------------------ MODULE DistributionController ------------------------
(***************************************************************************)
(* pkg/controller/distribution_controller.go with the parts it drives: the *)
(* CertificateResolver, the CloudFront provider, the indexed watches and   *)
(* the work queue.  One worker (MaxConcurrentReconciles is left at 1) runs *)
(* passes over Distributions read from an informer cache; users, the API   *)
(* server, AWS and crashes act between any two of its steps.               *)
(*                                                                         *)
(* Resource versions are abstracted by two facts: synced[d], the cache     *)
(* holds the newest version of d; current, the pass's copy still is the    *)
(* newest version, which is what an optimistic-locking write needs.        *)
(* Requeue and RequeueAfter both put the key back in the queue.            *)
(***************************************************************************)
EXTENDS CloudFrontProvider

CONSTANTS
    Secrets,      \* names of TLS secrets
    ClassNames,   \* names of DistributionClasses
    PlainSpecs,   \* class specs without a CloudFront section
    NoTLS,        \* Spec.TLS == nil
    Specs         \* the Distribution specs users may write

VARIABLES
    obj,      \* the API server's Distributions
    cache,    \* the manager's informer cache of them
    synced,
    class,    \* class specs as the manager's cache holds them, by name
    secret,   \* secrets as the manager's cache holds them, by name
    queue,    \* keys waiting to be reconciled
    current,
    held      \* CertificateResolver.secret, which outlives a pass

apiVars    == <<obj, cache, synced>>
inputVars  == <<class, secret>>
workerVars == <<passVars, queue, current, held>>
vars == <<awsVars, chaos, apiVars, inputVars, workerVars>>

\* What a secret can be: a usable certificate by its serial, no secret at all, one
\* of another type, one whose PEM does not decode, one without a certificate.
SecretValues == Serials \cup {"absent", "opaque", "garbage", "blank"}
ClassValues  == CloudFrontSpecs \cup PlainSpecs \cup {"absent"}

Held     == [name : Secrets \cup {NoTLS}, value : SecretValues]
NoSecret == [name |-> NoTLS, value |-> "absent"]

DistributionSpec == [config : Configs, secret : Secrets \cup {NoTLS}, class : ClassNames]

Object == [spec : Specs, deleting : BOOLEAN, finalizer : BOOLEAN, status : Status]

ASSUME SpecAssumption ==
    /\ Specs \subseteq DistributionSpec
    /\ NoObject \notin Object
    /\ CloudFrontSpecs \cap (PlainSpecs \cup {"absent"}) = {}
    /\ "absent" \notin PlainSpecs
    /\ NoTLS \notin Secrets

Labels == {"idle", "addFinalizer", "resolve", "describe", "import", "load", "create",
           "update", "disable", "deleteCf", "deleteCert", "noCert", "report", "unfinalize"}

-----------------------------------------------------------------------------

Exists(d) == obj[d] # NoObject

\* CDNProvider.Wants
Wants(spec) == spec \in CloudFrontSpecs

\* The end of a pass, requeued or not; local variables are forgotten.
IdleAgain == /\ pc' = "idle"
             /\ key' = NoObject
             /\ copy' = NoObject
             /\ cls' = "absent"
             /\ cert' = NoSecret
             /\ status' = EmptyStatus
             /\ etag' = FALSE
             /\ failed' = FALSE
             /\ current' = FALSE

Finish(requeue) == /\ IdleAgain
                   /\ queue' = IF requeue THEN queue \cup {key} ELSE queue

\* A write to the API server: it becomes the newest version of the object, which
\* the cache has yet to hear of.
Write(d, new) == /\ obj' = [obj EXCEPT ![d] = new]
                 /\ synced' = [synced EXCEPT ![d] = FALSE]
                 /\ UNCHANGED cache

Init == /\ AwsInit
        /\ obj \in [Distros -> {[spec |-> s, deleting |-> FALSE, finalizer |-> FALSE,
                                 status |-> EmptyStatus] : s \in Specs}]
        /\ cache = [d \in Distros |-> NoObject]
        /\ synced = [d \in Distros |-> FALSE]
        /\ class \in [ClassNames -> CloudFrontSpecs]
        /\ secret \in [Secrets -> Serials]
        /\ queue = {}
        /\ pc = "idle" /\ key = NoObject /\ copy = NoObject /\ cls = "absent"
        /\ cert = NoSecret /\ status = EmptyStatus /\ etag = FALSE /\ failed = FALSE
        /\ current = FALSE
        /\ held = NoSecret

-----------------------------------------------------------------------------
(* The worker                                                               *)

IgnoredBug(o) == o # NoObject => o.deleting /\ ~o.finalizer   \* class taken as found

\* Reconcile returns at once: the object or its class is not found, or the object
\* is being deleted and is no longer this controller's business.
Ignored(o) == o # NoObject => \/ class[o.spec.class] = "absent"
                              \/ o.deleting /\ ~o.finalizer

Skip(d) == /\ pc = "idle"
           /\ d \in queue
           /\ Ignored(cache[d])
           /\ queue' = queue \ {d}
           /\ UNCHANGED <<awsVars, chaos, apiVars, inputVars, passVars, current, held>>

\* deleteProviders up to the first call: provider.Delete skips CloudFront when no
\* id is recorded; a class without a provider has nothing to delete.
FirstDeleteStep(o) ==
    CASE ~Wants(class[o.spec.class])                    -> "report"
      [] Wants(class[o.spec.class]) /\ o.status.id # 0  -> "load"
      [] OTHER                                          -> "deleteCert"

FirstStep(o) == CASE o.deleting                  -> FirstDeleteStep(o)
                  [] ~o.deleting /\ o.finalizer  -> "resolve"
                  [] OTHER                       -> "addFinalizer"

\* The cache may be behind: after any write, the next pass may precede the event.
Begin(d) == /\ pc = "idle"
            /\ d \in queue
            /\ ~Ignored(cache[d])
            /\ queue' = queue \ {d}
            /\ key' = d
            /\ copy' = cache[d]
            /\ current' = synced[d]
            /\ cls' = class[cache[d].spec.class]
            /\ status' = [cache[d].status EXCEPT !.ready = FALSE]
            /\ pc' = FirstStep(cache[d])
            /\ IF synced[d] THEN UNCHANGED chaos ELSE Perturb("stale")
            /\ UNCHANGED <<awsVars, apiVars, inputVars, cert, etag, failed, held>>

\* r.Update(ctx, &distro), its error ignored.  Only a success refreshes the copy.
AddFinalizer ==
    /\ pc = "addFinalizer"
    /\ pc' = "resolve"
    /\ LET new == [copy EXCEPT !.finalizer = TRUE] IN
       /\ copy' = new
       /\ \/ current /\ Write(key, new) /\ UNCHANGED <<current, chaos>>
          \/ ~current /\ UNCHANGED <<apiVars, current, chaos>>
          \/ Perturb("apiError") /\ UNCHANGED <<apiVars, current>>
          \/ current /\ Perturb("apiLost") /\ Write(key, new) /\ current' = FALSE
    /\ UNCHANGED <<awsVars, inputVars, queue, key, cls, cert, status, etag, failed, held>>

\* CertificateResolver.load ignores the error of Get: what it does not find leaves
\* the secret of an earlier call in place.
Loaded(s) == IF secret[s] = "absent" THEN held ELSE [name |-> s, value |-> secret[s]]

Resolve ==
    /\ pc = "resolve"
    /\ LET tls  == copy.spec.secret # NoTLS
           got  == IF tls THEN Loaded(copy.spec.secret) ELSE NoSecret
           bad  == tls /\ got.value \in {"absent", "opaque"}
       IN /\ got.value # "garbage"
          /\ held' = IF tls THEN got ELSE held
          /\ cert' = IF bad THEN NoSecret ELSE got
          /\ status' = IF bad THEN EmptyStatus ELSE [copy.status EXCEPT !.ready = TRUE]
          /\ pc' = CASE bad                   -> "noCert"
                     [] ~bad /\ Wants(cls)    -> FirstCertStep(copy.status)
                     [] OTHER                 -> "report"
    /\ UNCHANGED <<awsVars, chaos, apiVars, inputVars, queue, key, copy, current, cls,
                   etag, failed>>

AllDeletedBug == ~Wants(cls) \/ status.id = 0     \* certificate forgotten

\* deleteProviders: all is deleted when nothing is recorded any more, or when no
\* provider wants the class.
AllDeleted == ~Wants(cls) \/ (status.id = 0 /\ status.arn = 0)

\* updateStatus, its error ignored.  Accepted or not, Reconcile's own distro keeps
\* the resource version it read: a write makes it stale.
WriteStatus ==
    \/ /\ status = copy.status
       /\ UNCHANGED <<apiVars, chaos>>
    \/ /\ status # copy.status
       /\ \/ current /\ Write(key, [obj[key] EXCEPT !.status = status]) /\ UNCHANGED chaos
          \/ ~current /\ UNCHANGED <<apiVars, chaos>>
          \/ Perturb("apiError") /\ UNCHANGED apiVars

RequeueBug == pc = "report" /\ failed     \* no recheck of what is just not ready yet

\* requeueIfNotReady, after an error or while not ready; without a usable certificate
\* reconcileProviders has returned before it.
Requeue == pc = "report" /\ ~status.ready

\* The end of reconcileProviders.
Report ==
    /\ pc \in {"report", "noCert"}
    /\ ~copy.deleting
    /\ WriteStatus
    /\ Finish(Requeue)
    /\ UNCHANGED <<awsVars, inputVars, held>>

\* The end of deleteProviders.
ReportDeletion ==
    /\ pc = "report"
    /\ copy.deleting
    /\ WriteStatus
    /\ IF AllDeleted
       THEN /\ pc' = "unfinalize"
            /\ current' = (current /\ obj' = obj)
            /\ UNCHANGED <<queue, key, copy, cls, cert, status, etag, failed>>
       ELSE Finish(TRUE)
    /\ UNCHANGED <<awsVars, inputVars, held>>

\* Removing the last finalizer of a deleted object makes it disappear.
Unfinalize ==
    /\ pc = "unfinalize"
    /\ \/ current /\ Write(key, NoObject) /\ UNCHANGED chaos
       \/ ~current /\ UNCHANGED <<apiVars, chaos>>
       \/ Perturb("apiError") /\ UNCHANGED apiVars
    /\ Finish(failed)
    /\ UNCHANGED <<awsVars, inputVars, held>>

\* A new process: nothing in memory survives, and the initial list enqueues all.
Restarted == /\ IdleAgain
             /\ cache' = obj
             /\ synced' = [d \in Distros |-> TRUE]
             /\ queue' = {d \in Distros : Exists(d)}
             /\ held' = NoSecret
             /\ UNCHANGED <<awsVars, inputVars, obj>>

Panic == /\ \/ ProviderPanics
            \/ /\ pc = "resolve"
               /\ copy.spec.secret # NoTLS
               /\ Loaded(copy.spec.secret).value = "garbage"
         /\ Restarted
         /\ UNCHANGED chaos

Crash == Perturb("crash") /\ Restarted

Stretch == \/ AddFinalizer \/ Resolve \/ Report \/ ReportDeletion \/ Unfinalize
           \/ /\ ProviderStep
              /\ UNCHANGED <<apiVars, inputVars, queue, current, held>>

Work == Stretch \/ Panic

-----------------------------------------------------------------------------
(* The world around the worker                                              *)

\* The copy the worker holds of an object is outdated by any write to it.
Outdate(d) == current' = (current /\ key # d)

\* A user's write, which no pass in progress sees.
UserWrites(d, new) == /\ Write(d, new)
                      /\ Outdate(d)
                      /\ UNCHANGED <<awsVars, inputVars, passVars, queue, held>>

EditSpec(d) == /\ Perturb("edit")
               /\ Exists(d)
               /\ \E s \in Specs \ {obj[d].spec} : UserWrites(d, [obj[d] EXCEPT !.spec = s])

\* Without a finalizer the object is gone at once.
DeleteObject(d) ==
    /\ Perturb("delete")
    /\ Exists(d) /\ ~obj[d].deleting
    /\ UserWrites(d, IF obj[d].finalizer THEN [obj[d] EXCEPT !.deleting = TRUE]
                                         ELSE NoObject)

\* The watch on Distributions catches up and enqueues the object.
Sync(d) == /\ ~synced[d]
           /\ cache' = [cache EXCEPT ![d] = obj[d]]
           /\ synced' = [synced EXCEPT ![d] = TRUE]
           /\ queue' = queue \cup {d}
           /\ UNCHANGED <<awsVars, chaos, obj, inputVars, passVars, current, held>>

\* The informer's periodic resync.
Resync(d) == /\ Perturb("resync")
             /\ cache[d] # NoObject
             /\ queue' = queue \cup {d}
             /\ UNCHANGED <<awsVars, apiVars, inputVars, passVars, current, held>>

\* The indexed watches: a change of a class or a secret enqueues the Distributions
\* that, in the cache, refer to it.
ClassChange(k) ==
    /\ Perturb("class")
    /\ \E v \in ClassValues \ {class[k]} : class' = [class EXCEPT ![k] = v]
    /\ queue' = queue \cup {d \in Distros : cache[d] # NoObject /\ cache[d].spec.class = k}
    /\ UNCHANGED <<awsVars, apiVars, secret, passVars, current, held>>

SecretChange(n) ==
    /\ Perturb("secret")
    /\ \E v \in SecretValues \ {secret[n]} : secret' = [secret EXCEPT ![n] = v]
    /\ queue' = queue \cup {d \in Distros : cache[d] # NoObject /\ cache[d].spec.secret = n}
    /\ UNCHANGED <<awsVars, apiVars, class, passVars, current, held>>

othersVars == <<apiVars, inputVars, queue, current, held>>

\* CloudFront at work.
Rollout(i) == Deploy(i) /\ UNCHANGED <<passVars, othersVars>>

\* Another AWS client: a change gives the distribution a new ETag.
Meddle == \/ /\ \E i \in CfIds : (Drift(i) \/ Destroy(i)) /\ etag' = (etag /\ status.id # i)
             /\ UNCHANGED <<pc, key, copy, cls, cert, status, failed, othersVars>>
          \/ (\E a \in Arns : DestroyCert(a)) /\ UNCHANGED <<passVars, othersVars>>

Environment ==
    \/ \E d \in Distros : EditSpec(d) \/ DeleteObject(d) \/ Sync(d) \/ Resync(d)
    \/ \E k \in ClassNames : ClassChange(k)
    \/ \E n \in Secrets : SecretChange(n)
    \/ \E i \in CfIds : Rollout(i)
    \/ Meddle
    \/ Crash

Next == (\E d \in Distros : Begin(d) \/ Skip(d)) \/ Work \/ Environment

Spec == Init /\ [][Next]_vars

(***************************************************************************)
(* Fairness: the worker goroutine runs and every AWS call returns (Work);  *)
(* the work queue is first in first out, so no key waits for ever behind   *)
(* others (SF); informers deliver; CloudFront finishes what it rolls out.  *)
(* Nothing is assumed of users, of crashes or of the ten-hour resync.      *)
(***************************************************************************)
Fairness == /\ WF_vars(Work)
            /\ \A d \in Distros : SF_vars(Begin(d)) /\ SF_vars(Skip(d)) /\ WF_vars(Sync(d))
            /\ \A i \in CfIds : WF_vars(Rollout(i))

FairSpec == Spec /\ Fairness

-----------------------------------------------------------------------------
(* Properties                                                               *)

\* Every variable holds what the code's types and the API's schema allow.
TypeOK ==
    /\ AwsTypeOK
    /\ obj \in [Distros -> Object \cup {NoObject}]
    /\ cache \in [Distros -> Object \cup {NoObject}]
    /\ synced \in [Distros -> BOOLEAN]
    /\ class \in [ClassNames -> ClassValues]
    /\ secret \in [Secrets -> SecretValues]
    /\ queue \subseteq Distros
    /\ pc \in Labels
    /\ pc # "idle" => /\ key \in Distros
                      /\ copy \in Object
                      /\ cls \in ClassValues \ {"absent"}
    /\ current \in BOOLEAN
    /\ status \in Status
    /\ cert \in Held
    /\ held \in Held
    /\ etag \in BOOLEAN
    /\ failed \in BOOLEAN

\* However often a pass is cut short and repeated, a Distribution never has two
\* CloudFront distributions at once: Create() always uses the UID as its caller
\* reference, and takes over what already carries it.
OneDistributionPerResource ==
    \A i, j \in CfIds : Live(i) /\ Live(j) /\ cf[i].ref = cf[j].ref => i = j

\* What a status records belongs to its object alone: Create() records the id of a
\* distribution made for this UID, Import() an ARN nobody else has.
OwnershipIsExclusive ==
    \A d \in Distros : Exists(d) =>
        /\ obj[d].status.id # 0 => cf[obj[d].status.id].ref = d
        /\ \A e \in Distros \ {d} :
             Exists(e) /\ obj[d].status.arn # 0 => obj[e].status.arn # obj[d].status.arn

\* A step that removes the last finalizer finds everything recorded gone.
UnfinalizeWhenGone ==
    \A d \in Distros :
      /\ Exists(d) /\ obj[d].finalizer
      /\ obj'[d] = NoObject
      /\ Wants(cls)
      => LET s == obj[d].status IN
         /\ s.id # 0 => cf[s.id].phase = "gone"
         /\ s.arn # 0 => acm[s.arn] = "gone"

\* The finalizer is removed for a class with a provider only once everything the
\* status records is really gone at AWS, whatever failed or was stale before.
UnfinalizeOnlyWhenGone == [][UnfinalizeWhenGone]_vars

\* A step that takes ready from false to true finds its reason.
EarnReady ==
    \A d \in Distros :
      /\ Exists(d) /\ obj'[d] # NoObject
      /\ ~obj'[d].deleting
      /\ ~obj[d].status.ready /\ obj'[d].status.ready
      /\ Wants(cls) /\ etag
      => LET s == obj'[d].status IN
         /\ s.id # 0 /\ s.arn # 0
         /\ cf[s.id].phase = "Deployed" /\ cf[s.id].enabled
         /\ cf[s.id].config = Desired(obj'[d].spec, cls)
         /\ cf[s.id].arn = s.arn
         /\ acm[s.arn] = cert.value

\* Ready goes from false to true only when the recorded distribution is enabled,
\* rolled out, configured as the newest spec and the class read ask, and served with
\* the certificate that was resolved - unless AWS was changed by others meanwhile.
ReadyIsEarned == [][EarnReady]_vars

\* A step that drops an id or an ARN from a status finds it gone.
ForgetDead ==
    \A d \in Distros :
      /\ Exists(d) /\ obj'[d] # NoObject
      /\ pc # "noCert"
      => LET s == obj[d].status
             t == obj'[d].status
         IN /\ s.id \notin {0, t.id} => cf[s.id].phase = "gone"
            /\ s.arn \notin {0, t.arn} => acm[s.arn] = "gone"

\* An id or an ARN leaves the status only once what it names is gone: otherwise
\* nothing would ever delete it.  (The pass that finds no certificate is excepted:
\* it empties the status, see NothingLeftBehind.)
ForgetOnlyDead == [][ForgetDead]_vars

\* A step of the worker that turns a distribution off finds its owner doomed.
TurnOffDoomed ==
    \A i \in CfIds :
      /\ Live(i) /\ pc' # pc /\ pc' # "idle"
      /\ cf'[i].phase = "gone" \/ (cf[i].enabled /\ ~cf'[i].enabled)
      => ~Exists(cf[i].ref) \/ obj[cf[i].ref].deleting

\* The worker disables or deletes a distribution only when its owner is being
\* deleted or is no more, however stale the copy it works on.
NeverTurnedOff == [][TurnOffDoomed]_vars

\* What CloudFront serves for d is what the newest spec, class and secret ask for.
Served(d) ==
    LET s == obj[d].status IN
    /\ s.ready /\ s.id # 0 /\ s.arn # 0
    /\ cf[s.id].phase = "Deployed" /\ cf[s.id].enabled
    /\ cf[s.id].config = Desired(obj[d].spec, class[obj[d].spec.class])
    /\ cf[s.id].arn = s.arn
    /\ acm[s.arn] = secret[obj[d].spec.secret]

\* The class of d is known; d has a certificate it can use.
HasClass(d)  == class[obj[d].spec.class] # "absent"
HasSecret(d) == obj[d].spec.secret \in Secrets /\ secret[obj[d].spec.secret] \in Serials

Quiet == pc = "idle" /\ queue = {} /\ \A d \in Distros : synced[d]

\* No wakeup is lost: when the worker has nothing queued and no watch event is on
\* its way, every Distribution is as its spec asks, or waits for a class or a secret
\* whose arrival will wake it.  As long as the API server fails no status write.
SettledWhenIdle ==
    Quiet => \A d \in Distros :
        \/ ~Exists(d)
        \/ ~HasClass(d)
        \/ /\ ~obj[d].deleting
           /\ IF Wants(class[obj[d].spec.class]) THEN HasSecret(d) => Served(d)
                                                 ELSE HasSecret(d) => obj[d].status.ready

\* A Distribution that stays, with a provider, hosts and a usable certificate, is
\* sooner or later served for good, through crashes, failed calls and lost answers.
BecomesReady ==
    \A d \in Distros :
        <>[](/\ Exists(d) /\ ~obj[d].deleting
             /\ Wants(class[obj[d].spec.class]) /\ HasSecret(d)
             /\ obj[d].spec.config \notin Hostless)
        => <>[](Exists(d) /\ Served(d))

\* A distribution of d that its status does not record.
Unrecorded(d) == \E i \in Owned(d) : Exists(d) => obj[d].status.id # i

\* A requested deletion that never completes waits for its class for ever, or for a
\* certificate used by a distribution the status has lost.
DeletionCompletes ==
    \A d \in Distros :
        <>[](Exists(d) /\ obj[d].deleting)
        => <>[](Exists(d) /\ (~HasClass(d) \/ Unrecorded(d)))

-----------------------------------------------------------------------------
(* Promises of the repository's comments and docs that the code does not     *)
(* keep in every behaviour.                                                  *)

\* "The name of the finalizer used by this controller to manage the cleanup of
\* distributions on resource deletion": when the object disappears, no CloudFront
\* distribution made for it is left, that nothing would ever delete.
NothingLeftBehind ==
    [][\A d \in Distros :
         Exists(d) /\ obj[d].finalizer /\ obj'[d] = NoObject => Owned(d) = {}]_vars

\* "Loads the the secret given and parses it": the certificate a pass works with
\* comes from the secret its own Distribution names.
CertificateIsOwn ==
    pc \in {"describe", "import"} /\ cert # NoSecret => cert.name = copy.spec.secret

\* "Optional configuration about how the CDN should handle HTTPS traffic": the
\* provider copes with a Distribution that has no TLS section.
TLSIsOptional == pc # "idle" /\ copy.spec.secret = NoTLS => ~ProviderPanics

\* "If nothing has changed, we do not need to request an update": a distribution is
\* rolled out again only with something else than before.
UpdateOnlyOnChange ==
    [][\A i \in CfIds :
         cf[i].phase = "Deployed" /\ cf'[i].phase = "InProgress"
         => [cf'[i] EXCEPT !.phase = "Deployed"] # cf[i]]_vars
=============================================================================
