# CDN Manager in TLA+

CDN Manager is a Kubernetes operator: it turns `Distribution` resources into
AWS CloudFront distributions with ACM certificates, and keeps `Distribution`s
in step with annotated Ingresses. This directory holds TLA+ models of it, TLC
configurations that check them on small instances, and proofs that TLAPS
checks for every instance. Paths below are relative to the repository.

## Inventory

| Component | State it keeps | Operations | Module |
|---|---|---|---|
| Distribution controller, `pkg/controller/distribution_controller.go` | none between passes but a queue; the finalizer and the status are in the API server | `Reconcile`: add the finalizer, `reconcileProviders`, `deleteProviders`, `updateStatus`, `requeueIfNotReady` | `DistributionController` |
| CloudFront distribution provider, `pkg/provider/cloudfront/distribution.go` | per pass: desired and current configuration, ETag, the new status | `Check` (`load`, compare, update), `Create`, `Delete`; `generateDistributionConfig` | `CloudFrontProvider`, `DistributionConfig` |
| ACM certificate provider, `pkg/provider/cloudfront/certificate.go` | per pass: the ARN in the new status | describe and compare serials, import, re-import, delete | `CloudFrontProvider` |
| `CloudFrontProvider`, `pkg/provider/cloudfront/provider.go` | none | certificate before distribution; on deletion the other way round; `Wants` | `CloudFrontProvider` |
| Certificate resolver, `pkg/resolver/certificate.go` | the secret of its last successful `Get`, **across passes and Distributions** | `Resolve` | `DistributionController` (`held`) |
| Class reader, indexers and indexed watches, `pkg/resolver/distribution_class_reader.go`, `pkg/indexer`, `pkg/handler` | informer caches and their indexes | find the class and the secret of a Distribution; wake the Distributions that refer to what changed | `References` |
| AWS authentication, `pkg/provider/cloudfront/auth` | none | `NewSession`: static keys, a ServiceAccount's token, or the pod's own credentials | `References` |
| Ingress controller, `pkg/controller/ingress.go`, `pkg/resolver/{distribution,ingress_load_balancer}.go` | none | create the Distribution of an annotated Ingress, or overwrite its spec when it differs | `IngressController`, `CdnManager` |
| Manager process, `cmd/manager/main.go` | caches, queues, one worker per controller; leader election off by default | start, stop, crash; two at once | `DistributionController` (`Crash`, `Panic`), `CdnManager`, `TwoManagers` |
| CloudFront and ACM (not in the repository) | distributions, certificates | the calls the providers make, and what other clients of the account do | `Aws` (external) |
| API types, `pkg/api`, `pkg/provider/cloudfront/api` | - | - | records of what the code tells apart, in each module |
| Provider interface, `pkg/util`, chart, CRDs | - | - | not modelled |

How they interact: the API server is the only shared memory. The controller
reads objects from an informer cache that trails it, and writes with
optimistic locking: a write based on an old resource version is refused. The
errors of most writes are ignored (`r.Update` l.126, `Status().Update` l.241,
`r.Update` l.138), so **a refused write is silent**; only the watch event of
the write that won brings another pass. The provider is called synchronously
and does up to four AWS calls a pass; between any two of them users, AWS and
a crash may act. Classes and secrets reach the controller through indexed
watches, so that a pass that found neither may end without a requeue.

What is hard, and so what the properties are about:

- an AWS call that took effect and a status write that did not (conflict,
  lost answer, crash): the manager must neither create twice nor forget;
- a pass on a stale copy: an old spec, a status without the id of what already
  exists, an object not yet marked as deleted;
- AWS changed by somebody else between `load()` and the update;
- deletion in four steps (disable, roll-out, delete, delete the certificate)
  spread over passes that anything may separate;
- passes that end without a requeue, and passes that requeue for ever;
- state the resolver keeps from one Distribution to the next;
- two controllers, or two managers, that write the same object, each from a
  copy of its own;
- events of several informers in any order, and objects that no watch covers;
- a configuration generated and compared in parts, where one part can forget
  what another one decided.

`PROJECT.json` lists every hazard with its line and the properties that cover
it, or the reason why none does.

## Modules

```
Aws <- CloudFrontProvider <- DistributionController <- IngressController <- CdnManager
                                     ^        ^
                   DistributionRefinement   DistributionSafetyProofs
                            ||       ^         ^
                   ManagedDistribution DistributionReadyProofs
                                               ^
                                    DistributionWakeupProofs <= TwoManagers

DistributionConfig        References
```

`<-` is `EXTENDS`, `<=` and `||` are `INSTANCE`; `CdnManagerProofs` extends both
`CdnManager` and `DistributionWakeupProofs`. The provider runs inside the
controller's pass and shares its local variables, so a pass is one sequential
process with one program counter `pc`, spread over two modules. `MC*` modules
hold constants for TLC, `*Proofs` modules the theorems.

### One manager

**`Aws`** (external). `cf[i]` is a distribution: its phase (`unused`,
`InProgress`, `Deployed`, `gone`), the caller reference it was created with,
enabled flag, configuration and certificate. `acm[a]` is the serial of an
imported certificate. Ids and ARNs are never used twice. Assumed of AWS, from
the error codes and call order in the provider's code: a caller reference in
use is refused with `DistributionAlreadyExists` and may be used again after the
distribution is gone; an update or a delete with an old ETag is refused; only a
disabled and rolled-out distribution can be deleted; a certificate in use
cannot; any accepted update, even to the same configuration, starts a roll-out.
`MaxCf` and `MaxArn` are account quotas: beyond them a call fails.

**`CloudFrontProvider`**. One action per AWS call (`Describe`, `Import`,
`DeleteCert`, `Load`, `Create`, `Update`, `Disable`, `DeleteCf`), with three
outcomes each: it takes effect and the answer arrives; it takes effect and the
answer is lost (`awsLost`); it fails (`awsError`, a quota, a refusal). `status`
is the `newStatus` under construction, `etag` says whether the ETag got by
`load()` is still the newest. `UpToDate` is the `DeepEqual` of `Check` (l.372):
it can never hold for a Distribution without hosts, because `nil` and an empty
slice differ. Configurations are model values here; what is in one, and how it
is compared, is `DistributionConfig`.

**`DistributionController`**. `obj` is the API server, `cache` the informer
cache, `queue` the work queue; `key` and `copy` are the pass's Distribution.
`Begin` is `Reconcile` up to its first call, `Skip` its early returns;
`AddFinalizer`, `Resolve`, `Report`, `ReportDeletion` and `Unfinalize` are the
stretches between calls. `Panic` is a nil dereference in the resolver or the
provider, and ends the process as `Crash` does. The environment edits and
deletes Distributions, changes classes and secrets, syncs and resyncs the
cache, rolls distributions out, and meddles at AWS.

**`ManagedDistribution`** is the abstract promise: owners want a site or to be
rid of it, sites roll out and settle, an owner has one site at a time, none is
turned off or removed under an owner who wants it, and an owner is told `ready`
only while the wish of that moment is served and settled. It knows no caches,
queues, passes, calls or records. **`DistributionRefinement`** maps
the controller to it: an object's spec and deletion mark are the wish, `cf` is
the sites, `status.ready` the announcement. `unmanaged` is the one concession to
the code: while a pass looks at a class that no provider takes, it reports
ready without a site.

### Two controllers

**`IngressController`**. For one Ingress name: `Distros` are the UIDs of the
incarnations of the one Distribution of that name. `IngressBegin` is
`Reconcile` from the queue to the decision (nothing to do, create, update);
`IngressCreate` and `IngressUpdate` are the writes, whose errors are logged and
dropped. `ingPass.fresh` says that the copy to be written back still has the
newest resource version. `Accepted` is the API server's schema: the hosts of an
Ingress without TLS are a nil list, sent as `null`, which a required list is
not. `Owns` is the watch on Distributions, through their owner reference.
`balancer` is the address of the Service of `--ingress-service`, which nothing watches.

**`CdnManager`** is the process: both controllers on one API server, an event
of a Distribution reaching both, Kubernetes' garbage collector, one crash for
both. `Beside` adds to a step of the Distribution controller what it means to the
ingress worker: a write to the object outdates its copy.

### Two managers

**`TwoManagers`**. `M1` and `M2` are instances of the single manager with
memories of their own and API server and AWS in common. A step is one of either
manager; `StillSynced`, `StillCurrent` and `StillTagged` say which of the other
one's facts (cache is newest, copy is newest, ETag is newest) survive it.

### The parts taken apart

**`DistributionConfig`**. `generateDistributionConfig` and its `calculate*`
helpers (aliases, methods, viewer policy and certificate, forwarded values,
TTLs, cache and request policies), what CloudFront accepts of policies and of the
way TLS is served (`Acceptable`), the order in
which it lists aliases, and `Check`'s sort and `DeepEqual`. Host names are
numbers in their order. `Sorted` is the ascending order of a list (`sort.Strings`);
CloudFront may list aliases in any order at all (`Stored`).

**`References`**. Kinds, names and namespaces; the field indexes
(`Index`), what a change of a resource finds through them (`Referring`), one
cache for each informer, filled (`Learn`, `LearnOf`) before and independently
of the handler's call (`Handle`). The pass reads class, secret and credentials one after the
other. `Credentials` is `NewSession`; its nil session after an error
is `Panic`. What AWS was given last is `applied`.

### Abstractions, and why they are sound for the properties

- Resource versions are two facts: `synced[d]`, the cache holds the newest
  version; `current`, the pass's copy is the newest one. A write succeeds if
  and only if `current`. `updateStatus` gets the object by value, so `current`
  is lost after its write although it succeeded (l.226).
- `Sync` takes the cache straight to the newest version: an informer that
  delivers an intermediate version is a pass on a stale copy, which the model
  has.
- `Requeue` and `RequeueAfter` both put the key back: delays are not modelled.
- `Status.Endpoints` and messages are left out: functions of the id, or texts.
- In `DistributionController` classes and secrets are cluster-wide and read
  without delay; kinds, namespaces and caches that trail are `References`,
  which in turn takes all of a pass's AWS calls as one step.
- A secret's value stands for its certificate: a serial, or `absent`, `opaque`
  (another type), `garbage` (PEM that does not decode), `blank` (no
  certificate in it).
- The id in the text of `DistributionAlreadyExists` is found by a regular
  expression in the code and is simply right here.
- A failing AWS session is in `References` only; elsewhere every
  session is good, and its calls may fail.
- A role to assume (`sts`) is one more AWS call that may fail.
- `ViewerPolicy` and `ViewerCertificate` leave out the branches for a spec without
  TLS and for a missing ARN: the certificate step has crashed or failed before
  either is reached (run `plain_http`).
- `CdnManager` runs both controllers against users, drift of addresses and the
  failures of its `Chaos`, with no change of classes or secrets, no resync and no meddling
  at AWS; those are in `DistributionController`'s own runs.

Definitions whose names end in `Bug` are mutants: what a plausible mistake in
the code would make of the definition after them. No specification uses them;
with one of them in place of its original, the property it belongs to fails.

## What the runs check

Bounds: perturbations (edits, deletions, class and secret changes, resyncs,
crashes, failed and lost calls, drift and destruction at AWS, stale reads) are
switched on by `Chaos`, and a behaviour holds at most `MaxChaos` of them,
except for the kinds in `Uncounted`. Everything else (passes, syncs,
roll-outs) is unbounded.

| Run | Instance | Question |
|---|---|---|
| `lifecycle` | 1 Distribution, 2 configurations, 2 serials, 2 distributions, 2 ARNs; all kinds, 3 a behaviour, stale reads any number | `TypeOK`; never two live distributions for one resource; finalizer, `Ready`, forgetting and turning off only when justified |
| `progress` | the same with 4 ARNs; no failed API writes, no meddling at AWS, no resync; 3 a behaviour | `SettledWhenIdle`: no lost wakeup; every Distribution is finally served; every deletion completes or waits for a named reason; `Promise`: the refinement |
| `sharing` | 2 Distributions, 3 distributions, 3 ARNs; deletions, crashes, failed writes, lost AWS answers, destruction at AWS; 2 a behaviour | what belongs to one never ends up in the other's status |
| `ingress` | 1 Ingress name with 2 incarnations, 3 incarnations of its Distribution, 2 addresses, 3 distributions, 5 ARNs; users change and delete both, addresses change, crashes, stale reads; 2 a behaviour | a lost update of the ingress controller is made up for; an Ingress is finally served; a deleted one leaves nothing; neither controller undoes the other |
| `replicas` | 1 Distribution, 2 symmetric configurations, 2 distributions, 2 ARNs, 2 managers; an edit, a deletion or a crash, stale reads any number | one distribution between two managers; nothing alive forgotten, let go or torn down; no wakeup lost between them |
| `references` | 2 Distributions in 2 namespaces, cluster-wide and namespaced classes of one name, 2 secrets, 4 ways to authenticate; 2 changes | no wakeup lost whatever the order of events; repaired credentials end a crash loop |
| `config` | 2 origins, 4 host lists, 3 method lists, 3 modes, with and without policies, 2 ways to serve TLS (one of them not CloudFront's), 2 ARNs; 2 edits | CloudFront refuses a configuration only for what the class itself is to blame for; at rest every field asked for is in effect; no update without a change of meaning; the controller comes to rest |
| `orphan`, `borrowed`, `plain_http`, `hostless`, `balancer` | as small as shows it | findings, see below |

Why the bounds are enough. In `lifecycle` three perturbations allow every pair
of failures with a third action to expose them: the hazards take at most three
(an edit that makes a write conflict, a crash, a deletion). With two ids a
duplicate distribution, or a second one after a deletion, is possible; a third
would take another deletion. Quotas are reached, so exhausted quotas are
covered too. Stale reads are uncounted there because they cost nothing; in
`progress` they are counted, because each stale pass with a lost status write
leaks a certificate until the quota is gone, and then nothing is served (a
hazard without a property: nothing in the repository promises otherwise). The
same leak is why `ingress` has five ARNs. `sharing` has one configuration and no edits:
neither matters to ownership. In `ingress` two Ingresses under a name are what
a wrong owner reference takes, three Distributions what a deletion in between
leaves. In `replicas` the second manager is the fault, so one more is enough to
separate them; configurations are symmetric as no definition tells one from
another, and the run checks no liveness. In `references` two changes are a
reference that moves while its target changes. In `config` every
list the three sets of methods are for occurs, and hosts in each order.
`CHECK_DEADLOCK FALSE` is right everywhere: with its perturbations spent and
everything settled the manager rests.

### Fairness

`Fairness` in `DistributionController`: the worker goroutine runs and every AWS
call returns with some outcome (`WF` on `Work`); the work queue is first in,
first out, so no key waits for ever behind others (`SF` on `Begin` and `Skip`,
which the queue order of client-go gives); informers deliver (`WF` on `Sync`);
CloudFront finishes its roll-outs (`WF` on `Rollout`). `ManagerFairness` adds
the ingress worker, its watch and the garbage collector (`WF` each).
`References` has the same of its worker, its informers and its handlers, with no
order among them; its `SF` per key is not justified across endless
restarts, in which a new process may always meet the same bad class first:
that is why `RepairHeals` has the premise that all credentials are in place.
`DistributionConfig` needs only that passes run. No fairness for users,
crashes, failures or the ten-hour resync: nothing that must happen rests on
them. Failures of AWS calls are bounded by `MaxChaos`, which stands for "not
for ever".

### What they show

A UID as caller reference makes creation idempotent through any sequence of
lost answers, crashes and stale copies, and even with two managers at once; the
status forgets only what is gone, with the exception `Report` from `noCert`;
the ETag makes an update or a deletion that rests on an old `load()` fail. It does
not protect the report: `Check()` says ready with no further call, so the premise of
`ReadyIsEarned` is that nobody changed the distribution since the pass loaded it. The watches suffice for passes that end without a requeue, as long
as the API server fails no status write. The ingress controller, which drops
its errors and never requeues, is kept in step by the watch on what it owns:
whatever made its write conflict wakes it again. Optimistic locking makes its
whole-object writes safe. The indexes and the namespace filter of the watches
miss no reference, in whatever order informers tell of changes.

### Findings

- **orphan**: a user deletes a Distribution during the
  pass that creates it. The status write conflicts, its error is ignored, the
  id is lost. The deletion pass sees an empty status, counts everything as
  deleted and removes the finalizer. The CloudFront distribution stays live,
  recorded nowhere.
- **borrowed**: `CertificateResolver.load` ignores the error of `Get` and keeps
  the secret of an earlier call, whatever Distribution that was for. A missing
  secret gives the Distribution another one's certificate and key.
- **plain_http**: a Distribution without a TLS section, which the API calls
  optional, makes the certificate provider dereference a nil certificate; the
  process panics, and again after each restart.
- **hostless**: a Distribution without hosts is never equal to what AWS holds
  (`nil` against an empty slice), so each pass updates it to what it already
  is, and it never becomes ready.
- **balancer**: with `--ingress-service` the origin is the address of a
  Service's load balancer, which no watch covers. A new address wakes no
  reconcile, although the API says the Distribution "will be kept up to date".

Disagreements of texts with the code that a reader sees at once, and no run shows:

- `pkg/provider/cloudfront/auth/auth.go:70-73` and
  `api/v1alpha1/aws_auth_types.go:69-72` say that references without a
  namespace are read from the class's own; `provider.go:54,70` always passes
  nil, so such a reference is an error (`Granted`). A namespaced class that relies on
  these comments crashes the manager in each process until it is edited.
  `RepairHeals` does not cover it: its premise, `Provided`, is what the code
  needs, a namespace in every reference.
- `docs/api/distribution-class.md:24-27` says that cookies are forwarded
  without a cache policy; `distribution.go:146-148` forwards none. `InEffect`
  asks for the host header and the query parameters of that sentence, and leaves the
  cookies out.
- `docs/guides/ingress-annotations.md:33-35` describes an Ingress without TLS;
  its Distribution is refused by the schema (`Accepted`).
- The values the class's schema allows for `sslMode` include `vpi`; CloudFront's
  word is `vip`. CloudFront refuses every configuration of such a class, in each pass
  until it is edited; `Servable` leaves it to blame.

## What is proved

For every value of the constants that meets the named assumptions: any sets of
Distributions, specs, classes and secrets, any quotas, any number and any mix
of perturbations. Assumed are `QuotaAssumption`, `EditAssumption` (bounds are natural
numbers), `SerialAssumption` (serials are not the words for missing
certificates), `ChaosAssumption`, `HostlessAssumption`, `SpecAssumption` and
`IngressAssumption` (specs are specs, an absent object is no object, classes
with and without a provider differ), `WishAssumption` (a wish is not the word for
a deletion), `ManagersAssumption` (the same of the two instances),
`ListAssumption` and `NoneAssumption` (types of lists; an empty string is no
configuration and no pass is "no pass"), `ReferenceAssumption` and `NameAssumption` (every name that can be
referred to is a name). TLC evaluates them in every run.

Where the table says "if", a theorem has a hypothesis besides, on what happens to
the code and not on what it does. `Unmeddled`: `Chaos` has no change of AWS by other clients. `Undisturbed`:
that, and the API server refuses writes for a conflict only. Without either the
code does lose wakeups (hazards at l.190 and `ingress.go` l.88).
`~UsesService`: no `--ingress-service`, as with one updates are lost (run `balancer`).
`NoRepeats`: no list names a host or a method twice; for a list that does, the
same hosts in other numbers are another configuration that means the same.

| Module | Theorem | States |
|---|---|---|
| `DistributionControllerProofs` | `Invariance` | `[](TypeInv /\ Fresh)` |
| | `TypeCorrect` | `[]TypeOK` |
| | `NoDuplicates` | `[]OneDistributionPerResource` |
| `DistributionSafetyProofs` | `Records` | `[]IInv` |
| | `Exclusive` | `[]OwnershipIsExclusive` |
| | `FinalizerSafe` | `UnfinalizeOnlyWhenGone` |
| | `NothingForgotten` | `ForgetOnlyDead` |
| | `TurnsOffDoomed` | `NeverTurnedOff` |
| `DistributionReadyProofs` | `ReadyMeansServed` | `ReadyIsEarned` |
| | `Implementation` | `Promise`, if `Unmeddled` |
| `DistributionWakeupProofs` | `NoLostWakeup` | `[]SettledWhenIdle`, if `Undisturbed` |
| `CdnManagerProofs` | `Together`, `SpecOnly` | `[]MInv`, `NeverUndone` |
| | `FoundationTogether` | `[]Foundation` |
| | `SafeTogether` | `ReadyIsEarned`, `ForgetOnlyDead`, `UnfinalizeOnlyWhenGone`, `NeverTurnedOff` |
| | `SeparateTogether` | `[](OneDistributionPerResource /\ OwnershipIsExclusive)` |
| | `SettledTogether`, `NothingOrphaned` | `[]SettledWhenIdle`, `[]CleanWhenQuiet`, if `Undisturbed` |
| | `NoLostUpdate` | `[]InSyncWhenQuiet`, if `Undisturbed` and `~UsesService` |
| `TwoManagersProofs` | `Beside` | `[]BInv` |
| | `SingleForBoth`, `RememberBoth`, `NoTearingDown` | `[]OnlyOneForBoth`, `BothRemember`, `NeitherTearsDown` |
| | `NotLeftToEachOther` | `[]SettledForBoth`, if `Undisturbed` |
| `DistributionConfigProofs` | `FieldsInEffect` | `[]InEffectAtRest` |
| | `NoFaultButTheClass` | `[]RefusedForItsClass` |
| | `NoIdleUpdate` | `UpdatesMean`, if `NoRepeats` |
| `ReferencesProofs` | `NothingMissed` | `[]NoWakeupLost` |

The arguments:

- **Types.** `TypeOK` alone is not inductive. Writing a status needs that the
  object to write still exists, which is `Fresh`: a current copy agrees with
  the API server's object. The types of a configuration need that the provider
  is only at work for a class with a CloudFront section, which is `Dispatched`. One
  lemma per action, one step per conjunct it may disturb.
- **No duplicates.** `LifeStep`: a step keeps the owner of a live
  distribution, and only `Create` makes one live, for an owner that has none.
- **Records.** Three more facts: `Recorded` (whatever any copy of a status
  names was made for its object; two objects never name the same certificate),
  `Remembered` (a pass has let go only of what is gone, and what it is about
  to turn off is in its copy) and `Doomed` (no copy claims a deletion that the
  object does not know of). Two facts about AWS carry them, that used ids keep
  their owner and that what is gone stays gone (`CfStep`, `AcmStep`), and one
  about names, that no step makes one up (`NamesStep`). The four safety theorems
  follow: only `Unfinalize` with a current copy removes an object with a
  finalizer, for instance, and then the copy's status is the object's, and all
  it named the pass has seen go.
- **Ready.** `Foundations` adds `LiveCert` (no live distribution names a
  certificate that is gone) and `Earned` (past the certificate provider the
  recorded certificate is the resolved one; a pass about to report ready has
  seen the distribution complete, and if its ETag is still the newest it still is).
  `Implementation` then maps each action to a step of `ManagedDistribution` or a stutter.
- **No lost wakeup.** `Assured`: a Distribution whose cache entry is up to
  date and that is not queued is either settled, or in the hands of a pass that
  knows its newest spec, class and secret (`InHand`). A change of either ends that
  knowledge, and by the same step queues it again. `Marked` says that an
  object marked as deleted has the finalizer, so that the pass does not pass over it.
- **Two controllers.** `MInv` adds the types of the ingress side and
  `BaseFresh`: a copy with the newest resource version is the object. Every step of
  the process is a step of the Distribution controller, a write it knows nothing
  of (`ForeignStep`), or none of its business (`WhoWrites`). For the first kind the
  lemmas of the `Distribution*Proofs` modules are cited as they stand. The second
  kind is `Innocent`: a new object under a UID nobody has heard of, a spec
  overwritten beside an untouched status, a mark of deletion, or the removal of
  what has no finalizer; each keeps what the first kind rests on. `Family` is what
  `Innocent` needs: UIDs not given out are in no cache and no pass, and what was
  given out has an owner to wake. So `Foundation` is invariant, and the properties
  of one controller are those of the two.
- **No lost update.** `Followed`: what the Ingress in the cache asks for is there,
  or the Ingress is queued or about to be (`Stirred`: its queue, or an event of a
  Distribution not yet taken in), or a pass is about to write it from a copy that
  is still the newest (`Competent`). Whatever ends `Competent` is a write to a
  Distribution that the Ingress owns, and its event stirs. `NothingOrphaned` follows from `Assured`: what
  the collector has marked and is still there would not be settled.
- **Two managers.** Each keeps its own invariant by the lemmas of
  `DistributionSafetyProofs`, cited of the instance. What is left is that a
  step of one keeps the invariant of the other (`Across1`, `Across2`), which rests on AWS's
  and the API server's never taking back what is gone or deleted, and on `Joint`:
  a certificate recorded by one manager for a Distribution is not recorded by the
  other for another one.
- **Not left to each other.** `Assured` is not invariant of each manager: one
  may change, between two steps of the other, the distribution that the other
  counts as settled. But it does so only in a pass over that Distribution, with
  the newest of it in hand, and then it assures it itself. So each Distribution is
  assured by one of the two at any time (`SInv`), and `Handy`, the half of `Assured` that
  speaks of the manager's memory alone, by both.
- **References.** `Cared`: for each Distribution in the cache, at any time,
  what AWS was given last is what the caches lead to, or it is queued, or an
  event that will queue it is on its way, or a pass is at work on it with what the
  caches have. It is stated of the caches, so a change at the API server does
  not disturb it until an informer takes it in.
- **Configuration.** `FieldsInEffect` and `NoFaultButTheClass` rest on
  `ComparesNewest`: a pass compares what is hosted now, and unless an event is
  waiting it wants what is asked now, so a pass that no edit
  has overtaken is refused for the class as it is. `MethodFacts` computes the three sets of methods for lists of
  any length. `NoIdleUpdate` needs that sorting undoes
  every reordering. That a list has an ascending order comes without induction
  by counting, for each place, the places that go before it, a bijection
  (`SortExists`); that two ascending lists without repeats and with the same
  members are the same, by their least difference (`SameSorted`).

Only model-checked: liveness (`BecomesReady`, `DeletionCompletes`,
`IngressServed`, `RepairHeals`, `ComesToRest`), since fairness is out of the
prover's reach. Every invariant and every action property of a passing run is a
theorem, and so is the refinement (`Promise`), whose abstract specification has no
fairness. What a run shows without a theorem's hypothesis it shows of its own `Chaos`.

## Not modelled, and what is left

- Which sets of methods CloudFront takes. `calculateMethods` says in a comment that there are
  three and emits two, three or six methods; `Acceptable` does not judge them.
- Deletions that wait for ever for a named reason, which `DeletionCompletes`
  excepts: a class that is gone, and a distribution that no status records.
- CloudFront's leftovers behind a collected Distribution: `CleanWhenQuiet` is about
  the API server's objects; what AWS may keep is the finding `orphan`.
- Timing: delays, back-off and the ten-hour resync are only an order here.
- The order in which a restarted process queues its list (see `RepairHeals`).
- The regular expression that finds an id in AWS's error text, and `Status.Endpoints`.
- Liveness of two managers: two workers that keep each other's writes in
  conflict need an order of steps to make progress that nothing in the code
  gives; `SettledForBoth` says what holds when both rest.
- Class and secret changes with two managers at once, which `replicas` leaves out
  to keep the state space small; what each manager does with them is in
  `lifecycle` and `progress`.
- Generated deep-copy code, the provider interface with its one
  implementation, the name parser in `pkg/util`, the chart and the CRDs (data),
  flags, logging, metrics and health probes: no state the program reads back.
