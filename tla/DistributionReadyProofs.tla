------------------------ MODULE DistributionReadyProofs ------------------------
(***************************************************************************)
(* That ready is earned, and with it that DistributionController           *)
(* implements ManagedDistribution, for every value of the constants.       *)
(***************************************************************************)
EXTENDS DistributionSafetyProofs, DistributionRefinement

\* No live distribution names a certificate that is gone.
LiveCert == \A i \in CfIds : Live(i) /\ cf[i].arn # 0 => Imported(cf[i].arn)

\* Past the certificate provider, the recorded certificate is the resolved one, unless
\* somebody deleted it.
Certified == /\ status.arn \in Arns
             /\ acm[status.arn] \in {cert.value, "gone"}

\* What the recorded distribution is when a pass says so.
Complete == /\ status.id \in CfIds /\ status.arn \in Arns
            /\ cf[status.id].phase = "Deployed" /\ cf[status.id].enabled
            /\ cf[status.id].config = Desired(copy.spec, cls)
            /\ cf[status.id].arn = status.arn
            /\ acm[status.arn] = cert.value

\* Nobody else changes what is at AWS.
Unmeddled == Chaos \cap {"drift", "destroy"} = {}

\* A pass is about to report ready, and nobody changed the distribution since load().
Claims == /\ pc = "report"
          /\ ~copy.deleting /\ status.ready
          /\ Wants(cls)
          /\ etag \/ Unmeddled

Earned == /\ pc \in {"load", "create", "update"} /\ ~copy.deleting => Certified
          /\ Claims => Complete
          /\ pc = "noCert" => ~status.ready

-----------------------------------------------------------------------------
(* Certificates outlive the distributions that name them.                   *)

\* AWS lets no distribution name a certificate that is not there, and deletes none
\* that is named.
LEMMA LiveCertStep ==
    ASSUME TypeInv, LiveCert, Next
    PROVE  LiveCert'
<1> USE DEF TypeInv
<1>1. /\ cf \in [CfIds -> CfRecord]
      /\ acm \in [Arns -> Serials \cup {"unused", "gone"}]
  BY DEF TypeOK, AwsTypeOK
<1>2. ASSUME NEW i \in CfIds, Live(i)', cf'[i].arn # 0, acm' = acm,
             \/ Live(i) /\ cf'[i].arn = cf[i].arn
             \/ Usable(cf'[i].arn)
      PROVE  Imported(cf[i].arn)'
  BY <1>2 DEF LiveCert, Usable, Imported
<1>3. CASE awsVars' = awsVars
  BY <1>3 DEF awsVars, LiveCert, Live, Imported
<1>4. CASE Import
  <2>1. cf' = cf /\ \A a \in Arns : acm[a] \in Serials => acm'[a] \in Serials
    BY <1>1, <1>4 DEF Import
  <2> QED
    BY <2>1 DEF LiveCert, Live, Imported
<1>5. CASE DeleteCert
  <2>1. cf' = cf /\ \A a \in Arns : InUse(a) => acm'[a] = acm[a]
    BY <1>1, <1>5 DEF DeleteCert
  <2> QED
    BY <2>1 DEF LiveCert, Live, Imported, InUse
<1>6. CASE Create
  <2>1. acm' = acm
    BY <1>6 DEF Create
  <2>2. ASSUME NEW i \in CfIds, Live(i)'
        PROVE  (Live(i) /\ cf'[i].arn = cf[i].arn) \/ Usable(cf'[i].arn)
    <3>1. PICK j \in CfIds :
            \/ Usable(status.arn) /\ cf' = [cf EXCEPT ![j] =
                 [phase |-> "InProgress", ref |-> key, enabled |-> TRUE,
                  config |-> Desired(copy.spec, cls), arn |-> status.arn]]
            \/ cf' = cf
      BY <1>6, <2>2 DEF Create, Clashes
    <3>2. CASE i = j /\ cf' # cf
      BY <1>1, <3>1, <3>2
    <3>3. CASE i # j \/ cf' = cf
      BY <1>1, <2>2, <3>1, <3>3 DEF Live
    <3> QED
      BY <3>2, <3>3
  <2> QED
    BY <1>2, <2>1, <2>2 DEF LiveCert
<1>7. ASSUME NEW c, NEW on, NEW a, Put(c, on, a) PROVE LiveCert'
  <2>1. acm' = acm
    BY <1>7 DEF Put
  <2>2. ASSUME NEW i \in CfIds, Live(i)'
        PROVE  (Live(i) /\ cf'[i].arn = cf[i].arn) \/ Usable(cf'[i].arn)
    <3>1. CASE cf' = cf
      BY <2>2, <3>1 DEF Live
    <3>2. CASE /\ Live(status.id) /\ Usable(a)
               /\ cf' = [cf EXCEPT ![status.id] =
                           [@ EXCEPT !.phase = "InProgress", !.enabled = on,
                                     !.config = c, !.arn = a]]
      BY <1>1, <2>2, <3>2 DEF Live, CfRecord
    <3> QED
      BY <1>7, <3>1, <3>2 DEF Put
  <2> QED
    BY <1>2, <2>1, <2>2 DEF LiveCert
<1>8. CASE DeleteCf \/ \E i \in CfIds : Deploy(i) \/ Drift(i) \/ Destroy(i)
  <2>1. PICK i : \/ DeleteCf /\ i = status.id
                 \/ i \in CfIds /\ (Deploy(i) \/ Drift(i) \/ Destroy(i))
    BY <1>8
  <2>2. acm' = acm
    BY <1>8 DEF DeleteCf, Deploy, Drift, Destroy
  <2>3. ASSUME NEW j \in CfIds, Live(j)' PROVE Live(j) /\ cf'[j].arn = cf[j].arn
    <3>1. cf[j] \in CfRecord
      BY <1>1, <2>3
    <3>2. CASE i # j \/ cf' = cf
      BY <1>1, <2>1, <2>3, <3>2 DEF DeleteCf, Deploy, Drift, Destroy, Live
    <3>3. CASE i = j /\ cf' # cf
      <4>1. CASE DeleteCf \/ Destroy(i)
        BY <1>1, <2>3, <3>1, <3>3, <4>1, <2>1 DEF DeleteCf, Destroy, Live, CfRecord
      <4>2. CASE Deploy(i)
        BY <1>1, <3>1, <3>3, <4>2 DEF Deploy, Live, CfRecord
      <4>3. CASE Drift(i)
        BY <1>1, <3>1, <3>3, <4>3 DEF Drift, Live, CfRecord
      <4> QED
        BY <2>1, <4>1, <4>2, <4>3
    <3> QED
      BY <3>2, <3>3
  <2> QED
    BY <1>2, <2>2, <2>3 DEF LiveCert
<1>9. CASE \E a \in Arns : DestroyCert(a)
  <2>1. cf' = cf /\ \A a \in Arns : InUse(a) => acm'[a] = acm[a]
    BY <1>1, <1>9 DEF DestroyCert
  <2> QED
    BY <2>1 DEF LiveCert, Live, Imported, InUse
<1>10. CASE Work
  BY <1>3, <1>4, <1>5, <1>6, <1>7, <1>8, <1>10
  DEF Work, Stretch, AddFinalizer, Resolve, Report, ReportDeletion, Unfinalize, Panic,
      Restarted, ProviderStep, Describe, Load, Update, Disable
<1>11. CASE Environment
  BY <1>3, <1>8, <1>9, <1>11
  DEF Environment, EditSpec, DeleteObject, UserWrites, Sync, Resync, ClassChange,
      SecretChange, Rollout, Meddle, Crash, Restarted
<1>12. CASE \E d \in Distros : Begin(d) \/ Skip(d)
  BY <1>3, <1>12 DEF Begin, Skip
<1> QED
  BY <1>10, <1>11, <1>12 DEF Next

-----------------------------------------------------------------------------
(* Ready is earned.                                                         *)

\* A claim survives what others do: only a change at AWS could belie it, and that takes
\* the ETag, or would delete a certificate in use.
LEMMA EarnedRest ==
    ASSUME TypeInv, Earned, Environment, ~Crash
    PROVE  Earned'
<1> USE DEF TypeInv
<1>1. /\ cf \in [CfIds -> CfRecord]
      /\ acm \in [Arns -> Serials \cup {"unused", "gone"}]
  BY DEF TypeOK, AwsTypeOK
<1>2. /\ UNCHANGED <<pc, copy, cls, cert, status>>
      /\ etag' = etag \/ \E b \in BOOLEAN : etag' = (etag /\ b)
  <2>1. CASE Meddle
    <3>1. ASSUME NEW i \in CfIds, etag' = (etag /\ status.id # i)
          PROVE  \E b \in BOOLEAN : etag' = (etag /\ b)
      BY <3>1, Zenon
    <3>2. UNCHANGED <<pc, copy, cls, cert, status>>
      BY <2>1 DEF Meddle, passVars
    <3>3. etag' = etag \/ \E i \in CfIds : etag' = (etag /\ status.id # i)
      BY <2>1, Zenon DEF Meddle, passVars
    <3> QED
      BY <3>1, <3>2, <3>3, Zenon
  <2>2. CASE ~Meddle
    BY <2>2 DEF Environment, EditSpec, DeleteObject, UserWrites, Sync, Resync, ClassChange,
                SecretChange, Rollout, passVars
  <2> QED
    BY <2>1, <2>2
<1>3. Claims' => Claims
  BY <1>2 DEF Claims, Wants
<1>4. ASSUME UNCHANGED awsVars PROVE Earned'
  BY <1>2, <1>3, <1>4 DEF Earned, Certified, Complete, Desired, awsVars
<1>5. ASSUME NEW a \in Arns, DestroyCert(a) PROVE Earned'
  <2>1. cf' = cf /\ \A b \in Arns : acm'[b] = acm[b] \/ (acm'[b] = "gone" /\ ~InUse(b))
    BY <1>1, <1>5 DEF DestroyCert
  <2>2. Certified => Certified'
    BY <1>2, <2>1 DEF Certified
  <2>3. Complete => Complete'
    BY <1>2, <2>1 DEF Complete, InUse, Live, Desired
  <2> QED
    BY <1>2, <1>3, <2>2, <2>3 DEF Earned
<1>6. ASSUME NEW i \in CfIds, Rollout(i) \/ Drift(i) \/ Destroy(i), Claims' => status.id # i \/ Rollout(i)
      PROVE  Earned'
  <2>1. acm' = acm
    BY <1>6 DEF Rollout, Deploy, Drift, Destroy
  <2>2. Certified => Certified'
    BY <1>2, <2>1 DEF Certified
  <2>3. Claims' /\ Complete => Complete'
    <3>1. CASE status.id # i
      <4>1. \A j \in CfIds \ {i} : cf'[j] = cf[j]
        BY <1>1, <1>6 DEF Rollout, Deploy, Drift, Destroy
      <4> QED
        BY <1>2, <2>1, <3>1, <4>1 DEF Complete, Desired
    <3>2. CASE Rollout(i)
      <4>1. \A j \in CfIds : cf[j].phase = "Deployed" => cf'[j] = cf[j]
        BY <1>1, <3>2 DEF Rollout, Deploy
      <4> QED
        BY <1>2, <2>1, <4>1 DEF Complete, Desired
    <3> QED
      BY <1>6, <3>1, <3>2
  <2> QED
    BY <1>2, <1>3, <2>2, <2>3 DEF Earned
<1>7. CASE Meddle
  <2>1. ASSUME NEW i \in CfIds, Drift(i) \/ Destroy(i), etag' = (etag /\ status.id # i), Claims'
        PROVE  status.id # i
    BY <2>1 DEF Claims, Unmeddled, Drift, Destroy, Perturb
  <2> QED
    BY <1>5, <1>6, <1>7, <2>1 DEF Meddle
<1>8. CASE ~Meddle /\ ~\E i \in CfIds : Rollout(i)
  BY <1>4, <1>8
  DEF Environment, EditSpec, DeleteObject, UserWrites, Sync, Resync, ClassChange, SecretChange
<1> QED
  BY <1>6, <1>7, <1>8

\* The provider calls a distribution ready only after load() found it complete.
LEMMA EarnedProvider ==
    ASSUME TypeInv, Remembered, LiveCert, Earned, ProviderStep, UNCHANGED othersVars
    PROVE  Earned'
<1> USE DEF TypeInv
<1>1. /\ cf \in [CfIds -> CfRecord]
      /\ acm \in [Arns -> Serials \cup {"unused", "gone"}]
  BY DEF TypeOK, AwsTypeOK
<1>2. /\ UNCHANGED given /\ status \in Status /\ copy.status \in Status
      /\ copy.deleting \in BOOLEAN
  BY DEF ProviderStep, Describe, Import, DeleteCert, Load, Create, Update, Disable, DeleteCf,
         Put, TypeOK, Object
<1>3. ASSUME pc' = "report", copy.deleting \/ ~status'.ready PROVE Earned'
  BY <1>2, <1>3 DEF Earned, Claims, given
<1>4. ASSUME NEW s \in Status, Fail(s) PROVE Earned'
  BY <1>2, <1>3, <1>4 DEF Fail, Status
<1>5. CASE Describe
  <2>1. CASE /\ Imported(status.arn) /\ acm[status.arn] = cert.value
             /\ Goto(FirstCfStep, status)
    BY <1>2, <1>5, <2>1 DEF Describe, Goto, FirstCfStep, Imported, Earned, Claims, Certified,
                            given, awsVars
  <2>2. CASE pc' = "import"
    BY <2>2 DEF Earned, Claims
  <2> QED
    BY <1>2, <1>4, <1>5, <2>1, <2>2 DEF Describe, Goto
<1>6. CASE Import
  <2>1. ASSUME NEW a \in Arns, acm' = [acm EXCEPT ![a] = cert.value],
               Goto(FirstCfStep, [status EXCEPT !.arn = a])
        PROVE  Earned'
    <3>1. status'.arn = a /\ acm'[a] = cert.value /\ pc' \in {"load", "create"}
      BY <1>1, <1>2, <2>1 DEF Goto, FirstCfStep, Status
    <3> QED
      BY <1>2, <3>1 DEF Earned, Claims, Certified, given
  <2> QED
    BY <1>2, <1>4, <1>6, <2>1 DEF Import
<1>7. CASE DeleteCert \/ Disable \/ DeleteCf
  <2>1. copy.deleting
    BY <1>7 DEF Remembered, DeleteCert, Disable, DeleteCf
  <2>2. pc' \in {"report", "deleteCert"}
    BY <1>7 DEF DeleteCert, Disable, DeleteCf, Put, Goto, Fail
  <2> QED
    BY <1>2, <2>1, <2>2 DEF Earned, Claims, given
<1>8. CASE Create
  <2>1. ASSUME NEW i, Goto("report", Observed(status, i, "InProgress")) PROVE Earned'
    BY <1>2, <1>3, <2>1 DEF Goto, Observed, Status
  <2>2. ASSUME NEW i \in CfIds \cup {0}, Fail([status EXCEPT !.id = i, !.ext = "Unknown"])
        PROVE  Earned'
    BY <1>2, <1>4, <2>2, StatusTypes
  <2>3. ASSUME Fail([status EXCEPT !.ext = "Unknown"]) PROVE Earned'
    BY <1>2, <1>4, <2>3, StatusTypes DEF LoadFailed
  <2> QED
    BY <1>8, <2>1, <2>2, <2>3 DEF Create, Clashes, Owned
<1>9. CASE Update
  <2>1. ASSUME NEW i, Goto("report", Observed(status, i, "InProgress")) PROVE Earned'
    BY <1>2, <1>3, <2>1 DEF Goto, Observed, Status
  <2> QED
    BY <1>2, <1>4, <1>9, <2>1 DEF Update, Put
<1>10. CASE Load
  <2> DEFINE i == copy.status.id
  <2>1. CASE copy.deleting
    BY <1>2, <1>10, <2>1 DEF Load, Goto, Fail, AfterLoad, Earned, Claims, given
  <2>2. CASE ~copy.deleting /\ Live(i) /\ Goto(AfterLoad(i), Observed(status, i, cf[i].phase))
    <3>1. /\ Certified /\ UNCHANGED awsVars
          /\ status'.arn = status.arn /\ status'.id = i
          /\ status'.ready <=> cf[i].phase = "Deployed"
      BY <1>2, <1>10, <2>2 DEF Load, Goto, Observed, Status, Earned
    <3>2. Certified'
      BY <1>2, <3>1 DEF Certified, given, awsVars
    <3>3. CASE ~UpToDate(i)
      BY <1>2, <2>2, <3>2, <3>3 DEF AfterLoad, Goto, Earned, Claims
    <3>4. CASE UpToDate(i)
      <4>1. acm[status.arn] = cert.value
        BY <1>1, <2>2, <3>1, <3>4, SerialAssumption
        DEF UpToDate, LiveCert, Live, Certified, Imported, Arns
      <4>2. status'.ready => Complete'
        BY <1>2, <2>2, <3>1, <3>4, <4>1
        DEF UpToDate, Complete, Certified, Live, Desired, given, awsVars
      <4> QED
        BY <2>2, <3>4, <4>2 DEF AfterLoad, Goto, Earned, Claims
    <3> QED
      BY <3>3, <3>4
  <2>3. CASE ~copy.deleting /\ Goto("create", [status EXCEPT !.id = 0, !.ext = "Unknown"])
    BY <1>2, <1>10, <2>3 DEF Load, Goto, Status, Earned, Claims, Certified, given, awsVars
  <2>4. CASE Fail(LoadFailed(status))
    BY <1>2, <1>4, <2>4, StatusTypes
  <2> QED
    BY <1>2, <1>10, <2>1, <2>2, <2>3, <2>4 DEF Load
<1> QED
  BY <1>5, <1>6, <1>7, <1>8, <1>9, <1>10 DEF ProviderStep
\* Every step of the system keeps what a claim rests on.
LEMMA EarnedStep ==
    ASSUME TypeInv, Remembered, LiveCert, Earned, Next
    PROVE  Earned'
<1> USE DEF TypeInv
<1>1. ASSUME pc' \in {"idle", "addFinalizer", "resolve", "describe", "import", "unfinalize"}
      PROVE  Earned'
  BY <1>1 DEF Earned, Claims
<1>2. ASSUME NEW d \in Distros, Begin(d) PROVE Earned'
  <2>1. copy' = cache[d] /\ pc' = FirstStep(cache[d]) /\ cache[d].deleting \in BOOLEAN
    BY <1>2 DEF Begin, Ignored, TypeOK, Object
  <2> QED
    BY <1>1, <2>1 DEF FirstStep, FirstDeleteStep, Earned, Claims
<1>3. CASE AddFinalizer \/ Report \/ ReportDeletion \/ Unfinalize
  BY <1>1, <1>3 DEF AddFinalizer, Report, ReportDeletion, Unfinalize, Finish, IdleAgain
<1>4. CASE Panic \/ Crash
  BY <1>1, <1>4 DEF Panic, Crash, Restarted, IdleAgain
<1>5. CASE Resolve
  BY <1>1, <1>5 DEF Resolve, FirstCertStep, EmptyStatus, Earned, Claims, Wants
<1>6. ASSUME NEW d \in Distros, Skip(d) PROVE Earned'
  BY <1>1, <1>6 DEF Skip, passVars
<1> QED
  BY <1>2, <1>3, <1>4, <1>5, <1>6, EarnedRest, EarnedProvider
  DEF Next, Work, Stretch, Environment, othersVars

\* What a report of ready rests on is invariant.
THEOREM Foundations == Spec => [](IInv /\ LiveCert /\ Earned)
<1>1. Init => LiveCert /\ Earned
  BY DEF Init, AwsInit, UnusedCf, LiveCert, Live, Earned, Claims
<1>2. IInv /\ LiveCert /\ Earned /\ [Next]_vars => (LiveCert /\ Earned)'
  <2>1. ASSUME IInv, LiveCert, Earned, Next PROVE LiveCert' /\ Earned'
    BY <2>1, LiveCertStep, EarnedStep DEF IInv
  <2>2. ASSUME UNCHANGED vars, LiveCert, Earned PROVE LiveCert' /\ Earned'
    BY <2>2 DEF vars, awsVars, workerVars, passVars, LiveCert, Live, Imported, Earned, Claims,
                Certified, Complete, Desired, Wants
  <2> QED
    BY <2>1, <2>2
<1> QED
  BY <1>1, <1>2, Records, PTL DEF Spec

\* A step that takes ready to true is the report of a complete distribution.
LEMMA ReadyStep ==
    ASSUME IInv, Earned, Next, NEW d \in Distros, Exists(d), obj'[d] # NoObject,
           ~obj'[d].deleting, ~obj[d].status.ready, obj'[d].status.ready
    PROVE  /\ pc = "report" /\ ~copy.deleting /\ status.ready
           /\ obj'[d].status = status /\ obj'[d].spec = copy.spec
BY StatusStep DEF Earned

\* No step says ready of what is not.
LEMMA ReadySafe ==
    ASSUME IInv, Earned, Next
    PROVE  EarnReady
<1> SUFFICES ASSUME NEW d \in Distros, Exists(d), obj'[d] # NoObject, ~obj'[d].deleting,
                    ~obj[d].status.ready, obj'[d].status.ready, Wants(cls), etag
             PROVE  LET s == obj'[d].status IN
                    /\ s.id # 0 /\ s.arn # 0
                    /\ cf[s.id].phase = "Deployed" /\ cf[s.id].enabled
                    /\ cf[s.id].config = Desired(obj'[d].spec, cls)
                    /\ cf[s.id].arn = s.arn
                    /\ acm[s.arn] = cert.value
  BY DEF EarnReady
<1>1. Complete
  BY ReadyStep DEF Earned, Claims
<1> QED
  BY <1>1, ReadyStep DEF Complete, CfIds, Arns, Desired

\* Ready is earned, whatever was stale, failed, repeated or changed at AWS before.
THEOREM ReadyMeansServed == Spec => ReadyIsEarned
<1>1. IInv /\ LiveCert /\ Earned /\ [Next]_vars => [EarnReady]_vars
  BY ReadySafe
<1> QED
  BY <1>1, Foundations, PTL DEF Spec, ReadyIsEarned

-----------------------------------------------------------------------------
(* DistributionController implements ManagedDistribution.                   *)

\* A step that changes nothing of what is promised is a look at another owner.
LEMMA LookStep ==
    ASSUME WantedBy' = WantedBy, SiteAt' = SiteAt, Ready' = Ready
    PROVE  Promised!Next
BY DEF Promised!Next, Promised!Look, Unmanaged

\* What the mapping makes of the objects is left alone by a step that leaves them alone,
\* and what it makes of AWS likewise.
LEMMA SameMap == /\ obj' = obj => WantedBy' = WantedBy /\ Ready' = Ready
                 /\ cf' = cf => SiteAt' = SiteAt
<1>1. ASSUME obj' = obj PROVE WantedBy' = WantedBy /\ Ready' = Ready
  BY <1>1 DEF WantedBy, WishOf, Ready, Exists
<1>2. ASSUME cf' = cf PROVE SiteAt' = SiteAt
  BY <1>2 DEF SiteAt, Site
<1> QED
  BY <1>1, <1>2

\* A change of one distribution is a change of one site.
LEMMA OneSite ==
    ASSUME NEW i \in CfIds, \A j \in CfIds \ {i} : cf'[j] = cf[j],
           NEW new, Site(i)' = new
    PROVE  Promised!Becomes(i, new)
<1>1. \A j \in CfIds \ {i} : Site(j)' = Site(j)
  BY DEF Site
<1> QED
  BY <1>1 DEF Promised!Becomes, SiteAt

\* How a change of a distribution shows in its site.
LEMMA Views ==
    ASSUME NEW r, NEW t, t.ref = r.ref, t.config = r.config
    PROVE  /\ t.enabled = r.enabled => View(t) = [View(r) EXCEPT !.state = StateOf(t.phase)]
           /\ View(t) = [state |-> StateOf(t.phase), on |-> t.enabled,
                         owner |-> View(r).owner, serves |-> View(r).serves]
<1>1. ASSUME t.enabled = r.enabled
      PROVE  View(t) = [View(r) EXCEPT !.state = StateOf(t.phase)]
  BY <1>1 DEF View
<1>2. View(t) = [state |-> StateOf(t.phase), on |-> t.enabled,
                 owner |-> View(r).owner, serves |-> View(r).serves]
  BY DEF View
<1> QED
  BY <1>1, <1>2

\* How a configuration shows.
LEMMA ConfiguredView ==
    ASSUME NEW t, NEW spec, NEW c, t.config = Desired(spec, c), t.config # NoConfig
    PROVE  View(t) = [state |-> StateOf(t.phase), on |-> t.enabled, owner |-> t.ref,
                      serves |-> spec.config]
BY DEF View, Desired

\* How a phase shows.
LEMMA States == /\ StateOf("InProgress") = "rolling" /\ StateOf("Deployed") = "settled"
                /\ StateOf("gone") = "gone" /\ StateOf("unused") = "unused"
BY DEF StateOf

\* A site shows what its distribution is, before and after a step.
LEMMA SiteView ==
    ASSUME NEW i \in CfIds
    PROVE  Site(i) = View(cf[i]) /\ Site(i)' = View(cf'[i])
BY DEF Site

\* A change that keeps owner and configuration.
LEMMA SameService ==
    ASSUME NEW i \in CfIds, cf'[i].ref = cf[i].ref, cf'[i].config = cf[i].config
    PROVE  /\ cf'[i].enabled = cf[i].enabled
              => Site(i)' = [Site(i) EXCEPT !.state = StateOf(cf'[i].phase)]
           /\ Site(i)' = [state |-> StateOf(cf'[i].phase), on |-> cf'[i].enabled,
                          owner |-> Site(i).owner, serves |-> Site(i).serves]
<1>1. /\ cf'[i].enabled = cf[i].enabled
         => View(cf'[i]) = [View(cf[i]) EXCEPT !.state = StateOf(cf'[i].phase)]
      /\ View(cf'[i]) = [state |-> StateOf(cf'[i].phase), on |-> cf'[i].enabled,
                         owner |-> View(cf[i]).owner, serves |-> View(cf[i]).serves]
  BY Views
<1> QED
  BY <1>1, SiteView

\* A new configuration of a class.
LEMMA NewService ==
    ASSUME NEW i \in CfIds, NEW spec, NEW c, cf'[i].config = Desired(spec, c),
           Desired(spec, c) # NoConfig
    PROVE  Site(i)' = [state |-> StateOf(cf'[i].phase), on |-> cf'[i].enabled,
                       owner |-> cf'[i].ref, serves |-> spec.config]
<1>1. View(cf'[i]) = [state |-> StateOf(cf'[i].phase), on |-> cf'[i].enabled,
                      owner |-> cf'[i].ref, serves |-> spec.config]
  BY ConfiguredView
<1> QED
  BY <1>1, SiteView

\* UpdateDistribution replaces all of one distribution but its owner.
LEMMA PutResult ==
    ASSUME TypeInv, NEW c, NEW on, NEW a, Put(c, on, a), cf' # cf
    PROVE  /\ status.id \in CfIds /\ Live(status.id)
           /\ cf'[status.id].phase = "InProgress" /\ cf'[status.id].enabled = on
           /\ cf'[status.id].config = c /\ cf'[status.id].ref = cf[status.id].ref
           /\ \A j \in CfIds \ {status.id} : cf'[j] = cf[j]
<1>1. status.id \in CfIds /\ Live(status.id)
  BY DEF Put, Live
<1>2. cf[status.id] \in CfRecord /\ cf \in [CfIds -> CfRecord]
  BY <1>1 DEF TypeInv, TypeOK, AwsTypeOK
<1>3. cf' = [cf EXCEPT ![status.id] = [@ EXCEPT !.phase = "InProgress", !.enabled = on,
                                               !.config = c, !.arn = a]]
  BY DEF Put
<1>4. cf'[status.id] = [cf[status.id] EXCEPT !.phase = "InProgress", !.enabled = on,
                                            !.config = c, !.arn = a]
  BY <1>1, <1>2, <1>3
<1>5. /\ cf'[status.id].phase = "InProgress" /\ cf'[status.id].enabled = on
      /\ cf'[status.id].config = c /\ cf'[status.id].ref = cf[status.id].ref
  BY <1>2, <1>4 DEF CfRecord
<1>6. \A j \in CfIds \ {status.id} : cf'[j] = cf[j]
  BY <1>2, <1>3
<1> QED
  BY <1>1, <1>5, <1>6

\* A site is there when its distribution is live.
LEMMA SiteFacts ==
    ASSUME TypeInv, NEW i \in CfIds
    PROVE  /\ SiteAt[i] = Site(i)
           /\ cf[i] \in CfRecord
           /\ Promised!Exists(i) <=> Live(i)
           /\ SiteAt[i].state = "unused" <=> cf[i].phase = "unused"
           /\ SiteAt[i].state = "settled" <=> cf[i].phase = "Deployed"
           /\ SiteAt[i].state = "rolling" <=> cf[i].phase = "InProgress"
           /\ SiteAt[i].on = cf[i].enabled /\ SiteAt[i].owner = cf[i].ref
<1>1. cf[i] \in CfRecord
  BY DEF TypeInv, TypeOK, AwsTypeOK
<1>2. cf[i].phase \in {"unused", "InProgress", "Deployed", "gone"}
  BY <1>1 DEF CfRecord, Phases
<1>3. SiteAt[i] = Site(i)
  BY DEF SiteAt
<1> QED
  BY <1>1, <1>2, <1>3 DEF Site, View, StateOf, Promised!Exists, Live

\* What a pass at work in the provider has in hand.
LEMMA PassTypes ==
    ASSUME TypeInv, pc \in ProviderLabels
    PROVE  key \in Distros /\ copy.spec.config \in Configs /\ cls \in CloudFrontSpecs
BY SpecAssumption
DEF TypeInv, TypeOK, Dispatched, ProviderLabels, Wants, Object, DistributionSpec

\* CreateDistribution provides an owner that has no site with one.
LEMMA CreateStep ==
    ASSUME TypeInv, Create, obj' = obj
    PROVE  Promised!Next
<1>1. CASE cf' = cf
  BY <1>1, LookStep, SameMap
<1>2. CASE cf' # cf
  <2>1. PICK i \in CfIds :
          /\ Clashes = {} /\ FreshCf(i)
          /\ cf' = [cf EXCEPT ![i] =
                      [phase |-> "InProgress", ref |-> key, enabled |-> TRUE,
                       config |-> Desired(copy.spec, cls), arn |-> status.arn]]
    BY <1>2 DEF Create
  <2>2. key \in Distros /\ copy.spec.config \in Configs /\ cls \in CloudFrontSpecs
    BY PassTypes DEF Create, ProviderLabels
  <2>3. Site(i)' = [state |-> "rolling", on |-> TRUE, owner |-> key,
                    serves |-> copy.spec.config]
    <3>1. /\ cf'[i].phase = "InProgress" /\ cf'[i].ref = key /\ cf'[i].enabled = TRUE
          /\ cf'[i].config = Desired(copy.spec, cls)
      BY <2>1, SiteFacts DEF TypeInv, TypeOK, AwsTypeOK
    <3>2. Desired(copy.spec, cls) # NoConfig
      BY <2>2, WishAssumption DEF Desired
    <3> QED
      BY <3>1, <3>2, NewService, States
  <2>4. \A j \in CfIds \ {i} : cf'[j] = cf[j]
    BY <2>1 DEF TypeInv, TypeOK, AwsTypeOK
  <2>5. SiteAt[i].state = "unused"
    BY <2>1, SiteFacts DEF FreshCf
  <2>6. \A t \in CfIds : Promised!Exists(t) => SiteAt[t].owner # key
    BY <2>1, SiteFacts DEF Clashes, Owned
  <2>7. Promised!Provide(i, key)
    BY <2>2, <2>3, <2>4, <2>5, <2>6, OneSite, SameMap DEF Promised!Provide
  <2> QED
    BY <2>2, <2>7 DEF Promised!Next, Unmanaged
<1> QED
  BY <1>1, <1>2

\* UpdateDistribution configures a site, or turns off one whose owner is doomed.
LEMMA PutStep ==
    ASSUME IInv, Next, Update \/ Disable, obj' = obj
    PROVE  Promised!Next
<1> USE DEF IInv
<1>1. CASE cf' = cf
  BY <1>1, LookStep, SameMap
<1>2. CASE cf' # cf /\ Update
  <2>1. PICK i \in CfIds :
          /\ i = status.id /\ Live(i) /\ cf'[i].phase = "InProgress" /\ cf'[i].enabled = TRUE
          /\ cf'[i].config = Desired(copy.spec, cls) /\ cf'[i].ref = cf[i].ref
          /\ \A j \in CfIds \ {i} : cf'[j] = cf[j]
    BY <1>2, PutResult DEF Update
  <2>2. copy.spec.config \in Configs /\ Desired(copy.spec, cls) # NoConfig
    BY <1>2, PassTypes, WishAssumption DEF Update, ProviderLabels, Desired
  <2>3. Site(i)' = [state |-> StateOf(cf'[i].phase), on |-> cf'[i].enabled,
                    owner |-> cf'[i].ref, serves |-> copy.spec.config]
    BY <2>1, <2>2, NewService
  <2>4. Site(i)' = [state |-> "rolling", on |-> TRUE, owner |-> SiteAt[i].owner,
                    serves |-> copy.spec.config]
    BY <2>1, <2>3, SiteFacts, States
  <2>5. Promised!Configure(i)
    BY <2>1, <2>2, <2>4, OneSite, SameMap, SiteFacts DEF Promised!Configure
  <2> QED
    BY <2>1, <2>5 DEF Promised!Next, Unmanaged
<1>3. CASE cf' # cf /\ Disable
  <2>1. PICK i \in CfIds :
          /\ i = status.id /\ Live(i) /\ cf'[i].phase = "InProgress" /\ cf'[i].enabled = FALSE
          /\ cf'[i].config = cf[i].config /\ cf'[i].ref = cf[i].ref
          /\ \A j \in CfIds \ {i} : cf'[j] = cf[j]
    BY <1>3, PutResult DEF Disable
  <2>2. Site(i)' = [state |-> "rolling", on |-> FALSE, owner |-> SiteAt[i].owner,
                    serves |-> SiteAt[i].serves]
    <3>1. Site(i)' = [state |-> StateOf(cf'[i].phase), on |-> cf'[i].enabled,
                      owner |-> Site(i).owner, serves |-> Site(i).serves]
      BY <2>1, SameService
    <3> QED
      BY <2>1, <3>1, SiteFacts, States
  <2>3. Promised!Abandoned(i)
    <3>1. pc = "disable" /\ key \in Distros
      BY <1>3, PassTypes DEF Disable, ProviderLabels
    <3>2. copy.deleting /\ NamesCf(key, i)
      BY <2>1, <3>1 DEF Remembered, NamesCf
    <3>3. cf[i].ref = key /\ (Exists(key) => obj[key].deleting)
      BY <2>1, <3>1, <3>2 DEF Recorded, Doomed
    <3> QED
      BY <2>1, <3>1, <3>3, SiteFacts DEF Promised!Abandoned, WantedBy, WishOf
  <2>4. Promised!TurnOff(i)
    BY <2>1, <2>2, <2>3, OneSite, SameMap, SiteFacts DEF Promised!TurnOff
  <2> QED
    BY <2>1, <2>4 DEF Promised!Next, Unmanaged
<1> QED
  BY <1>1, <1>2, <1>3

\* DeleteDistribution removes a site whose owner is doomed.
LEMMA DeleteCfStep ==
    ASSUME IInv, Next, DeleteCf, obj' = obj
    PROVE  Promised!Next
<1> USE DEF IInv
<1>1. CASE cf' = cf
  BY <1>1, LookStep, SameMap
<1>2. CASE cf' # cf
  <2>1. PICK i \in CfIds : i = status.id
    BY DEF DeleteCf, Remembered
  <2>2. cf \in [CfIds -> CfRecord] /\ cf[i] \in CfRecord
    BY <2>1 DEF TypeInv, TypeOK, AwsTypeOK
  <2>3. /\ cf[i].phase = "Deployed" /\ ~cf[i].enabled
        /\ cf' = [cf EXCEPT ![i].phase = "gone"]
    BY <1>2, <2>1 DEF DeleteCf
  <2>4. /\ cf'[i].phase = "gone" /\ cf'[i].enabled = cf[i].enabled
        /\ cf'[i].ref = cf[i].ref /\ cf'[i].config = cf[i].config
        /\ \A j \in CfIds \ {i} : cf'[j] = cf[j]
    BY <2>2, <2>3 DEF CfRecord
  <2>5. Site(i)' = [SiteAt[i] EXCEPT !.state = "gone"]
    BY <2>1, <2>4, SiteFacts, SameService, States
  <2>6. cf[i].ref \in Distros /\ (~Exists(cf[i].ref) \/ obj[cf[i].ref].deleting)
    <3>1. pc' # pc /\ pc' # "idle"
      BY DEF DeleteCf, Goto, Fail
    <3> QED
      BY <2>3, <2>4, <3>1, TurnOffStep DEF Live
  <2>7. Promised!Abandoned(i)
    BY <2>1, <2>6, SiteFacts DEF Promised!Abandoned, WantedBy, WishOf
  <2>8. Promised!Remove(i)
    BY <2>1, <2>3, <2>4, <2>5, <2>7, OneSite, SameMap, SiteFacts DEF Promised!Remove
  <2> QED
    BY <2>1, <2>8 DEF Promised!Next, Unmanaged
<1> QED
  BY <1>1, <1>2

\* CloudFront rolls a site out.
LEMMA RolloutStep ==
    ASSUME TypeInv, NEW i \in CfIds, Rollout(i)
    PROVE  Promised!Next
<1>1. cf \in [CfIds -> CfRecord] /\ cf[i] \in CfRecord /\ obj' = obj
  BY DEF TypeInv, TypeOK, AwsTypeOK, Rollout, othersVars, apiVars
<1>2. /\ cf[i].phase = "InProgress" /\ cf'[i].phase = "Deployed"
      /\ cf'[i].enabled = cf[i].enabled /\ cf'[i].ref = cf[i].ref
      /\ cf'[i].config = cf[i].config
      /\ \A j \in CfIds \ {i} : cf'[j] = cf[j]
  BY <1>1 DEF Rollout, Deploy, CfRecord
<1>3. Site(i)' = [SiteAt[i] EXCEPT !.state = "settled"]
  BY <1>2, SiteFacts, SameService, States
<1>4. Promised!RollOut(i)
  BY <1>1, <1>2, <1>3, OneSite, SameMap, SiteFacts DEF Promised!RollOut
<1> QED
  BY <1>4 DEF Promised!Next, Unmanaged

\* What an object asks for, and whether it says ready.
Asks(o)    == CASE o = NoObject                  -> "gone"
                [] o # NoObject /\ o.deleting    -> "doomed"
                [] OTHER                         -> o.spec.config
SaysOn(o) == o # NoObject /\ ~o.deleting /\ o.status.ready

\* A write to one object shows in what its owner wants and was told.
LEMMA WriteMap ==
    ASSUME TypeInv, NEW d \in Distros, NEW new, Write(d, new)
    PROVE  /\ WantedBy' = [WantedBy EXCEPT ![d] = Asks(new)]
           /\ SaysOn(new) => Ready' = Ready \cup {d}
           /\ ~SaysOn(new) => Ready' = Ready \ {d}
<1>1. obj'[d] = new /\ \A e \in Distros \ {d} : obj'[e] = obj[e]
  BY DEF Write, TypeInv, TypeOK
<1>2. /\ WishOf(d)' = Asks(new)
      /\ \A e \in Distros \ {d} : WishOf(e)' = WishOf(e)
  BY <1>1 DEF WishOf, Asks, Exists
<1>3. WantedBy' = [WantedBy EXCEPT ![d] = Asks(new)]
  BY <1>2 DEF WantedBy
<1>4. \A e \in Distros : e \in Ready' <=> IF e = d THEN SaysOn(new) ELSE e \in Ready
  BY <1>1 DEF Ready, SaysOn, Exists
<1>5. Ready \subseteq Distros /\ Ready' \subseteq Distros
  BY DEF Ready
<1> QED
  BY <1>3, <1>4, <1>5

\* What an owner wants and was told before the write.
LEMMA Before ==
    ASSUME NEW d \in Distros
    PROVE  /\ WantedBy = [e \in Distros |-> Asks(obj[e])] /\ WantedBy[d] = Asks(obj[d])
           /\ d \in Ready <=> SaysOn(obj[d])
BY DEF WantedBy, WishOf, Asks, Ready, SaysOn, Exists

\* A write that leaves alone what is asked for and said changes nothing.
LEMMA SameWrite ==
    ASSUME TypeInv, NEW d \in Distros, NEW new, Write(d, new), cf' = cf,
           Asks(new) = Asks(obj[d]), SaysOn(new) <=> SaysOn(obj[d])
    PROVE  Promised!Next
<1>1. WantedBy' = WantedBy
  BY WriteMap, Before
<1>2. Ready' = Ready
  BY WriteMap, Before
<1> QED
  BY <1>1, <1>2, LookStep, SameMap

\* The end of a reconciling pass announces, retracts or repeats what it says.
LEMMA ReportStep ==
    ASSUME IInv, Earned, Unmeddled, Report
    PROVE  Promised!Next
<1> USE DEF IInv
<1>1. /\ key \in Distros /\ cf' = cf /\ copy \in Object /\ cls \in ClassValues
      /\ status \in Status
  BY DEF Report, TypeInv, TypeOK, awsVars
<1>2. CASE obj' = obj
  BY <1>1, <1>2, LookStep, SameMap
<1>3. CASE obj' # obj
  <2> DEFINE new == [obj[key] EXCEPT !.status = status]
  <2>1. Write(key, new) /\ current
    BY <1>3 DEF Report, WriteStatus, apiVars
  <2>2. /\ obj[key] \in Object /\ obj[key] # NoObject
        /\ obj[key].spec = copy.spec /\ ~obj[key].deleting
    BY <1>1, <2>1 DEF Report, Fresh, Exists, TypeInv, TypeOK
  <2>3. /\ new \in Object /\ new # NoObject /\ new.spec = copy.spec /\ ~new.deleting
        /\ new.status = status
    BY <1>1, <2>2, SpecAssumption DEF Object
  <2> HIDE DEF new
  <2>4. Asks(new) = copy.spec.config /\ Asks(obj[key]) = copy.spec.config
    BY <2>2, <2>3 DEF Asks
  <2>5. WantedBy' = WantedBy
    BY <1>1, <2>1, <2>4, WriteMap, Before
  <2>6. CASE ~status.ready
    <3>1. Ready' = Ready \ {key}
      BY <1>1, <2>1, <2>3, <2>6, WriteMap DEF SaysOn
    <3>2. Promised!Retract(key)
      BY <1>1, <2>5, <3>1, SameMap DEF Promised!Retract
    <3> QED
      BY <1>1, <3>2 DEF Promised!Next, Unmanaged
  <2>7. CASE status.ready
    <3>1. Ready' = Ready \cup {key}
      BY <1>1, <2>1, <2>3, <2>7, WriteMap DEF SaysOn
    <3>2. WantedBy[key] = copy.spec.config /\ copy.spec.config \in Configs
      BY <1>1, <2>4, Before, SpecAssumption DEF Object, DistributionSpec
    <3>3. Promised!Fulfilled(key) \/ Unmanaged
      <4>1. CASE ~Wants(cls)
        BY <4>1 DEF Unmanaged, Report
      <4>2. CASE Wants(cls)
        <5>1. Complete /\ pc = "report"
          BY <2>7, <4>2 DEF Report, Earned, Claims
        <5>2. PICK i \in CfIds : i = status.id
          BY <5>1 DEF Complete
        <5>3. cf[i].ref = key
          BY <1>1, <5>1, <5>2 DEF Recorded, NamesCf
        <5>4. /\ Desired(copy.spec, cls) # NoConfig
              /\ View(cf[i]) = [state |-> StateOf(cf[i].phase), on |-> cf[i].enabled,
                                owner |-> cf[i].ref, serves |-> copy.spec.config]
          <6>1. Desired(copy.spec, cls) # NoConfig
            BY <3>2, <4>2, WishAssumption DEF Desired, Wants
          <6> QED
            BY <5>1, <5>2, <6>1, ConfiguredView DEF Complete
        <5>5. SiteAt[i].serves = copy.spec.config
          BY <5>4, SiteFacts, SiteView
        <5> QED
          BY <3>2, <5>1, <5>2, <5>3, <5>5, SiteFacts DEF Promised!Fulfilled, Complete
      <4> QED
        BY <4>1, <4>2
    <3>4. Promised!Announce(key)
      BY <1>1, <2>5, <3>1, <3>2, <3>3, SameMap DEF Promised!Announce
    <3> QED
      BY <1>1, <3>4 DEF Promised!Next, Unmanaged
  <2> QED
    BY <2>6, <2>7
<1> QED
  BY <1>2, <1>3

\* Adding the finalizer and reporting on a deletion change nothing an owner sees.
LEMMA UnseenStep ==
    ASSUME IInv, AddFinalizer \/ ReportDeletion
    PROVE  Promised!Next
<1> USE DEF IInv
<1>1. key \in Distros /\ cf' = cf /\ copy \in Object /\ status \in Status
  BY DEF AddFinalizer, ReportDeletion, TypeInv, TypeOK, awsVars
<1>2. CASE obj' = obj
  BY <1>1, <1>2, LookStep, SameMap
<1>3. ASSUME obj' # obj
      PROVE  obj[key] \in Object /\ obj[key] # NoObject /\ current /\ obj[key].spec = copy.spec
             /\ obj[key].status = copy.status /\ obj[key].deleting = copy.deleting
  BY <1>1, <1>3 DEF AddFinalizer, ReportDeletion, WriteStatus, apiVars, Fresh, Exists, TypeInv,
                    TypeOK
<1>4. CASE obj' # obj /\ AddFinalizer
  <2>1. PICK new : new = [copy EXCEPT !.finalizer = TRUE] /\ Write(key, new)
    BY <1>4 DEF AddFinalizer, apiVars
  <2>2. /\ new \in Object /\ new # NoObject /\ new.spec = copy.spec
        /\ new.status = copy.status /\ new.deleting = copy.deleting
    BY <1>1, <2>1, SpecAssumption DEF Object
  <2>3. Asks(new) = Asks(obj[key]) /\ (SaysOn(new) <=> SaysOn(obj[key]))
    BY <1>3, <1>4, <2>2 DEF Asks, SaysOn
  <2> QED
    BY <1>1, <2>1, <2>3, SameWrite
<1>5. CASE obj' # obj /\ ReportDeletion
  <2>1. PICK new : new = [obj[key] EXCEPT !.status = status] /\ Write(key, new)
    BY <1>5 DEF ReportDeletion, WriteStatus, apiVars
  <2>2. obj[key].deleting
    BY <1>3, <1>5 DEF ReportDeletion
  <2>3. new \in Object /\ new # NoObject /\ new.deleting
    BY <1>1, <1>3, <1>5, <2>1, <2>2, SpecAssumption DEF Object
  <2>4. Asks(new) = Asks(obj[key]) /\ (SaysOn(new) <=> SaysOn(obj[key]))
    BY <1>3, <1>5, <2>2, <2>3 DEF Asks, SaysOn
  <2> QED
    BY <1>1, <2>1, <2>4, SameWrite
<1> QED
  BY <1>2, <1>4, <1>5

\* Removing the finalizer lets a doomed owner go.
LEMMA UnfinalizeStep ==
    ASSUME IInv, Unfinalize
    PROVE  Promised!Next
<1> USE DEF IInv
<1>1. key \in Distros /\ cf' = cf
  BY DEF Unfinalize, TypeInv, TypeOK, awsVars
<1>2. CASE obj' = obj
  BY <1>1, <1>2, LookStep, SameMap
<1>3. CASE obj' # obj
  <2>1. Write(key, NoObject) /\ obj[key] # NoObject /\ obj[key].deleting
    BY <1>1, <1>3 DEF Unfinalize, apiVars, Fresh, Remembered, Exists
  <2>2. WantedBy[key] = "doomed" /\ key \notin Ready
    BY <1>1, <2>1, Before DEF Asks, SaysOn
  <2>3. /\ WantedBy' = [WantedBy EXCEPT ![key] = "gone"]
        /\ Ready' = Ready \ {key}
    BY <1>1, <2>1, WriteMap DEF Asks, SaysOn
  <2>4. Promised!Vanish(key)
    BY <1>1, <2>2, <2>3, SameMap DEF Promised!Vanish
  <2> QED
    BY <1>1, <2>4 DEF Promised!Next, Unmanaged
<1> QED
  BY <1>2, <1>3

\* Users wish and renounce.
LEMMA UserStep ==
    ASSUME TypeInv, NEW d \in Distros, EditSpec(d) \/ DeleteObject(d)
    PROVE  Promised!Next
<1>1. cf' = cf /\ obj[d] \in Object /\ obj[d] # NoObject
  BY DEF EditSpec, DeleteObject, UserWrites, awsVars, TypeInv, TypeOK, Exists
<1>2. obj[d].spec.config \in Configs /\ (~obj[d].deleting => WantedBy[d] \in Configs)
  BY <1>1, Before, SpecAssumption DEF Asks, Object, DistributionSpec
<1>3. CASE EditSpec(d)
  <2>0. PICK s \in Specs : Write(d, [obj[d] EXCEPT !.spec = s])
    BY <1>3 DEF EditSpec, UserWrites
  <2>1. PICK new : new = [obj[d] EXCEPT !.spec = s] /\ Write(d, new)
    BY <2>0
  <2>2. /\ new \in Object /\ new # NoObject /\ new.status = obj[d].status
        /\ new.deleting = obj[d].deleting /\ new.spec = s
    BY <1>1, <2>1, SpecAssumption DEF Object
  <2>3. SaysOn(new) <=> SaysOn(obj[d])
    BY <1>1, <2>2 DEF SaysOn
  <2>4. CASE obj[d].deleting
    <3>1. Asks(new) = Asks(obj[d])
      BY <1>1, <2>2, <2>4 DEF Asks
    <3> QED
      BY <1>1, <2>1, <2>3, <3>1, SameWrite
  <2>5. CASE ~obj[d].deleting
    <3>1. Asks(new) \in Configs
      BY <2>2, <2>5, SpecAssumption DEF Asks, Object, DistributionSpec
    <3>2. WantedBy' = [WantedBy EXCEPT ![d] = Asks(new)] /\ Ready' = Ready
      BY <2>1, <2>3, WriteMap, Before
    <3>3. Promised!Wish(d)
      BY <1>1, <1>2, <2>5, <3>1, <3>2, SameMap DEF Promised!Wish
    <3> QED
      BY <3>3 DEF Promised!Next, Unmanaged
  <2> QED
    BY <2>4, <2>5
<1>4. CASE DeleteObject(d)
  <2>1. PICK new : /\ Write(d, new) /\ ~obj[d].deleting
                   /\ new = NoObject \/ new = [obj[d] EXCEPT !.deleting = TRUE]
    BY <1>4 DEF DeleteObject, UserWrites
  <2>2. Asks(new) \in {"doomed", "gone"} /\ ~SaysOn(new)
    BY <1>1, <2>1, SpecAssumption DEF Asks, SaysOn, Object
  <2>3. WantedBy' = [WantedBy EXCEPT ![d] = Asks(new)] /\ Ready' = Ready \ {d}
    BY <2>1, <2>2, WriteMap
  <2>4. Promised!Renounce(d)
    BY <1>1, <1>2, <2>1, <2>2, <2>3, SameMap DEF Promised!Renounce
  <2> QED
    BY <2>4 DEF Promised!Next, Unmanaged
<1> QED
  BY <1>3, <1>4

\* Every step of the system is one of ManagedDistribution.
LEMMA PromisedStep ==
    ASSUME IInv, Earned, Unmeddled, Next
    PROVE  Promised!Next
<1> USE DEF IInv
<1>1. ASSUME obj' = obj, cf' = cf PROVE Promised!Next
  BY <1>1, LookStep, SameMap
<1>2. CASE ProviderStep /\ UNCHANGED <<apiVars, inputVars, queue, current, held>>
  BY <1>1, <1>2, CreateStep, PutStep, DeleteCfStep
  DEF ProviderStep, Describe, Import, DeleteCert, Load, apiVars, awsVars
<1>3. CASE Work
  BY <1>1, <1>2, <1>3, ReportStep, UnseenStep, UnfinalizeStep
  DEF Work, Stretch, Resolve, Panic, Restarted, apiVars, awsVars
<1>4. ASSUME Meddle PROVE Promised!Next
  <2>1. FALSE
    BY <1>4 DEF Meddle, Drift, Destroy, DestroyCert, Perturb, Unmeddled
  <2> QED
    BY <2>1
<1>5. CASE Environment
  BY <1>1, <1>4, <1>5, UserStep, RolloutStep
  DEF Environment, Sync, Resync, ClassChange, SecretChange, Crash, Restarted, apiVars, awsVars
<1>6. CASE \E d \in Distros : Begin(d) \/ Skip(d)
  BY <1>1, <1>6 DEF Begin, Skip, apiVars, awsVars
<1> QED
  BY <1>3, <1>5, <1>6 DEF Next

\* The controller keeps what ManagedDistribution promises, whatever is stale, fails, is
\* repeated or crashes, unless somebody else changes what is at AWS.
THEOREM Implementation ==
    ASSUME Unmeddled
    PROVE  Spec => Promise
<1>1. Init => Promised!Init
  <2> SUFFICES ASSUME Init PROVE Promised!Init
    OBVIOUS
  <2>1. \A d \in Distros : WishOf(d) \in Configs /\ ~(Exists(d) /\ obj[d].status.ready)
    <3> SUFFICES ASSUME NEW d \in Distros
                 PROVE  WishOf(d) \in Configs /\ ~(Exists(d) /\ obj[d].status.ready)
      OBVIOUS
    <3>1. PICK s \in Specs : obj[d] = [spec |-> s, deleting |-> FALSE, finalizer |-> FALSE,
                                      status |-> EmptyStatus]
      BY DEF Init
    <3>2. EmptyStatus \in Status /\ EmptyStatus.ready = FALSE
      BY DEF EmptyStatus, Status
    <3>3. obj[d] \in Object
      BY <3>1, <3>2 DEF Object
    <3>4. Exists(d)
      BY <3>3, SpecAssumption DEF Exists
    <3>5. obj[d].spec = s /\ obj[d].deleting = FALSE /\ obj[d].status = EmptyStatus
      BY <3>1
    <3>6. s.config \in Configs
      BY SpecAssumption DEF DistributionSpec
    <3> QED
      BY <3>2, <3>4, <3>5, <3>6 DEF WishOf
  <2>2. \A i \in CfIds : Site(i) = Promised!Unused
    BY DEF Init, AwsInit, Site, View, StateOf, UnusedCf, Promised!Unused
  <2> QED
    BY <2>1, <2>2 DEF Promised!Init, WantedBy, SiteAt, Ready, Unmanaged, Init
<1>2. ASSUME IInv, Earned, [Next]_vars PROVE [Promised!Next]_(Promised!vars)
  <2>1. CASE Next
    BY <1>2, <2>1, PromisedStep
  <2>2. CASE UNCHANGED vars
    BY <2>2, SameMap DEF Promised!vars, vars, awsVars, apiVars, workerVars, passVars, Unmanaged,
                         Wants
  <2> QED
    BY <1>2, <2>1, <2>2
<1> QED
  BY <1>1, <1>2, Foundations, PTL DEF Spec, Promise, Promised!Spec
=============================================================================
