----------------------- MODULE DistributionSafetyProofs -----------------------
(***************************************************************************)
(* What a Distribution's status records: nobody else's, nothing forgotten  *)
(* while it lives, nothing of it left when the finalizer goes.  The proofs *)
(* rest on the invariant of DistributionControllerProofs and on three more *)
(* facts about records: Recorded, Remembered and Doomed.                   *)
(***************************************************************************)
EXTENDS DistributionControllerProofs

\* Wherever the status of d is kept, in the API server, in the cache or in the pass
\* at work, it may name the distribution i, the certificate a.
NamesCf(d, i) == \/ Exists(d) /\ obj[d].status.id = i
                 \/ cache[d] # NoObject /\ cache[d].status.id = i
                 \/ pc # "idle" /\ key = d /\ i \in {copy.status.id, status.id}

NamesCert(d, a) == \/ Exists(d) /\ obj[d].status.arn = a
                   \/ cache[d] # NoObject /\ cache[d].status.arn = a
                   \/ pc # "idle" /\ key = d /\ a \in {copy.status.arn, status.arn}

\* What is named was made for d.
Recorded ==
    \A d \in Distros :
        /\ \A i \in CfIds : NamesCf(d, i) => cf[i].phase # "unused" /\ cf[i].ref = d
        /\ \A a \in Arns : NamesCert(d, a) => /\ acm[a] # "unused"
                                              /\ \A e \in Distros \ {d} : ~NamesCert(e, a)

GoneCf(i)   == i # 0 => cf[i].phase = "gone"
GoneCert(a) == a # 0 => acm[a] = "gone"

\* A pass lets go of what its copy names only once it is gone, and knows what it
\* is about to turn off.
Remembered ==
    /\ pc \notin {"idle", "noCert"} =>
         /\ status.id = copy.status.id \/ GoneCf(copy.status.id)
         /\ status.arn = copy.status.arn \/ GoneCert(copy.status.arn)
    /\ pc = "create" => GoneCf(copy.status.id)
    /\ pc \in {"disable", "deleteCf"} =>
         copy.deleting /\ status.id = copy.status.id /\ status.id \in CfIds
    /\ pc \in {"deleteCert", "unfinalize"} => copy.deleting
    /\ pc = "unfinalize" => AllDeleted

\* Nobody takes a deletion back: what any copy says of it remains true.
Doomed ==
    \A d \in Distros : Exists(d) =>
        /\ cache[d] # NoObject /\ cache[d].deleting => obj[d].deleting
        /\ pc # "idle" /\ key = d /\ copy.deleting => obj[d].deleting

IInv == TypeInv /\ Fresh /\ Recorded /\ Remembered /\ Doomed

-----------------------------------------------------------------------------
(* AWS never takes back an id, an ARN, an owner or an end.                  *)

\* A used id keeps its owner, and what is gone stays gone.
LEMMA CfStep ==
    ASSUME TypeInv, Next, NEW i \in CfIds, cf[i].phase # "unused"
    PROVE  /\ cf'[i].phase # "unused" /\ cf'[i].ref = cf[i].ref
           /\ cf[i].phase = "gone" => cf'[i].phase = "gone"
<1> USE DEF TypeInv
<1>1. cf \in [CfIds -> CfRecord]
  BY DEF TypeOK, AwsTypeOK
<1>2. CASE cf' = cf
  BY <1>2
<1>3. CASE Create
  <2>1. PICK j \in CfIds : \/ FreshCf(j) /\ \E r : cf' = [cf EXCEPT ![j] = r]
                           \/ cf' = cf
    BY <1>3 DEF Create
  <2>2. CASE cf' # cf
    BY <1>1, <2>1, <2>2 DEF FreshCf
  <2> QED
    BY <2>2, <1>2
<1>4. ASSUME NEW j \in CfIds, NEW r, Live(j), cf' = [cf EXCEPT ![j] = r],
             r.phase # "unused", r.ref = cf[j].ref
      PROVE  /\ cf'[i].phase # "unused" /\ cf'[i].ref = cf[i].ref
             /\ cf[i].phase = "gone" => cf'[i].phase = "gone"
  BY <1>1, <1>4 DEF Live
<1>5. ASSUME NEW c, NEW on, NEW a, Put(c, on, a), cf' # cf
      PROVE  /\ cf'[i].phase # "unused" /\ cf'[i].ref = cf[i].ref
             /\ cf[i].phase = "gone" => cf'[i].phase = "gone"
  <2> DEFINE r == [cf[status.id] EXCEPT !.phase = "InProgress", !.enabled = on,
                                        !.config = c, !.arn = a]
  <2>1. Live(status.id) /\ cf' = [cf EXCEPT ![status.id] = r]
    BY <1>5 DEF Put
  <2>2. r.phase # "unused" /\ r.ref = cf[status.id].ref
    BY <1>1, <2>1 DEF Live, CfRecord
  <2> QED
    BY <1>4, <2>1, <2>2 DEF Live
<1>6. ASSUME NEW j \in CfIds, NEW p \in Phases \ {"unused"}, Live(j),
             cf' = [cf EXCEPT ![j].phase = p]
      PROVE  /\ cf'[i].phase # "unused" /\ cf'[i].ref = cf[i].ref
             /\ cf[i].phase = "gone" => cf'[i].phase = "gone"
  BY <1>1, <1>6 DEF Live, CfRecord
<1>7. CASE DeleteCf
  <2>1. CASE i = status.id /\ cf' # cf
    BY <1>6, <1>7, <2>1 DEF DeleteCf, Live, Phases
  <2>2. CASE i # status.id \/ cf' = cf
    BY <1>1, <1>7, <2>2 DEF DeleteCf
  <2> QED
    BY <2>1, <2>2
<1>8. ASSUME NEW j \in CfIds, Deploy(j) \/ Drift(j) \/ Destroy(j)
      PROVE  /\ cf'[i].phase # "unused" /\ cf'[i].ref = cf[i].ref
             /\ cf[i].phase = "gone" => cf'[i].phase = "gone"
  <2>1. CASE Deploy(j) \/ Destroy(j)
    BY <1>6, <1>8, <2>1 DEF Deploy, Destroy, Live, Phases
  <2>2. CASE Drift(j)
    <3>1. PICK on \in BOOLEAN :
            cf' = [cf EXCEPT ![j] = [@ EXCEPT !.phase = "InProgress", !.enabled = on,
                                              !.config = NoConfig]]
      BY <2>2 DEF Drift
    <3> DEFINE r == [cf[j] EXCEPT !.phase = "InProgress", !.enabled = on,
                                  !.config = NoConfig]
    <3>2. Live(j) /\ cf' = [cf EXCEPT ![j] = r]
      BY <2>2, <3>1 DEF Drift
    <3>3. r.phase # "unused" /\ r.ref = cf[j].ref
      BY <1>1 DEF CfRecord
    <3> QED
      BY <1>4, <3>2, <3>3
  <2> QED
    BY <1>8, <2>1, <2>2
<1>9. CASE Work
  BY <1>2, <1>3, <1>5, <1>7, <1>9
  DEF Work, Stretch, AddFinalizer, Resolve, Report, ReportDeletion, Unfinalize, Panic, Restarted,
      ProviderStep, Describe, Import, DeleteCert, Load, Update, Disable, awsVars
<1>10. CASE Environment
  BY <1>2, <1>8, <1>10
  DEF Environment, EditSpec, DeleteObject, UserWrites, Sync, Resync, ClassChange,
      SecretChange, Rollout, Meddle, DestroyCert, Crash, Restarted, awsVars
<1> QED
  BY <1>2, <1>9, <1>10 DEF Next, Begin, Skip, awsVars

\* The same of certificates.
LEMMA AcmStep ==
    ASSUME TypeInv, Next, NEW a \in Arns, acm[a] # "unused"
    PROVE  acm'[a] # "unused" /\ (acm[a] = "gone" => acm'[a] = "gone")
<1> USE SerialAssumption DEF TypeInv
<1>1. acm \in [Arns -> Serials \cup {"unused", "gone"}]
  BY DEF TypeOK, AwsTypeOK
<1>2. CASE acm' = acm
  BY <1>2
<1>3. CASE Import
  BY <1>1, <1>3 DEF Import, ImportTarget, FreshArn, Imported
<1>4. CASE DeleteCert
  BY <1>1, <1>4 DEF DeleteCert
<1>5. CASE \E b \in Arns : DestroyCert(b)
  BY <1>1, <1>5 DEF DestroyCert
<1>6. CASE Work
  BY <1>2, <1>3, <1>4, <1>6
  DEF Work, Stretch, AddFinalizer, Resolve, Report, ReportDeletion, Unfinalize, Panic, Restarted,
      ProviderStep, Describe, Load, Create, Update, Disable, Put, DeleteCf, awsVars
<1>7. CASE Environment
  BY <1>2, <1>5, <1>7
  DEF Environment, EditSpec, DeleteObject, UserWrites, Sync, Resync, ClassChange,
      SecretChange, Rollout, Deploy, Meddle, Drift, Destroy, Crash, Restarted, awsVars
<1> QED
  BY <1>2, <1>6, <1>7 DEF Next, Begin, Skip, awsVars

-----------------------------------------------------------------------------
(* How names travel: a step copies them, or learns a new one from AWS.       *)

\* No step names for d a distribution that was not named for it before, or that AWS
\* does not have for it by then; nor a certificate, unless it has just been imported.
NamesKept(d) ==
    /\ \A i \in CfIds : NamesCf(d, i)' =>
         NamesCf(d, i) \/ (cf'[i].phase # "unused" /\ cf'[i].ref = d)
    /\ \A a \in Arns : NamesCert(d, a)' =>
         NamesCert(d, a) \/ (key = d /\ pc # "idle" /\ acm[a] = "unused" /\ acm'[a] # "unused")

\* A provider step learns of a distribution only from AWS, which knows its owner.
LEMMA ProviderNames ==
    ASSUME TypeInv, ProviderStep, UNCHANGED othersVars, NEW d \in Distros
    PROVE  NamesKept(d)
<1> USE SerialAssumption DEF TypeInv, othersVars, apiVars, given
<1>1. /\ pc # "idle" /\ UNCHANGED <<obj, cache, key, copy>>
      /\ status \in Status /\ copy.status \in Status
  BY DEF ProviderStep, Describe, Import, DeleteCert, Load, Create, Update, Disable,
         DeleteCf, Put, TypeOK, Object
<1>2. cf \in [CfIds -> CfRecord] /\ acm \in [Arns -> Serials \cup {"unused", "gone"}]
  BY DEF TypeOK, AwsTypeOK
<1>3. ASSUME \/ status'.id \in {0, status.id, copy.status.id}
             \/ status'.id \in CfIds /\ cf'[status'.id].phase # "unused"
                                     /\ cf'[status'.id].ref = key,
             \/ status'.arn \in {0, status.arn}
             \/ status'.arn \in Arns /\ acm[status'.arn] = "unused"
                                     /\ acm'[status'.arn] # "unused"
      PROVE  NamesKept(d)
  <2>1. ASSUME NEW i \in CfIds, NamesCf(d, i)'
        PROVE  NamesCf(d, i) \/ (cf'[i].phase # "unused" /\ cf'[i].ref = d)
    <3>1. i # 0
      BY DEF CfIds
    <3> QED
      BY <1>1, <1>3, <2>1, <3>1 DEF NamesCf, Exists
  <2>2. ASSUME NEW a \in Arns, NamesCert(d, a)'
        PROVE  NamesCert(d, a) \/ (key = d /\ pc # "idle" /\ acm[a] = "unused" /\ acm'[a] # "unused")
    <3>1. a # 0
      BY DEF Arns
    <3> QED
      BY <1>1, <1>3, <2>2, <3>1 DEF NamesCert, Exists
  <2> QED
    BY <2>1, <2>2 DEF NamesKept
<1>4. CASE Describe \/ Load \/ DeleteCert \/ DeleteCf
  BY <1>1, <1>3, <1>4 DEF Describe, Load, DeleteCert, DeleteCf, Goto, Fail, LoadFailed,
                          Observed, Status
<1>5. CASE Import
  <2>1. status'.id = status.id
    BY <1>1, <1>5 DEF Import, Goto, Fail, Status
  <2>2. CASE status'.arn = status.arn
    BY <1>3, <2>1, <2>2
  <2>3. CASE status'.arn # status.arn
    <3>1. PICK a \in Arns : /\ cert.value \in Serials /\ ImportTarget(a)
                            /\ acm' = [acm EXCEPT ![a] = cert.value]
                            /\ status' = [status EXCEPT !.arn = a]
      BY <1>1, <1>5, <2>3 DEF Import, Goto, Fail, Status
    <3>2. status'.arn = a
      BY <1>1, <3>1 DEF Status
    <3>3. acm[a] = "unused" /\ acm'[a] # "unused"
      BY <1>2, <2>3, <3>1, <3>2 DEF ImportTarget, FreshArn
    <3> QED
      BY <1>3, <2>1, <3>2, <3>3
  <2> QED
    BY <2>2, <2>3
<1>6. CASE Create
  <2>1. status'.arn = status.arn
    BY <1>1, <1>6 DEF Create, Goto, Fail, Observed, Status
  <2>2. CASE status'.id = status.id
    BY <1>3, <2>1, <2>2
  <2>3. CASE status'.id # status.id
    <3>1. PICK i \in CfIds :
            /\ status'.id = i
            /\ \/ cf' = [cf EXCEPT ![i] =
                        [phase |-> "InProgress", ref |-> key, enabled |-> TRUE,
                         config |-> Desired(copy.spec, cls), arn |-> status.arn]]
               \/ i \in Owned(key) /\ cf' = cf
      BY <1>1, <1>6, <2>3 DEF Create, Clashes, Owned, Goto, Fail, Observed, Status
    <3>2. cf'[i].phase # "unused" /\ cf'[i].ref = key
      BY <1>2, <3>1 DEF Owned, Live
    <3> QED
      BY <1>3, <2>1, <3>1, <3>2
  <2> QED
    BY <2>2, <2>3
<1>7. CASE Update \/ Disable
  <2>1. status'.id = status.id /\ status'.arn = status.arn
    BY <1>1, <1>7 DEF Update, Disable, Put, Goto, Fail, Observed, Status
  <2> QED
    BY <1>3, <2>1
<1> QED
  BY <1>4, <1>5, <1>6, <1>7 DEF ProviderStep

\* What is written to the API server was already named for the same object.
LEMMA WriteNames ==
    ASSUME TypeOK, NEW k \in Distros, NEW new, Write(k, new), NEW d \in Distros,
           pc' = "idle" \/ UNCHANGED <<pc, key, copy, status>>,
           new # NoObject => \/ new.status = obj[k].status /\ Exists(k)
                             \/ new.status \in {copy.status, status} /\ pc # "idle" /\ key = k
    PROVE  NamesKept(d)
BY DEF TypeOK, Write, NamesKept, NamesCf, NamesCert, Exists

\* A step that leaves the API server alone copies at most from it to the cache.
LEMMA QuietNames ==
    ASSUME TypeOK, NEW d \in Distros, obj' = obj,
           cache'[d] \in {cache[d], obj[d]},
           pc' = "idle" \/ (UNCHANGED <<key, copy, status>> /\ pc # "idle")
    PROVE  NamesKept(d)
BY DEF TypeOK, NamesKept, NamesCf, NamesCert, Exists

\* No step of the system makes names up.
LEMMA NamesStep ==
    ASSUME TypeInv, Fresh, Next, NEW d \in Distros
    PROVE  NamesKept(d)
<1> USE DEF TypeInv
<1>1. ASSUME NEW e \in Distros, Begin(e) PROVE NamesKept(d)
  <2>1. /\ UNCHANGED <<obj, cache>> /\ key' = e /\ copy' = cache[e]
        /\ cache[e] # NoObject /\ cache[e].status \in Status
        /\ status' = [cache[e].status EXCEPT !.ready = FALSE]
    BY <1>1 DEF Begin, Ignored, apiVars, TypeOK, Object
  <2>2. status'.id = cache[e].status.id /\ status'.arn = cache[e].status.arn
    BY <2>1 DEF Status
  <2> QED
    BY <2>1, <2>2 DEF NamesKept, NamesCf, NamesCert, Exists
<1>2. CASE AddFinalizer
  <2>1. /\ copy \in Object /\ pc # "idle" /\ pc' # "idle" /\ key \in Distros
        /\ copy' = [copy EXCEPT !.finalizer = TRUE]
        /\ UNCHANGED <<key, status>>
    BY <1>2 DEF AddFinalizer, TypeOK
  <2>2. copy'.status = copy.status
    BY <2>1 DEF Object
  <2>3. Write(key, copy') \/ UNCHANGED apiVars
    BY <1>2 DEF AddFinalizer
  <2>4. CASE UNCHANGED apiVars
    BY <2>1, <2>2, <2>4 DEF NamesKept, NamesCf, NamesCert, Exists, apiVars
  <2>5. CASE Write(key, copy')
    BY <2>1, <2>2, <2>5 DEF NamesKept, NamesCf, NamesCert, Exists, Write, TypeOK
  <2> QED
    BY <2>3, <2>4, <2>5
<1>3. CASE Resolve
  <2>1. /\ UNCHANGED <<obj, cache, key, copy>> /\ pc # "idle" /\ copy.status \in Status
        /\ status' = EmptyStatus \/ status' = [copy.status EXCEPT !.ready = TRUE]
    BY <1>3 DEF Resolve, apiVars, TypeOK, Object
  <2>2. status'.id \in {0, copy.status.id} /\ status'.arn \in {0, copy.status.arn}
    <3>1. CASE status' = EmptyStatus
      BY <3>1 DEF EmptyStatus
    <3>2. CASE status' = [copy.status EXCEPT !.ready = TRUE]
      BY <2>1, <3>2 DEF Status
    <3> QED
      BY <2>1, <3>1, <3>2
  <2>3. 0 \notin CfIds /\ 0 \notin Arns
    BY DEF CfIds, Arns
  <2> QED
    BY <2>1, <2>2, <2>3 DEF NamesKept, NamesCf, NamesCert, Exists
<1>4. CASE Report \/ ReportDeletion \/ Unfinalize
  <2>1. /\ pc # "idle" /\ key \in Distros
        /\ pc' = "idle" \/ UNCHANGED <<key, copy, status>>
    BY <1>4 DEF Report, ReportDeletion, Unfinalize, Finish, IdleAgain, TypeOK
  <2>2. \/ UNCHANGED apiVars
        \/ Write(key, NoObject)
        \/ current /\ Write(key, [obj[key] EXCEPT !.status = status])
    BY <1>4 DEF Report, ReportDeletion, Unfinalize, WriteStatus
  <2>3. CASE UNCHANGED apiVars
    BY <2>1, <2>3, QuietNames DEF apiVars
  <2>4. CASE Write(key, NoObject)
    BY <2>1, <2>4 DEF NamesKept, NamesCf, NamesCert, Exists, Write, TypeOK
  <2>5. CASE current /\ Write(key, [obj[key] EXCEPT !.status = status])
    <3>1. obj[key] \in Object
      BY <2>1, <2>5 DEF Fresh, Exists, TypeOK
    <3>2. [obj[key] EXCEPT !.status = status].status = status
      BY <3>1 DEF Object
    <3> QED
      BY <2>1, <2>5, <3>2 DEF NamesKept, NamesCf, NamesCert, Exists, Write, TypeOK
  <2> QED
    BY <2>2, <2>3, <2>4, <2>5
<1>5. CASE Panic \/ Crash
  BY <1>5, QuietNames DEF Panic, Crash, Restarted, IdleAgain
<1>6. ASSUME NEW e \in Distros, EditSpec(e) \/ DeleteObject(e) PROVE NamesKept(d)
  <2>1. obj[e] \in Object
    BY <1>6 DEF EditSpec, DeleteObject, Exists, TypeOK
  <2>2. PICK new : UserWrites(e, new) /\ (new # NoObject => new.status = obj[e].status)
    <3>1. \A t : [obj[e] EXCEPT !.spec = t].status = obj[e].status
      BY <2>1 DEF Object
    <3>2. [obj[e] EXCEPT !.deleting = TRUE].status = obj[e].status
      BY <2>1 DEF Object
    <3>3. CASE EditSpec(e)
      BY <3>1, <3>3 DEF EditSpec
    <3>4. CASE DeleteObject(e)
      BY <3>2, <3>4 DEF DeleteObject
    <3> QED
      BY <1>6, <3>3, <3>4
  <2> QED
    <3>1. Write(e, new) /\ UNCHANGED <<pc, key, copy, status>>
      BY <2>2 DEF UserWrites, passVars
    <3>2. Exists(e)
      BY <1>6 DEF EditSpec, DeleteObject
    <3>3. new # NoObject => new.status = obj[e].status /\ Exists(e)
      BY <2>2, <3>2
    <3> HIDE DEF TypeInv
    <3>4. TypeOK
      BY DEF TypeInv
    <3> QED
      BY <3>1, <3>3, <3>4, WriteNames
<1>7. CASE UNCHANGED <<obj, pc, key, copy, status>> /\ cache'[d] \in {cache[d], obj[d]}
  BY <1>7 DEF NamesKept, NamesCf, NamesCert, Exists
<1>8. CASE \/ \E e \in Distros : Skip(e) \/ Sync(e) \/ Resync(e)
           \/ \E k \in ClassNames : ClassChange(k)
           \/ \E n \in Secrets : SecretChange(n)
           \/ \E i \in CfIds : Rollout(i)
           \/ Meddle
  BY <1>7, <1>8 DEF Skip, Sync, Resync, ClassChange, SecretChange, Rollout, Meddle, passVars,
                    othersVars, apiVars, TypeOK
<1> QED
  BY <1>1, <1>2, <1>3, <1>4, <1>5, <1>6, <1>8, ProviderNames
  DEF Next, Work, Stretch, Environment, othersVars

-----------------------------------------------------------------------------
(* The three facts are kept.                                                *)

\* A name stays its owner's: AWS takes no owner back and imports under a new ARN.
LEMMA RecordedStep ==
    ASSUME TypeInv, Fresh, Recorded, Next
    PROVE  Recorded'
<1>1. ASSUME NEW d \in Distros, NEW i \in CfIds, NamesCf(d, i)'
      PROVE  cf'[i].phase # "unused" /\ cf'[i].ref = d
  BY <1>1, NamesStep, CfStep DEF Recorded, NamesKept
<1>2. ASSUME NEW d \in Distros, NEW a \in Arns, NamesCert(d, a)'
      PROVE  acm'[a] # "unused" /\ \A e \in Distros \ {d} : ~NamesCert(e, a)'
  <2>1. \A e \in Distros : NamesCert(e, a)' =>
          \/ NamesCert(e, a)
          \/ key = e /\ acm[a] = "unused" /\ acm'[a] # "unused"
    BY NamesStep DEF NamesKept
  <2>2. acm'[a] # "unused"
    BY <1>2, <2>1, AcmStep DEF Recorded
  <2>3. \A e \in Distros \ {d} : ~NamesCert(e, a)'
    BY <1>2, <2>1 DEF Recorded
  <2> QED
    BY <2>2, <2>3
<1> QED
  BY <1>1, <1>2 DEF Recorded

\* What a pass has seen go does not come back during the pass.
LEMMA GoneStep ==
    ASSUME TypeInv, Next, NEW i \in CfIds \cup {0}, NEW a \in Arns \cup {0}
    PROVE  /\ GoneCf(i) => (i # 0 => cf'[i].phase = "gone")
           /\ GoneCert(a) => (a # 0 => acm'[a] = "gone")
BY CfStep, AcmStep DEF GoneCf, GoneCert

\* While nobody but others act, a pass remembers what it did.
LEMMA RememberedRest ==
    ASSUME TypeInv, Remembered, Next, UNCHANGED <<pc, copy, cls, status>>
    PROVE  Remembered'
<1>1. CASE pc = "idle"
  BY <1>1 DEF Remembered
<1>2. CASE pc # "idle"
  <2>1. copy.status.id \in CfIds \cup {0} /\ copy.status.arn \in Arns \cup {0}
    BY <1>2 DEF TypeInv, TypeOK, Object, Status
  <2>2. /\ GoneCf(copy.status.id) => GoneCf(copy.status.id)'
        /\ GoneCert(copy.status.arn) => GoneCert(copy.status.arn)'
    BY <2>1, GoneStep DEF GoneCf, GoneCert
  <2> QED
    BY <2>2 DEF Remembered, AllDeleted, Wants
<1> QED
  BY <1>1, <1>2

\* The steps of the provider forget an id only after load() or DeleteDistribution
\* found or made it gone, an ARN only after ACM said so.
LEMMA RememberedProvider ==
    ASSUME TypeInv, Fresh, Recorded, Remembered, ProviderStep, UNCHANGED othersVars
    PROVE  Remembered'
<1> USE DEF TypeInv
<1>1. /\ pc \in ProviderLabels /\ UNCHANGED <<key, copy, cls>>
      /\ key \in Distros /\ status \in Status /\ copy.status \in Status
  BY DEF ProviderStep, Describe, Import, DeleteCert, Load, Create, Update, Disable,
         DeleteCf, Put, given, ProviderLabels, TypeOK, Object
<1>2. /\ cf \in [CfIds -> CfRecord] /\ acm \in [Arns -> Serials \cup {"unused", "gone"}]
      /\ copy.status.id \in CfIds \cup {0} /\ copy.status.arn \in Arns \cup {0}
      /\ status.id \in CfIds \cup {0} /\ status.arn \in Arns \cup {0}
  BY <1>1 DEF TypeOK, AwsTypeOK, Status
<1>3. Next
  BY DEF Next, Work, Stretch, othersVars
<1>4. /\ GoneCf(copy.status.id) => GoneCf(copy.status.id)'
      /\ GoneCert(copy.status.arn) => GoneCert(copy.status.arn)'
  BY <1>1, <1>2, <1>3, GoneStep DEF GoneCf, GoneCert
<1>5. /\ ~Live(copy.status.id) => GoneCf(copy.status.id)
      /\ status.arn # 0 /\ ~Imported(status.arn) => acm[status.arn] = "gone"
  BY <1>1, <1>2, 0 \notin CfIds, 0 \notin Arns
  DEF Recorded, NamesCf, NamesCert, Live, Imported, GoneCf, CfRecord, Phases, ProviderLabels,
      CfIds, Arns
<1>6. /\ status.id = copy.status.id \/ GoneCf(copy.status.id)
      /\ status.arn = copy.status.arn \/ GoneCert(copy.status.arn)
  BY <1>1 DEF Remembered, ProviderLabels
<1>7. CASE Describe
  <2>1. /\ status'.id = status.id
        /\ ~Imported(status.arn) \/ status'.arn = status.arn
        /\ status'.arn \in {0, status.arn}
    <3>1. \/ status' = status
          \/ ~Imported(status.arn) /\ status' = [status EXCEPT !.arn = 0]
          \/ status' = [status EXCEPT !.ready = @ /\ copy.deleting]
      BY <1>7 DEF Describe, Goto, Fail
    <3> QED
      BY <1>1, <3>1 DEF Status
  <2>2. pc' \in {"create", "load", "import", "report"} /\ (pc' = "create" => copy.status.id = 0)
    BY <1>7 DEF Describe, Goto, Fail, FirstCfStep
  <2>3. status'.arn = copy.status.arn \/ GoneCert(copy.status.arn)'
    BY <1>1, <1>4, <1>5, <1>6, <2>1, <1>7 DEF GoneCert, Describe, awsVars
  <2> QED
    BY <1>1, <1>4, <1>6, <2>1, <2>2, <2>3 DEF Remembered, GoneCf
<1>8. CASE Import
  <2>1. status'.id = status.id /\ (status'.arn = status.arn \/ status.arn = 0)
    <3>1. \/ \E a \in Arns : ImportTarget(a) /\ status' = [status EXCEPT !.arn = a]
          \/ status' = [status EXCEPT !.ready = @ /\ copy.deleting]
      BY <1>8 DEF Import, Goto, Fail
    <3> QED
      BY <1>1, <3>1 DEF ImportTarget, Status
  <2>2. pc' \in {"create", "load", "report"} /\ (pc' = "create" => copy.status.id = 0)
    BY <1>8 DEF Import, Goto, Fail, FirstCfStep
  <2>3. status'.arn = copy.status.arn \/ GoneCert(copy.status.arn)'
    BY <1>1, <1>4, <1>6, <2>1 DEF GoneCert
  <2> QED
    BY <1>1, <1>4, <1>6, <2>1, <2>2, <2>3 DEF Remembered, GoneCf
<1>9. CASE DeleteCert
  <2>1. status'.id = status.id /\ pc' = "report"
    BY <1>1, <1>9 DEF DeleteCert, Goto, Fail, Status
  <2>2. \/ status'.arn = status.arn
        \/ status.arn \in Arns /\ acm'[status.arn] = "gone"
    BY <1>1, <1>2, <1>5, <1>9 DEF DeleteCert, Goto, Fail, Status, Imported
  <2>3. status'.arn = copy.status.arn \/ GoneCert(copy.status.arn)'
    BY <1>1, <1>4, <1>6, <2>2 DEF GoneCert
  <2> QED
    BY <1>1, <1>4, <1>6, <2>1, <2>3 DEF Remembered, GoneCf
<1>10. CASE Load
  <2>1. /\ status'.arn = status.arn
        /\ \/ Live(copy.status.id) /\ status'.id = copy.status.id /\ pc' = AfterLoad(copy.status.id)
           \/ ~Live(copy.status.id) /\ status'.id = 0 /\ pc' = IF copy.deleting THEN "deleteCert" ELSE "create"
           \/ status'.id = status.id /\ pc' = "report"
    BY <1>1, <1>10 DEF Load, Goto, Fail, LoadFailed, Observed, Live, Status
  <2>2. /\ AfterLoad(copy.status.id) \in {"report", "update", "disable", "deleteCf"}
        /\ AfterLoad(copy.status.id) \in {"disable", "deleteCf"} => copy.deleting
    BY DEF AfterLoad
  <2> QED
    BY <1>1, <1>4, <1>5, <1>6, <2>1, <2>2 DEF Remembered, Live
<1>11. CASE Create
  <2>1. status'.arn = status.arn /\ pc' = "report"
    BY <1>1, <1>11 DEF Create, Goto, Fail, Observed, Status
  <2>2. GoneCf(copy.status.id)
    BY <1>11 DEF Create, Remembered
  <2> QED
    BY <1>1, <1>4, <1>6, <2>1, <2>2 DEF Remembered
<1>12. CASE Update \/ Disable
  <2>1. status'.id = status.id /\ status'.arn = status.arn /\ pc' = "report"
    BY <1>1, <1>12 DEF Update, Disable, Put, Goto, Fail, Observed, Status
  <2> QED
    BY <1>1, <1>4, <1>6, <2>1 DEF Remembered
<1>13. CASE DeleteCf
  <2>1. copy.deleting /\ status.id = copy.status.id /\ status.id \in CfIds
    BY <1>13 DEF DeleteCf, Remembered
  <2>2. /\ status'.arn = status.arn
        /\ \/ status'.id = status.id /\ pc' = "report"
           \/ status'.id = 0 /\ pc' = "deleteCert" /\ cf'[status.id].phase = "gone"
    <3>1. CASE pc' = "deleteCert"
      <4>1. cf' = [cf EXCEPT ![status.id].phase = "gone"] /\ status' = [status EXCEPT !.id = 0]
        BY <1>13, <3>1 DEF DeleteCf, Goto, Fail
      <4>2. cf'[status.id].phase = "gone"
        BY <1>2, <2>1, <4>1 DEF CfRecord
      <4> QED
        BY <1>1, <3>1, <4>1, <4>2 DEF Status
    <3>2. CASE pc' # "deleteCert"
      <4>1. pc' = "report" /\ status' = [status EXCEPT !.ready = @ /\ copy.deleting]
        BY <1>13, <3>2 DEF DeleteCf, Goto, Fail
      <4> QED
        BY <1>1, <4>1 DEF Status
    <3> QED
      BY <3>1, <3>2
  <2> QED
    BY <1>1, <1>4, <1>6, <2>1, <2>2 DEF Remembered, GoneCf
<1> QED
  BY <1>7, <1>8, <1>9, <1>10, <1>11, <1>12, <1>13 DEF ProviderStep

\* Every step remembers.
LEMMA RememberedStep ==
    ASSUME TypeInv, Fresh, Recorded, Remembered, Next
    PROVE  Remembered'
<1>1. CASE pc' = "idle"
  BY <1>1 DEF Remembered
<1>2. ASSUME NEW d \in Distros, Begin(d) PROVE Remembered'
  <2>1. cache[d] \in Object /\ cache[d].status \in Status
    BY <1>2 DEF Begin, Ignored, TypeInv, TypeOK, Object
  <2>2. /\ copy' = cache[d] /\ status'.id = copy'.status.id /\ status'.arn = copy'.status.arn
        /\ pc' \in {"addFinalizer", "resolve", "load", "deleteCert", "report"}
        /\ pc' = "deleteCert" => copy'.deleting
    BY <1>2, <2>1 DEF Begin, FirstStep, FirstDeleteStep, Status
  <2> QED
    BY <2>2 DEF Remembered
<1>3. CASE AddFinalizer
  <2>1. copy \in Object
    BY <1>3 DEF AddFinalizer, TypeInv, TypeOK
  <2>2. /\ copy'.status = copy.status /\ UNCHANGED <<status, awsVars>>
        /\ pc = "addFinalizer" /\ pc' = "resolve"
    BY <1>3, <2>1 DEF AddFinalizer, Object
  <2> QED
    BY <2>2 DEF Remembered, GoneCf, GoneCert, awsVars
<1>4. CASE Resolve
  <2>1. copy.status \in Status
    BY <1>4 DEF Resolve, TypeInv, TypeOK, Object
  <2>2. copy' = copy /\ pc' \in {"noCert", "describe", "import", "report"}
    BY <1>4 DEF Resolve, FirstCertStep
  <2>3. pc' # "noCert" => status'.id = copy.status.id /\ status'.arn = copy.status.arn
    BY <1>4, <2>1 DEF Resolve, Status
  <2> QED
    BY <2>2, <2>3 DEF Remembered
<1>5. CASE ReportDeletion /\ pc' # "idle"
  <2>1. /\ pc = "report" /\ pc' = "unfinalize" /\ copy.deleting /\ AllDeleted
        /\ UNCHANGED <<copy, cls, status, awsVars>>
    BY <1>5 DEF ReportDeletion, Finish, IdleAgain
  <2> QED
    BY <2>1 DEF Remembered, AllDeleted, Wants, GoneCf, GoneCert, awsVars
<1>6. CASE Report \/ Unfinalize \/ Panic \/ Crash
  BY <1>1, <1>6 DEF Report, Unfinalize, Panic, Crash, Restarted, Finish, IdleAgain
<1>7. CASE \E d \in Distros : Skip(d)
  BY <1>7, RememberedRest DEF Skip, passVars
<1>8. CASE Environment /\ ~Crash
  BY <1>8, RememberedRest
  DEF Environment, EditSpec, DeleteObject, UserWrites, Sync, Resync, ClassChange,
      SecretChange, Rollout, Meddle, passVars
<1> QED
  BY <1>1, <1>2, <1>3, <1>4, <1>5, <1>6, <1>7, <1>8, RememberedProvider
  DEF Next, Work, Stretch, Environment, othersVars

\* No step takes a deletion back.
LEMMA DoomedStep ==
    ASSUME TypeInv, Fresh, Doomed, Next
    PROVE  Doomed'
<1> USE DEF TypeInv
<1>1. ASSUME NEW k \in Distros, NEW new, Write(k, new),
             pc' = "idle" \/ UNCHANGED <<pc, key, copy>>,
             new # NoObject => Exists(k) /\ (obj[k].deleting => new.deleting)
      PROVE  Doomed'
  BY <1>1 DEF Doomed, Write, Exists, TypeOK
<1>2. ASSUME UNCHANGED <<obj, cache>>, pc' = "idle" \/ (UNCHANGED <<key, copy>> /\ pc # "idle")
      PROVE  Doomed'
  BY <1>2 DEF Doomed, Exists
<1>3. ASSUME NEW d \in Distros, Begin(d) PROVE Doomed'
  BY <1>3 DEF Begin, Ignored, Doomed, Exists, apiVars
<1>4. CASE AddFinalizer
  <2>1. /\ key \in Distros /\ copy \in Object /\ pc # "idle" /\ key' = key
        /\ copy' = [copy EXCEPT !.finalizer = TRUE]
    BY <1>4 DEF AddFinalizer, TypeOK
  <2>2. copy'.deleting = copy.deleting
    BY <2>1 DEF Object
  <2>3. (current /\ Write(key, copy')) \/ UNCHANGED apiVars
    BY <1>4 DEF AddFinalizer
  <2>4. CASE UNCHANGED apiVars
    BY <2>1, <2>2, <2>4 DEF Doomed, Exists, apiVars
  <2>5. CASE current /\ Write(key, copy')
    BY <2>1, <2>2, <2>5 DEF Fresh, Doomed, Exists, Write, TypeOK
  <2> QED
    BY <2>3, <2>4, <2>5
<1>5. CASE Report \/ ReportDeletion \/ Unfinalize
  <2>1. /\ pc # "idle" /\ key \in Distros
        /\ pc' = "idle" \/ UNCHANGED <<key, copy>>
    BY <1>5 DEF Report, ReportDeletion, Unfinalize, Finish, IdleAgain, TypeOK
  <2>2. \/ UNCHANGED apiVars
        \/ Write(key, NoObject)
        \/ current /\ Write(key, [obj[key] EXCEPT !.status = status])
    BY <1>5 DEF Report, ReportDeletion, Unfinalize, WriteStatus
  <2>3. CASE UNCHANGED apiVars
    BY <1>2, <2>1, <2>3 DEF apiVars
  <2>4. CASE Write(key, NoObject)
    BY <2>1, <2>4 DEF Doomed, Exists, Write, TypeOK
  <2>5. CASE current /\ Write(key, [obj[key] EXCEPT !.status = status])
    <3>1. obj[key] \in Object
      BY <2>1, <2>5 DEF Fresh, Exists, TypeOK
    <3>2. [obj[key] EXCEPT !.status = status].deleting = obj[key].deleting
      BY <3>1 DEF Object
    <3>3. Exists(key)
      BY <2>1, <2>5 DEF Fresh
    <3> QED
      BY <2>1, <2>5, <3>2, <3>3 DEF Doomed, Exists, Write, TypeOK
  <2> QED
    BY <2>2, <2>3, <2>4, <2>5
<1>6. CASE Panic \/ Crash
  BY <1>6 DEF Panic, Crash, Restarted, IdleAgain, Doomed, Exists
<1>7. ASSUME NEW d \in Distros, EditSpec(d) \/ DeleteObject(d) PROVE Doomed'
  <2>1. obj[d] \in Object /\ Exists(d)
    BY <1>7 DEF EditSpec, DeleteObject, Exists, TypeOK
  <2>2. /\ \A t : [obj[d] EXCEPT !.spec = t].deleting = obj[d].deleting
        /\ [obj[d] EXCEPT !.deleting = TRUE].deleting
    BY <2>1 DEF Object
  <2>3. PICK new : UserWrites(d, new) /\ (new # NoObject => (obj[d].deleting => new.deleting))
    BY <1>7, <2>2 DEF EditSpec, DeleteObject
  <2>4. Write(d, new) /\ UNCHANGED <<pc, key, copy>>
    BY <2>3 DEF UserWrites, passVars
  <2> QED
    BY <1>1, <2>1, <2>3, <2>4
<1>8. ASSUME NEW d \in Distros, Sync(d) PROVE Doomed'
  BY <1>8 DEF Sync, Doomed, Exists, TypeOK, passVars
<1>9. ASSUME UNCHANGED <<obj, cache, pc, key, copy>> PROVE Doomed'
  BY <1>9 DEF Doomed, Exists
<1>10. CASE \/ \E d \in Distros : Skip(d) \/ Resync(d)
            \/ \E k \in ClassNames : ClassChange(k)
            \/ \E n \in Secrets : SecretChange(n)
            \/ \E i \in CfIds : Rollout(i)
            \/ Meddle
  BY <1>9, <1>10 DEF Skip, Resync, ClassChange, SecretChange, Rollout, Meddle, passVars,
                     othersVars, apiVars
<1>11. CASE Resolve
  BY <1>2, <1>11 DEF Resolve, apiVars
<1>12. ASSUME ProviderStep, UNCHANGED othersVars PROVE Doomed'
  <2>1. pc # "idle" /\ UNCHANGED given
    BY <1>12 DEF ProviderStep, Describe, Import, DeleteCert, Load, Create, Update, Disable,
                 DeleteCf, Put
  <2> QED
    BY <1>2, <1>12, <2>1 DEF given, othersVars, apiVars
<1> QED
  BY <1>3, <1>4, <1>5, <1>6, <1>7, <1>8, <1>10, <1>11, <1>12
  DEF Next, Work, Stretch, Environment, othersVars

\* An object is never made by the controller or its surroundings, and a deletion once
\* asked for stays.
LEMMA DeletionStays ==
    ASSUME TypeInv, Fresh, Next, NEW d \in Distros, Exists(d)'
    PROVE  Exists(d) /\ (obj[d].deleting => obj'[d].deleting)
<1> USE DEF TypeInv, Exists
<1>1. CASE obj'[d] = obj[d]
  BY <1>1
<1>2. ASSUME NEW e \in Distros, NEW new, Write(e, new),
             e = d => new = NoObject \/ (Exists(d) /\ (obj[d].deleting => new.deleting))
      PROVE  Exists(d) /\ (obj[d].deleting => obj'[d].deleting)
  BY <1>2 DEF Write, TypeOK
<1>3. CASE AddFinalizer
  <2>1. key \in Distros /\ pc # "idle" /\ [copy EXCEPT !.finalizer = TRUE].deleting = copy.deleting
    BY <1>3 DEF AddFinalizer, TypeOK, Object
  <2>2. (current /\ Write(key, [copy EXCEPT !.finalizer = TRUE])) \/ obj' = obj
    BY <1>3 DEF AddFinalizer, apiVars
  <2>3. current => obj[key] # NoObject /\ obj[key].deleting = copy.deleting
    BY <2>1 DEF Fresh
  <2> QED
    BY <2>1, <2>2, <2>3, <1>1, <1>2
<1>4. CASE Report \/ ReportDeletion
  <2>1. pc # "idle" /\ key \in Distros
    BY <1>4 DEF Report, ReportDeletion, TypeOK
  <2>2. obj' = obj \/ (current /\ Write(key, [obj[key] EXCEPT !.status = status]))
    BY <1>4 DEF Report, ReportDeletion, WriteStatus, apiVars
  <2>3. current => obj[key] \in Object /\ obj[key] # NoObject
    BY <2>1 DEF Fresh, TypeOK
  <2>4. current => [obj[key] EXCEPT !.status = status].deleting = obj[key].deleting
    BY <2>3 DEF Object
  <2> QED
    BY <2>1, <2>2, <2>3, <2>4, <1>1, <1>2
<1>5. CASE Unfinalize
  <2>1. key \in Distros /\ (obj' = obj \/ Write(key, NoObject))
    BY <1>5 DEF Unfinalize, TypeOK, apiVars
  <2> QED
    BY <2>1, <1>1, <1>2
<1>6. ASSUME NEW e \in Distros, EditSpec(e) \/ DeleteObject(e)
      PROVE  Exists(d) /\ (obj[d].deleting => obj'[d].deleting)
  <2>1. obj[e] \in Object /\ obj[e] # NoObject
    BY <1>6 DEF EditSpec, DeleteObject, TypeOK
  <2>2. /\ \A t : [obj[e] EXCEPT !.spec = t].deleting = obj[e].deleting
        /\ [obj[e] EXCEPT !.deleting = TRUE].deleting
    BY <2>1 DEF Object
  <2>3. PICK new : UserWrites(e, new) /\ (new # NoObject => (obj[e].deleting => new.deleting))
    BY <1>6, <2>2 DEF EditSpec, DeleteObject
  <2> QED
    BY <2>1, <2>3, <1>2 DEF UserWrites
<1>7. \/ obj' = obj \/ AddFinalizer \/ Report \/ ReportDeletion \/ Unfinalize
      \/ \E e \in Distros : EditSpec(e) \/ DeleteObject(e)
  BY DEF Next, Begin, Skip, Work, Stretch, Resolve, Panic, Crash, Restarted, Environment, Sync,
         Resync, ClassChange, SecretChange, Rollout, Meddle, othersVars, apiVars
<1> QED
  BY <1>1, <1>3, <1>4, <1>5, <1>6, <1>7

-----------------------------------------------------------------------------
(* The theorems.                                                            *)

\* The system starts with nothing recorded anywhere.
LEMMA RecordsInit ==
    ASSUME Init
    PROVE  IInv
<1>1. TypeInv /\ Fresh
  BY InitTypes
<1>2. \A d \in Distros : obj[d].status = EmptyStatus
  BY DEF Init
<1>3. EmptyStatus.id = 0 /\ EmptyStatus.arn = 0 /\ 0 \notin CfIds /\ 0 \notin Arns
  BY DEF EmptyStatus, CfIds, Arns
<1>4. pc = "idle" /\ \A d \in Distros : cache[d] = NoObject
  BY DEF Init
<1>5. Recorded
  BY <1>2, <1>3, <1>4 DEF Recorded, NamesCf, NamesCert
<1>6. Remembered /\ Doomed
  BY <1>4 DEF Remembered, Doomed
<1> QED
  BY <1>1, <1>5, <1>6 DEF IInv

\* Every step keeps types, freshness, and what records say.
LEMMA RecordsStep ==
    ASSUME IInv, Next
    PROVE  IInv'
BY TypeStep, FreshStep, RecordedStep, RememberedStep, DoomedStep DEF IInv

\* The inductive invariant of this module: types, freshness, and what records say.
THEOREM Records == Spec => []IInv
<1>1. Init => IInv
  BY RecordsInit
<1>2. IInv /\ [Next]_vars => IInv'
  <2>1. ASSUME IInv, UNCHANGED vars PROVE IInv'
    <3> USE <2>1 DEF IInv, vars, awsVars, apiVars, inputVars, workerVars, passVars
    <3>1. TypeInv' /\ Fresh'
      BY Stutter
    <3>2. Recorded'
      BY DEF Recorded, NamesCf, NamesCert, Exists
    <3>3. Remembered' /\ Doomed'
      BY DEF Remembered, GoneCf, GoneCert, AllDeleted, Wants, Doomed, Exists
    <3> QED
      BY <3>1, <3>2, <3>3
  <2> QED
    BY <2>1, RecordsStep
<1> QED
  BY <1>1, <1>2, PTL DEF Spec

\* Records that are nobody else's anywhere are nobody else's in the API server.
LEMMA ExclusiveRecords ==
    ASSUME IInv
    PROVE  OwnershipIsExclusive
<1> SUFFICES ASSUME NEW d \in Distros, Exists(d)
             PROVE  /\ obj[d].status.id # 0 => cf[obj[d].status.id].ref = d
                    /\ \A e \in Distros \ {d} : Exists(e) /\ obj[d].status.arn # 0
                         => obj[e].status.arn # obj[d].status.arn
  BY DEF OwnershipIsExclusive
<1>1. obj[d].status.id \in CfIds \cup {0} /\ obj[d].status.arn \in Arns \cup {0}
  BY DEF IInv, TypeInv, TypeOK, Exists, Object, Status
<1> QED
  BY <1>1 DEF IInv, Recorded, NamesCf, NamesCert

\* One Distribution's status never names what belongs to another: DeleteDistribution
\* and DeleteCertificate of the one cannot hit the other.
THEOREM Exclusive == Spec => []OwnershipIsExclusive
BY ExclusiveRecords, Records, PTL

\* A step that takes an object away finds everything its status records gone.
LEMMA LastStep ==
    ASSUME IInv, Next, NEW d \in Distros,
           Exists(d), obj[d].finalizer, obj'[d] = NoObject, Wants(cls)
    PROVE  GoneCf(obj[d].status.id) /\ GoneCert(obj[d].status.arn)
<1> USE DEF IInv, TypeInv
<1>1. obj[d] \in Object
  BY DEF TypeOK, Exists
<1>2. Unfinalize /\ current /\ key = d
  <2>1. NoObject \notin Object
    BY SpecAssumption
  <2>2. ASSUME NEW k \in Distros, NEW new \in Object, Write(k, new) PROVE obj'[d] # NoObject
    BY <2>1, <2>2 DEF Write, TypeOK, Exists
  <2>3. ~AddFinalizer
    <3>1. ASSUME AddFinalizer PROVE [copy EXCEPT !.finalizer = TRUE] \in Object /\ key \in Distros
      BY <3>1 DEF AddFinalizer, TypeOK, Object
    <3> QED
      BY <2>2, <3>1 DEF AddFinalizer, apiVars, Exists
  <2>4. ~Report /\ ~ReportDeletion
    <3>1. ASSUME Report \/ ReportDeletion, current
          PROVE  [obj[key] EXCEPT !.status = status] \in Object /\ key \in Distros
      BY <3>1 DEF Report, ReportDeletion, TypeOK, Fresh, Exists, Object
    <3> QED
      BY <2>2, <3>1 DEF Report, ReportDeletion, WriteStatus, apiVars, Exists
  <2>5. ASSUME NEW e \in Distros PROVE ~EditSpec(e) /\ ~DeleteObject(e)
    <3>1. ASSUME EditSpec(e) PROVE FALSE
      <4>1. obj[e] \in Object
        BY <3>1 DEF EditSpec, Exists, TypeOK
      <4>2. \A t \in Specs : [obj[e] EXCEPT !.spec = t] \in Object
        BY <4>1 DEF Object
      <4> QED
        <5>1. PICK t \in Specs : UserWrites(e, [obj[e] EXCEPT !.spec = t])
          BY <3>1 DEF EditSpec
        <5>2. Write(e, [obj[e] EXCEPT !.spec = t])
          BY <5>1 DEF UserWrites
        <5> QED
          BY <2>2, <4>2, <5>2
    <3>2. ASSUME DeleteObject(e) PROVE FALSE
      <4>1. obj[e] \in Object
        BY <3>2 DEF DeleteObject, Exists, TypeOK
      <4>2. [obj[e] EXCEPT !.deleting = TRUE] \in Object
        BY <4>1 DEF Object
      <4>3. CASE obj[e].finalizer
        <5>1. Write(e, [obj[e] EXCEPT !.deleting = TRUE])
          BY <3>2, <4>3 DEF DeleteObject, UserWrites
        <5> QED
          BY <2>2, <4>2, <5>1
      <4>4. CASE ~obj[e].finalizer
        BY <3>2, <4>4 DEF DeleteObject, UserWrites, Write, TypeOK, Exists
      <4> QED
        BY <4>3, <4>4
    <3> QED
      BY <3>1, <3>2
  <2>6. obj' # obj
    BY DEF Exists
  <2>7. Unfinalize
    BY <2>3, <2>4, <2>5, <2>6
    DEF Next, Begin, Skip, Work, Stretch, Resolve, Panic, Crash, Restarted, Environment, Sync, Resync,
        ClassChange, SecretChange, Rollout, Meddle, othersVars, apiVars
  <2> QED
    BY <2>6, <2>7 DEF Unfinalize, Write, TypeOK, Exists, apiVars
<1>3. /\ status.id = 0 /\ status.arn = 0
      /\ status.id = copy.status.id \/ GoneCf(copy.status.id)
      /\ status.arn = copy.status.arn \/ GoneCert(copy.status.arn)
      /\ obj[d].status = copy.status
  BY <1>2 DEF Unfinalize, Remembered, AllDeleted, Fresh
<1> QED
  BY <1>3 DEF GoneCf, GoneCert

\* No step lets an object go whose distribution or certificate is not gone.
LEMMA UnfinalizeSafe ==
    ASSUME IInv, Next
    PROVE  UnfinalizeWhenGone
BY LastStep DEF UnfinalizeWhenGone, GoneCf, GoneCert

\* The finalizer of a Distribution goes only when everything its status records is gone.
THEOREM FinalizerSafe == Spec => UnfinalizeOnlyWhenGone
<1>1. IInv /\ [Next]_vars => [UnfinalizeWhenGone]_vars
  BY UnfinalizeSafe
<1> QED
  BY <1>1, Records, PTL DEF Spec, UnfinalizeOnlyWhenGone

\* A status changes only at the end of a pass over that object, whose copy agrees with it.
LEMMA StatusStep ==
    ASSUME IInv, Next, NEW d \in Distros, Exists(d), obj'[d] # NoObject,
           obj'[d].status # obj[d].status
    PROVE  /\ Report \/ ReportDeletion
           /\ pc \in {"report", "noCert"} /\ current /\ d = key
           /\ obj[d].status = copy.status /\ obj[d].spec = copy.spec
           /\ obj[d].deleting = copy.deleting
           /\ obj'[d].status = status /\ obj'[d].spec = obj[d].spec
           /\ obj'[d].deleting = obj[d].deleting
<1> USE DEF IInv, TypeInv
<1>1. obj[d] \in Object /\ obj' # obj
  BY DEF TypeOK, Exists
<1>2. ~AddFinalizer
  <2>1. ASSUME AddFinalizer
        PROVE  /\ key \in Distros /\ pc # "idle"
               /\ [copy EXCEPT !.finalizer = TRUE].status = copy.status
    BY <2>1 DEF AddFinalizer, TypeOK, Object
  <2> QED
    BY <2>1 DEF AddFinalizer, Write, Fresh, TypeOK, apiVars
<1>3. ASSUME NEW e \in Distros PROVE ~EditSpec(e) /\ ~DeleteObject(e)
  <2>1. \A t : [obj[d] EXCEPT !.spec = t].status = obj[d].status
    BY <1>1 DEF Object
  <2>2. [obj[d] EXCEPT !.deleting = TRUE].status = obj[d].status
    BY <1>1 DEF Object
  <2>3. ASSUME NEW new, UserWrites(e, new), e = d => \/ new = NoObject
                                                     \/ new.status = obj[d].status
        PROVE  FALSE
    BY <2>3 DEF UserWrites, Write, TypeOK
  <2>4. ~EditSpec(e)
    BY <2>1, <2>3 DEF EditSpec
  <2>5. ~DeleteObject(e)
    BY <2>2, <2>3 DEF DeleteObject
  <2> QED
    BY <2>4, <2>5
<1>4. Report \/ ReportDeletion \/ Unfinalize
  BY <1>1, <1>2, <1>3
  DEF Next, Begin, Skip, Work, Stretch, Resolve, Panic, Crash, Restarted, Environment, Sync, Resync,
      ClassChange, SecretChange, Rollout, Meddle, othersVars, apiVars
<1>5. CASE Unfinalize
  BY <1>1, <1>5 DEF Unfinalize, Write, TypeOK, apiVars
<1>6. CASE Report \/ ReportDeletion
  <2>1. pc \in {"report", "noCert"} /\ key \in Distros
    BY <1>6 DEF Report, ReportDeletion, TypeOK
  <2>2. current /\ Write(key, [obj[key] EXCEPT !.status = status])
    BY <1>1, <1>6 DEF Report, ReportDeletion, WriteStatus, apiVars
  <2>3. d = key /\ obj'[d] = [obj[d] EXCEPT !.status = status]
    BY <2>1, <2>2 DEF Write, TypeOK
  <2>4. /\ obj'[d].status = status /\ obj'[d].spec = obj[d].spec
        /\ obj'[d].deleting = obj[d].deleting
    BY <1>1, <2>3 DEF Object
  <2> QED
    BY <1>6, <2>1, <2>2, <2>3, <2>4 DEF Fresh
<1> QED
  BY <1>4, <1>5, <1>6

\* A step that changes a status drops from it only what is gone.
LEMMA ForgetStep ==
    ASSUME IInv, Next
    PROVE  ForgetDead
<1> SUFFICES ASSUME NEW d \in Distros, Exists(d), obj'[d] # NoObject, pc # "noCert"
             PROVE  LET s == obj[d].status
                        t == obj'[d].status
                    IN /\ s.id \notin {0, t.id} => cf[s.id].phase = "gone"
                       /\ s.arn \notin {0, t.arn} => acm[s.arn] = "gone"
  BY DEF ForgetDead
<1>1. CASE obj'[d].status = obj[d].status
  BY <1>1
<1>2. CASE obj'[d].status # obj[d].status
  BY StatusStep, <1>2 DEF IInv, Remembered, GoneCf, GoneCert
<1> QED
  BY <1>1, <1>2

\* Nothing recorded is forgotten while it lives, except by a pass without a certificate.
THEOREM NothingForgotten == Spec => ForgetOnlyDead
<1>1. IInv /\ [Next]_vars => [ForgetDead]_vars
  BY ForgetStep
<1> QED
  BY <1>1, Records, PTL DEF Spec, ForgetOnlyDead

\* A step of the worker turns off only what belongs to a Distribution being deleted.
LEMMA TurnOffStep ==
    ASSUME IInv, Next, NEW i \in CfIds, Live(i), pc' # pc, pc' # "idle",
           cf'[i].phase = "gone" \/ (cf[i].enabled /\ ~cf'[i].enabled)
    PROVE  /\ cf[i].ref \in Distros
           /\ ~Exists(cf[i].ref) \/ obj[cf[i].ref].deleting
<1> USE DEF IInv, TypeInv
<1>1. cf \in [CfIds -> CfRecord]
  BY DEF TypeOK, AwsTypeOK
<1>2. cf' # cf
  BY <1>1 DEF Live
<1>3. ProviderStep
  BY <1>2
  DEF Next, Begin, Skip, Work, Stretch, AddFinalizer, Resolve, Report, ReportDeletion, Unfinalize,
      Panic, Crash, Restarted, IdleAgain, Environment, EditSpec, DeleteObject, UserWrites,
      Sync, Resync, ClassChange, SecretChange, Rollout, Meddle, DestroyCert, awsVars, passVars
<1>4. ~Create
  <2>1. ASSUME Create
        PROVE  \E j \in CfIds : FreshCf(j) /\ \E r : cf' = [cf EXCEPT ![j] = r]
    BY <1>2, <2>1 DEF Create
  <2> QED
    BY <1>1, <2>1 DEF FreshCf, Live
<1>5. ~Update
  BY <1>1 DEF Update, Put, Live, CfRecord
<1>6. Disable \/ DeleteCf
  BY <1>2, <1>3, <1>4, <1>5
  DEF ProviderStep, Describe, Import, DeleteCert, Load, awsVars
<1>7. pc \in {"disable", "deleteCf"}
  BY <1>6 DEF Disable, DeleteCf
<1>8. i = status.id
  BY <1>1, <1>6 DEF Disable, DeleteCf, Put, Live
<1>9. key \in Distros /\ copy.deleting /\ NamesCf(key, i)
  BY <1>7, <1>8 DEF TypeOK, Remembered, NamesCf
<1>10. cf[i].ref = key
  BY <1>9 DEF Recorded
<1> QED
  BY <1>7, <1>9, <1>10 DEF Doomed

\* No step turns off a distribution whose owner is not being deleted.
LEMMA TurnOffSafe ==
    ASSUME IInv, Next
    PROVE  TurnOffDoomed
BY TurnOffStep DEF TurnOffDoomed

\* The worker turns off only what belongs to a Distribution that is being deleted, or
\* is no more, however old the copy it works on.
THEOREM TurnsOffDoomed == Spec => NeverTurnedOff
<1>1. IInv /\ [Next]_vars => [TurnOffDoomed]_vars
  BY TurnOffSafe
<1> QED
  BY <1>1, Records, PTL DEF Spec, NeverTurnedOff
=============================================================================
