--------------------- MODULE DistributionControllerProofs ---------------------
(***************************************************************************)
(* Theorems about DistributionController, for every set of Distributions,  *)
(* specs, classes and secrets, all quotas and any number of perturbations. *)
(***************************************************************************)
EXTENDS DistributionController, TLAPS

ProviderLabels == {"describe", "import", "load", "create",
                   "update", "disable", "deleteCf", "deleteCert"}

\* The provider runs only for a class that has a section for it.
Dispatched == pc \in ProviderLabels => Wants(cls)

TypeInv == TypeOK /\ Dispatched

-----------------------------------------------------------------------------
(* What the steps of a pass build is of the right type.                     *)

\* Statuses stay statuses under the assignments the provider makes.
LEMMA StatusTypes ==
    ASSUME NEW s \in Status
    PROVE  /\ EmptyStatus \in Status
           /\ \A b \in BOOLEAN : [s EXCEPT !.ready = b] \in Status
           /\ \A i \in CfIds \cup {0} : [s EXCEPT !.id = i] \in Status
           /\ \A a \in Arns \cup {0} : [s EXCEPT !.arn = a] \in Status
           /\ \A i \in CfIds \cup {0} : [s EXCEPT !.id = i, !.ext = "Unknown"] \in Status
           /\ LoadFailed(s) \in Status
           /\ \A i \in CfIds \cup {0}, p \in {"InProgress", "Deployed"} :
                Observed(s, i, p) \in Status
BY DEF Status, EmptyStatus, LoadFailed, Observed

\* Fail returns to the controller with a status.
LEMMA FailTypes ==
    ASSUME NEW s \in Status, copy.deleting \in BOOLEAN, Fail(s)
    PROVE  status' \in Status /\ failed' \in BOOLEAN /\ pc' = "report"
BY DEF Fail, Status

\* A perturbation is counted within its bound.
LEMMA PerturbTypes ==
    ASSUME NEW k, chaos \in 0..MaxChaos, Perturb(k)
    PROVE  chaos' \in 0..MaxChaos
BY QuotaAssumption DEF Perturb

\* Idle again, the worker holds nothing.
LEMMA IdleTypes ==
    ASSUME IdleAgain
    PROVE  /\ pc' = "idle" /\ current' \in BOOLEAN /\ status' \in Status
           /\ cert' \in Held /\ etag' \in BOOLEAN /\ failed' \in BOOLEAN
BY DEF IdleAgain, EmptyStatus, Status, NoSecret, Held, SecretValues

\* A configuration asked for by a Distribution and a class with a provider.
LEMMA DesiredTypes ==
    ASSUME NEW o \in Object, NEW c \in CloudFrontSpecs
    PROVE  Desired(o.spec, c) \in CfConfig
BY SpecAssumption DEF Desired, CfConfig, Object, DistributionSpec

-----------------------------------------------------------------------------
(* Every step of the provider keeps the types.                              *)

\* What a provider step may change, and its types.
StepTypes == /\ AwsTypeOK
             /\ status \in Status
             /\ pc \in Labels \ {"idle"}
             /\ etag \in BOOLEAN /\ failed \in BOOLEAN

\* A step of the provider, whatever AWS answers, keeps the types.
LEMMA ProviderTypes ==
    ASSUME TypeInv, ProviderStep, UNCHANGED othersVars
    PROVE  TypeInv'
<1> USE DEF TypeInv, othersVars, apiVars, inputVars, given, awsVars
<1>1. /\ pc \in ProviderLabels
      /\ key \in Distros /\ copy \in Object /\ cls \in CloudFrontSpecs
      /\ status \in Status /\ copy.status \in Status
      /\ copy.deleting \in BOOLEAN
  BY DEF ProviderStep, Describe, Import, DeleteCert, Load, Create, Update, Disable,
         DeleteCf, ProviderLabels, TypeOK, Dispatched, Wants, Object
<1>2. /\ status.id \in CfIds \cup {0} /\ status.arn \in Arns \cup {0}
      /\ copy.status.id \in CfIds \cup {0}
  BY <1>1 DEF Status
<1>3. /\ cf \in [CfIds -> CfRecord]
      /\ acm \in [Arns -> Serials \cup {"unused", "gone"}]
      /\ chaos \in 0..MaxChaos
      /\ \A k : Perturb(k) => chaos' \in 0..MaxChaos
      /\ etag \in BOOLEAN /\ failed \in BOOLEAN
  BY PerturbTypes DEF TypeOK, AwsTypeOK
<1>4. ASSUME Describe PROVE StepTypes'
  <2>1. status' \in Status
    BY <1>4, <1>1, <1>2 DEF Describe, Goto, Fail, Status
  <2>2. chaos' \in 0..MaxChaos
    BY <1>4, <1>3 DEF Describe
  <2>3. cf' \in [CfIds -> CfRecord]
    BY <1>4, <1>1, <1>2, <1>3 DEF Describe
  <2>4. acm' \in [Arns -> Serials \cup {"unused", "gone"}]
    BY <1>4, <1>3 DEF Describe
  <2>5. pc' \in Labels \ {"idle"}
    BY <1>4 DEF Describe, Goto, Fail, Labels, FirstCfStep
  <2>6. etag' \in BOOLEAN /\ failed' \in BOOLEAN
    BY <1>4, <1>3 DEF Describe, Goto, Fail
  <2> QED
    BY <2>1, <2>2, <2>3, <2>4, <2>5, <2>6 DEF StepTypes, AwsTypeOK
<1>5. ASSUME Import PROVE StepTypes'
  <2>1. status' \in Status
    BY <1>5, <1>1, <1>2 DEF Import, Goto, Fail, Status
  <2>2. chaos' \in 0..MaxChaos
    BY <1>5, <1>3 DEF Import
  <2>3. cf' \in [CfIds -> CfRecord]
    BY <1>5, <1>1, <1>2, <1>3 DEF Import
  <2>4. acm' \in [Arns -> Serials \cup {"unused", "gone"}]
    BY <1>5, <1>3 DEF Import
  <2>5. pc' \in Labels \ {"idle"}
    BY <1>5 DEF Import, Goto, Fail, Labels, FirstCfStep
  <2>6. etag' \in BOOLEAN /\ failed' \in BOOLEAN
    BY <1>5, <1>3 DEF Import, Goto, Fail
  <2> QED
    BY <2>1, <2>2, <2>3, <2>4, <2>5, <2>6 DEF StepTypes, AwsTypeOK
<1>6. ASSUME DeleteCert PROVE StepTypes'
  <2>1. status' \in Status
    BY <1>6, <1>1, <1>2 DEF DeleteCert, Goto, Fail, Status
  <2>2. chaos' \in 0..MaxChaos
    BY <1>6, <1>3 DEF DeleteCert
  <2>3. cf' \in [CfIds -> CfRecord]
    BY <1>6, <1>1, <1>2, <1>3 DEF DeleteCert
  <2>4. acm' \in [Arns -> Serials \cup {"unused", "gone"}]
    BY <1>6, <1>3 DEF DeleteCert
  <2>5. pc' \in Labels \ {"idle"}
    BY <1>6 DEF DeleteCert, Goto, Fail, Labels
  <2>6. etag' \in BOOLEAN /\ failed' \in BOOLEAN
    BY <1>6, <1>3 DEF DeleteCert, Goto, Fail
  <2> QED
    BY <2>1, <2>2, <2>3, <2>4, <2>5, <2>6 DEF StepTypes, AwsTypeOK
<1>7. ASSUME Load PROVE StepTypes'
  <2>1. status' \in Status
    BY <1>7, <1>1, <1>2 DEF Load, Goto, Fail, LoadFailed, Observed, Live, Status
  <2>2. chaos' \in 0..MaxChaos
    BY <1>7, <1>3 DEF Load
  <2>3. cf' \in [CfIds -> CfRecord]
    BY <1>7, <1>1, <1>2, <1>3 DEF Load
  <2>4. acm' \in [Arns -> Serials \cup {"unused", "gone"}]
    BY <1>7, <1>3 DEF Load
  <2>5. pc' \in Labels \ {"idle"}
    BY <1>7 DEF Load, Goto, Fail, Labels, AfterLoad
  <2>6. etag' \in BOOLEAN /\ failed' \in BOOLEAN
    BY <1>7, <1>3 DEF Load, Goto, Fail
  <2> QED
    BY <2>1, <2>2, <2>3, <2>4, <2>5, <2>6 DEF StepTypes, AwsTypeOK
<1>8. ASSUME Create PROVE StepTypes'
  <2>1. status' \in Status
    BY <1>8, <1>1, <1>2 DEF Create, Goto, Fail, Observed, Clashes, Owned, Status
  <2>2. chaos' \in 0..MaxChaos
    BY <1>8, <1>3 DEF Create
  <2>3. cf' \in [CfIds -> CfRecord]
    <3>1. [phase |-> "InProgress", ref |-> key, enabled |-> TRUE,
           config |-> Desired(copy.spec, cls), arn |-> status.arn] \in CfRecord
      BY <1>1, <1>2, DesiredTypes DEF CfRecord, Phases
    <3> QED
      BY <3>1, <1>8, <1>3 DEF Create
  <2>4. acm' \in [Arns -> Serials \cup {"unused", "gone"}]
    BY <1>8, <1>3 DEF Create
  <2>5. pc' \in Labels \ {"idle"}
    BY <1>8 DEF Create, Goto, Fail, Labels
  <2>6. etag' \in BOOLEAN /\ failed' \in BOOLEAN
    BY <1>8, <1>3 DEF Create, Goto, Fail
  <2> QED
    BY <2>1, <2>2, <2>3, <2>4, <2>5, <2>6 DEF StepTypes, AwsTypeOK
<1>9. ASSUME NEW c, NEW on \in BOOLEAN, NEW a, Put(c, on, a),
            Live(status.id) => c \in CfConfig /\ a \in Arns \cup {0}
      PROVE StepTypes'
  <2>1. status' \in Status
    BY <1>9, <1>1, <1>2 DEF Put, Goto, Fail, Observed, Status
  <2>2. chaos' \in 0..MaxChaos
    BY <1>9, <1>3 DEF Put
  <2>3. cf' \in [CfIds -> CfRecord]
    <3>1. ASSUME Live(status.id)
          PROVE  [cf[status.id] EXCEPT !.phase = "InProgress", !.enabled = on,
                                       !.config = c, !.arn = a] \in CfRecord
      <4>1. cf[status.id] \in CfRecord /\ c \in CfConfig /\ a \in Arns \cup {0} /\ on \in BOOLEAN
        BY <3>1, <1>9, <1>3 DEF Live
      <4> QED
        BY <4>1 DEF CfRecord, Phases
    <3> QED
      BY <3>1, <1>9, <1>3 DEF Put
  <2>4. acm' \in [Arns -> Serials \cup {"unused", "gone"}]
    BY <1>9, <1>3 DEF Put
  <2>5. pc' \in Labels \ {"idle"}
    BY <1>9 DEF Put, Goto, Fail, Labels
  <2>6. etag' \in BOOLEAN /\ failed' \in BOOLEAN
    BY <1>9, <1>3 DEF Put, Goto, Fail
  <2> QED
    BY <2>1, <2>2, <2>3, <2>4, <2>5, <2>6 DEF StepTypes, AwsTypeOK
<1>10. ASSUME Update PROVE StepTypes'
  BY <1>10, <1>9, <1>1, <1>2, DesiredTypes DEF Update
<1>11. ASSUME Disable PROVE StepTypes'
  <2>1. Live(status.id) => /\ cf[status.id].config \in CfConfig
                           /\ cf[status.id].arn \in Arns \cup {0}
    BY <1>3 DEF Live, CfRecord
  <2> QED
    BY <1>11, <1>9, <2>1 DEF Disable
<1>12. ASSUME DeleteCf PROVE StepTypes'
  <2>1. status' \in Status
    BY <1>12, <1>1, <1>2 DEF DeleteCf, Goto, Fail, Status
  <2>2. chaos' \in 0..MaxChaos
    BY <1>12, <1>3 DEF DeleteCf
  <2>3. cf' \in [CfIds -> CfRecord]
    BY <1>12, <1>1, <1>2, <1>3 DEF DeleteCf, CfRecord, Phases
  <2>4. acm' \in [Arns -> Serials \cup {"unused", "gone"}]
    BY <1>12, <1>3 DEF DeleteCf
  <2>5. pc' \in Labels \ {"idle"}
    BY <1>12 DEF DeleteCf, Goto, Fail, Labels
  <2>6. etag' \in BOOLEAN /\ failed' \in BOOLEAN
    BY <1>12, <1>3 DEF DeleteCf, Goto, Fail
  <2> QED
    BY <2>1, <2>2, <2>3, <2>4, <2>5, <2>6 DEF StepTypes, AwsTypeOK
<1>13. StepTypes'
  BY <1>4, <1>5, <1>6, <1>7, <1>8, <1>10, <1>11, <1>12 DEF ProviderStep
<1>14. UNCHANGED given
  BY DEF ProviderStep, Describe, Import, DeleteCert, Load, Create, Update, Disable,
         DeleteCf, Put
<1>15. TypeOK'
  BY <1>13, <1>14, <1>1 DEF StepTypes, TypeOK, ProviderLabels
<1>16. Dispatched'
  BY <1>14, <1>1 DEF Dispatched, Wants
<1> QED
  BY <1>15, <1>16

-----------------------------------------------------------------------------
(* Every step of the controller keeps the types.                            *)

\* What the watch and the API server do with an object that is well typed.
LEMMA WriteTypes ==
    ASSUME TypeOK, NEW d \in Distros, NEW new \in Object \cup {NoObject}, Write(d, new)
    PROVE  /\ obj' \in [Distros -> Object \cup {NoObject}]
           /\ cache' \in [Distros -> Object \cup {NoObject}]
           /\ synced' \in [Distros -> BOOLEAN]
BY DEF TypeOK, Write

\* A pass begins with a well-typed copy, however old the cache is.
LEMMA BeginTypes ==
    ASSUME TypeInv, NEW d \in Distros, Begin(d)
    PROVE  TypeInv'
<1> USE DEF TypeInv, apiVars, inputVars, awsVars
<1>1. /\ cache[d] \in Object
      /\ cache[d].status \in Status
      /\ cache[d].spec.class \in ClassNames
      /\ class[cache[d].spec.class] \in ClassValues \ {"absent"}
  <2>1. cache[d] \in Object
    BY DEF Begin, Ignored, TypeOK
  <2>2. cache[d].status \in Status /\ cache[d].spec.class \in ClassNames
    BY <2>1, SpecAssumption DEF Object, DistributionSpec
  <2> QED
    BY <2>1, <2>2 DEF Begin, Ignored, TypeOK
<1>2. status' \in Status
  BY <1>1, StatusTypes DEF Begin
<1>3. pc' \in Labels \ {"idle"} /\ Dispatched'
  BY <1>1 DEF Begin, FirstStep, FirstDeleteStep, Labels, ProviderLabels, Dispatched, Wants
<1>4. chaos' \in 0..MaxChaos
  BY PerturbTypes DEF Begin, TypeOK, AwsTypeOK
<1>5. queue' \subseteq Distros /\ current' \in BOOLEAN
  BY DEF Begin, TypeOK
<1>6. TypeOK'
  BY <1>1, <1>2, <1>3, <1>4, <1>5 DEF Begin, TypeOK, AwsTypeOK
<1> QED
  BY <1>3, <1>6

\* The end of a pass: nothing is in hand any more.
LEMMA FinishTypes ==
    ASSUME TypeOK, pc # "idle", NEW r, Finish(r)
    PROVE  /\ queue' \subseteq Distros
           /\ pc' = "idle" /\ current' \in BOOLEAN /\ status' \in Status
           /\ cert' \in Held /\ etag' \in BOOLEAN /\ failed' \in BOOLEAN
           /\ Dispatched'
BY IdleTypes DEF Finish, TypeOK, Dispatched, ProviderLabels

\* Setting the finalizer, kept in memory even when the write fails.
LEMMA AddFinalizerTypes ==
    ASSUME TypeInv, AddFinalizer
    PROVE  TypeInv'
<1> USE DEF TypeInv, apiVars, inputVars, awsVars
<1> DEFINE new == [copy EXCEPT !.finalizer = TRUE]
<1>1. key \in Distros /\ new \in Object /\ copy' = new
  BY DEF AddFinalizer, TypeOK, Object
<1>2. /\ obj' \in [Distros -> Object \cup {NoObject}]
      /\ cache' \in [Distros -> Object \cup {NoObject}]
      /\ synced' \in [Distros -> BOOLEAN]
  <2> HIDE DEF new
  <2>1. Write(key, new) \/ UNCHANGED <<obj, cache, synced>>
    BY DEF AddFinalizer, new
  <2>2. CASE Write(key, new)
    BY <2>2, <1>1, WriteTypes
  <2>3. CASE UNCHANGED <<obj, cache, synced>>
    BY <2>3 DEF TypeOK
  <2> QED
    BY <2>1, <2>2, <2>3
<1>3. chaos' \in 0..MaxChaos /\ current' \in BOOLEAN
  BY PerturbTypes DEF AddFinalizer, TypeOK, AwsTypeOK
<1>4. pc' \in Labels /\ Dispatched'
  BY DEF AddFinalizer, Labels, Dispatched, ProviderLabels
<1>5. TypeOK'
  BY <1>1, <1>2, <1>3, <1>4 DEF AddFinalizer, TypeOK, AwsTypeOK
<1> QED
  BY <1>4, <1>5

\* Resolving the certificate, possibly to one held since an earlier pass.
LEMMA ResolveTypes ==
    ASSUME TypeInv, Resolve
    PROVE  TypeInv'
<1> USE DEF TypeInv, apiVars, inputVars, awsVars
<1>1. /\ copy \in Object /\ copy.status \in Status
      /\ copy.spec.secret \in Secrets \cup {NoTLS}
  BY SpecAssumption DEF Resolve, TypeOK, Object, DistributionSpec
<1>2. ASSUME copy.spec.secret # NoTLS
      PROVE  Loaded(copy.spec.secret) \in Held
  BY <1>1, <1>2 DEF Loaded, TypeOK, Held
<1>3. NoSecret \in Held
  BY DEF NoSecret, Held, SecretValues
<1>4. held' \in Held /\ cert' \in Held
  BY <1>2, <1>3 DEF Resolve, TypeOK
<1>5. status' \in Status
  BY <1>1, StatusTypes DEF Resolve
<1>6. pc' \in Labels \ {"idle"} /\ Dispatched'
  BY DEF Resolve, FirstCertStep, Labels, Dispatched, ProviderLabels
<1>7. TypeOK'
  BY <1>4, <1>5, <1>6 DEF Resolve, TypeOK, AwsTypeOK
<1> QED
  BY <1>6, <1>7

\* What is fresh: a cache entry that is in step holds the object itself, and a copy
\* that is current agrees with it, but for a finalizer that was only added in memory.
Fresh ==
    /\ \A d \in Distros : synced[d] => cache[d] = obj[d]
    /\ pc # "idle" /\ current =>
         /\ Exists(key)
         /\ obj[key].spec = copy.spec
         /\ obj[key].status = copy.status
         /\ obj[key].deleting = copy.deleting

\* Writing the status leaves objects as well typed as it finds them.
LEMMA WriteStatusTypes ==
    ASSUME TypeOK, Fresh, pc # "idle", WriteStatus
    PROVE  /\ obj' \in [Distros -> Object \cup {NoObject}]
           /\ cache' \in [Distros -> Object \cup {NoObject}]
           /\ synced' \in [Distros -> BOOLEAN]
           /\ chaos' \in 0..MaxChaos
<1> DEFINE new == [obj[key] EXCEPT !.status = status]
<1>1. current => key \in Distros /\ new \in Object
  BY DEF TypeOK, Fresh, Exists, Object
<1>2. chaos' \in 0..MaxChaos
  BY PerturbTypes DEF WriteStatus, TypeOK, AwsTypeOK
<1> HIDE DEF new
<1>3. (current /\ Write(key, new)) \/ UNCHANGED apiVars
  BY DEF WriteStatus, new
<1>4. CASE current /\ Write(key, new)
  BY <1>1, <1>2, <1>4, WriteTypes
<1>5. CASE UNCHANGED apiVars
  BY <1>2, <1>5 DEF TypeOK, apiVars
<1> QED
  BY <1>3, <1>4, <1>5

\* The end of reconcileProviders or of deleteProviders.
LEMMA ReportTypes ==
    ASSUME TypeInv, Fresh, Report \/ ReportDeletion
    PROVE  TypeInv'
<1> USE DEF TypeInv, inputVars, awsVars
<1>1. pc # "idle" /\ WriteStatus
  BY DEF Report, ReportDeletion
<1>2. /\ obj' \in [Distros -> Object \cup {NoObject}]
      /\ cache' \in [Distros -> Object \cup {NoObject}]
      /\ synced' \in [Distros -> BOOLEAN]
      /\ chaos' \in 0..MaxChaos
  BY <1>1, WriteStatusTypes
<1>3. CASE \E r \in BOOLEAN : Finish(r)
  <2>1. PICK r \in BOOLEAN : Finish(r)
    BY <1>3
  <2>2. UNCHANGED <<cf, acm, class, secret, held>>
    BY DEF Report, ReportDeletion
  <2>3. /\ queue' \subseteq Distros
        /\ pc' = "idle" /\ current' \in BOOLEAN /\ status' \in Status
        /\ cert' \in Held /\ etag' \in BOOLEAN /\ failed' \in BOOLEAN
        /\ Dispatched'
    BY <1>1, <2>1, FinishTypes
  <2> QED
    BY <1>2, <2>2, <2>3 DEF TypeOK, AwsTypeOK, Labels
<1>4. CASE ReportDeletion /\ pc' = "unfinalize" /\ ~\E r \in BOOLEAN : Finish(r)
  <2>1. /\ UNCHANGED <<queue, key, copy, cls, cert, status, etag, failed>>
        /\ UNCHANGED <<cf, acm, class, secret, held>>
        /\ current' \in BOOLEAN
    BY <1>4 DEF ReportDeletion, TypeOK
  <2>2. TypeOK'
    BY <1>1, <1>2, <1>4, <2>1 DEF TypeOK, AwsTypeOK, Labels
  <2> QED
    BY <1>4, <2>2 DEF Dispatched, ProviderLabels
<1> QED
  BY <1>3, <1>4 DEF Report, ReportDeletion, Requeue

\* Removing the finalizer, and with it the object.
LEMMA UnfinalizeTypes ==
    ASSUME TypeInv, Unfinalize
    PROVE  TypeInv'
<1> USE DEF TypeInv, inputVars, awsVars
<1>1. pc # "idle" /\ key \in Distros
  BY DEF Unfinalize, TypeOK
<1>2. Write(key, NoObject) \/ UNCHANGED apiVars
  BY DEF Unfinalize
<1>3. /\ obj' \in [Distros -> Object \cup {NoObject}]
      /\ cache' \in [Distros -> Object \cup {NoObject}]
      /\ synced' \in [Distros -> BOOLEAN]
  <2>1. CASE Write(key, NoObject)
    BY <1>1, <2>1, WriteTypes
  <2>2. CASE UNCHANGED apiVars
    BY <2>2 DEF TypeOK, apiVars
  <2> QED
    BY <1>2, <2>1, <2>2
<1>4. chaos' \in 0..MaxChaos
  BY PerturbTypes DEF Unfinalize, TypeOK, AwsTypeOK
<1>5. Finish(failed) /\ UNCHANGED <<cf, acm, class, secret, held>>
  BY DEF Unfinalize
<1>6. /\ queue' \subseteq Distros
      /\ pc' = "idle" /\ current' \in BOOLEAN /\ status' \in Status
      /\ cert' \in Held /\ etag' \in BOOLEAN /\ failed' \in BOOLEAN
      /\ Dispatched'
  BY <1>1, <1>5, FinishTypes
<1> QED
  BY <1>3, <1>4, <1>5, <1>6 DEF TypeOK, AwsTypeOK, Labels

\* A restart, whatever brought it about.
LEMMA RestartTypes ==
    ASSUME TypeInv, Panic \/ Crash
    PROVE  TypeInv'
<1> USE DEF TypeInv, inputVars, awsVars
<1>1. Restarted /\ chaos' \in 0..MaxChaos
  BY PerturbTypes DEF Panic, Crash, TypeOK, AwsTypeOK
<1>2. /\ pc' = "idle" /\ current' \in BOOLEAN /\ status' \in Status
      /\ cert' \in Held /\ etag' \in BOOLEAN /\ failed' \in BOOLEAN
  BY <1>1, IdleTypes DEF Restarted
<1>3. held' \in Held
  BY <1>1 DEF Restarted, NoSecret, Held, SecretValues
<1> QED
  BY <1>1, <1>2, <1>3 DEF Restarted, TypeOK, AwsTypeOK, Labels, Dispatched, ProviderLabels

-----------------------------------------------------------------------------
(* So does every step of the world around it.                               *)

\* A user edits or deletes a Distribution in the middle of anything.
LEMMA UserTypes ==
    ASSUME TypeInv, NEW d \in Distros, EditSpec(d) \/ DeleteObject(d)
    PROVE  TypeInv'
<1> USE DEF TypeInv, inputVars, passVars
<1>1. obj[d] \in Object
  BY DEF EditSpec, DeleteObject, Exists, TypeOK
<1>2. PICK new \in Object \cup {NoObject} : UserWrites(d, new)
  <2>1. CASE EditSpec(d)
    <3>1. PICK t \in Specs : UserWrites(d, [obj[d] EXCEPT !.spec = t])
      BY <2>1 DEF EditSpec
    <3>2. [obj[d] EXCEPT !.spec = t] \in Object
      BY <1>1 DEF Object
    <3> QED
      BY <3>1, <3>2
  <2>2. CASE DeleteObject(d)
    <3>1. [obj[d] EXCEPT !.deleting = TRUE] \in Object
      BY <1>1 DEF Object
    <3> QED
      BY <2>2, <3>1 DEF DeleteObject
  <2> QED
    BY <2>1, <2>2
<1>3. chaos' \in 0..MaxChaos
  BY PerturbTypes DEF EditSpec, DeleteObject, TypeOK, AwsTypeOK
<1>4. /\ obj' \in [Distros -> Object \cup {NoObject}]
      /\ cache' \in [Distros -> Object \cup {NoObject}]
      /\ synced' \in [Distros -> BOOLEAN]
  BY <1>2, WriteTypes DEF UserWrites
<1>5. current' \in BOOLEAN
  BY <1>2 DEF UserWrites, Outdate, TypeOK
<1>6. UNCHANGED <<cf, acm, class, secret, pc, key, copy, cls, cert, status, etag, failed,
                  queue, held>>
  BY <1>2 DEF UserWrites, awsVars
<1> QED
  BY <1>3, <1>4, <1>5, <1>6 DEF TypeOK, AwsTypeOK, Dispatched

\* Watches, resyncs and changes of classes and secrets.
LEMMA WakeTypes ==
    ASSUME TypeInv,
           \/ \E d \in Distros : Skip(d) \/ Sync(d) \/ Resync(d)
           \/ \E k \in ClassNames : ClassChange(k)
           \/ \E n \in Secrets : SecretChange(n)
    PROVE  TypeInv'
<1> USE DEF TypeInv, inputVars, passVars, apiVars
<1>1. chaos' \in 0..MaxChaos
  BY PerturbTypes DEF Skip, Sync, Resync, ClassChange, SecretChange, TypeOK, AwsTypeOK
<1>2. /\ class' \in [ClassNames -> ClassValues]
      /\ secret' \in [Secrets -> SecretValues]
  BY DEF Skip, Sync, Resync, ClassChange, SecretChange, TypeOK
<1>3. /\ cache' \in [Distros -> Object \cup {NoObject}]
      /\ synced' \in [Distros -> BOOLEAN]
  BY DEF Skip, Sync, Resync, ClassChange, SecretChange, TypeOK
<1>4. queue' \subseteq Distros
  BY DEF Skip, Sync, Resync, ClassChange, SecretChange, TypeOK
<1>5. UNCHANGED <<obj, cf, acm, pc, key, copy, cls, cert, status, etag, failed, current,
                  held>>
  BY DEF Skip, Sync, Resync, ClassChange, SecretChange, awsVars
<1> QED
  BY <1>1, <1>2, <1>3, <1>4, <1>5 DEF TypeOK, AwsTypeOK, Dispatched

\* What AWS and its other clients do.
LEMMA AwsTypes ==
    ASSUME TypeInv, Meddle \/ \E i \in CfIds : Rollout(i)
    PROVE  TypeInv'
<1> USE DEF TypeInv, othersVars, inputVars, passVars, apiVars
<1>1. UNCHANGED <<obj, cache, synced, class, secret, queue, current, held>>
  BY DEF Meddle, Rollout
<1>2. /\ UNCHANGED <<pc, key, copy, cls, cert, status, failed>>
      /\ etag' \in BOOLEAN
  BY DEF Meddle, Rollout, TypeOK
<1>3. chaos' \in 0..MaxChaos
  BY PerturbTypes DEF Meddle, Rollout, Deploy, Drift, Destroy, DestroyCert, TypeOK, AwsTypeOK
<1>4. acm' \in [Arns -> Serials \cup {"unused", "gone"}]
  BY DEF Meddle, Rollout, Deploy, Drift, Destroy, DestroyCert, TypeOK, AwsTypeOK
<1>5. cf' \in [CfIds -> CfRecord]
  <2>1. cf \in [CfIds -> CfRecord]
    BY DEF TypeOK, AwsTypeOK
  <2>2. ASSUME NEW i \in CfIds, NEW p \in Phases
        PROVE  [cf[i] EXCEPT !.phase = p] \in CfRecord
    BY <2>1 DEF CfRecord
  <2>3. ASSUME NEW i \in CfIds, NEW on \in BOOLEAN
        PROVE  [cf[i] EXCEPT !.phase = "InProgress", !.enabled = on, !.config = NoConfig]
                 \in CfRecord
    BY <2>1 DEF CfRecord, CfConfig, Phases
  <2>4. ASSUME NEW i \in CfIds, Deploy(i) PROVE cf' \in [CfIds -> CfRecord]
    BY <2>1, <2>2, <2>4 DEF Deploy, Phases
  <2>5. ASSUME NEW i \in CfIds, Drift(i) PROVE cf' \in [CfIds -> CfRecord]
    BY <2>1, <2>3, <2>5 DEF Drift
  <2>6. ASSUME NEW i \in CfIds, Destroy(i) PROVE cf' \in [CfIds -> CfRecord]
    BY <2>1, <2>2, <2>6 DEF Destroy, Phases
  <2> QED
    BY <2>1, <2>4, <2>5, <2>6 DEF Meddle, Rollout, DestroyCert
<1> QED
  BY <1>1, <1>2, <1>3, <1>4, <1>5 DEF TypeOK, AwsTypeOK, Dispatched

-----------------------------------------------------------------------------
(* What the worker holds stays fresh until somebody else writes.            *)

\* A write by the worker or by a user takes the object's cache entry out of step.
LEMMA WriteFresh ==
    ASSUME TypeOK, Fresh, NEW d \in Distros, NEW new, Write(d, new)
    PROVE  \A e \in Distros : synced'[e] => cache'[e] = obj'[e]
BY DEF TypeOK, Fresh, Write

\* At the end of a pass nothing is claimed of a copy.
LEMMA FinishFresh ==
    ASSUME TypeOK, Fresh, pc # "idle", IdleAgain, WriteStatus \/ Unfinalize
    PROVE  Fresh'
<1>1. (\E new : Write(key, new)) \/ UNCHANGED apiVars
  BY DEF WriteStatus, Unfinalize
<1>2. key \in Distros
  BY DEF TypeOK
<1>3. \A d \in Distros : synced'[d] => cache'[d] = obj'[d]
  BY <1>1, <1>2, WriteFresh DEF Fresh, apiVars
<1> QED
  BY <1>3 DEF IdleAgain, Fresh

\* Freshness is kept by every step.
LEMMA FreshStep ==
    ASSUME TypeInv, Fresh, Next
    PROVE  Fresh'
<1> USE DEF TypeInv, apiVars
<1>1. ASSUME NEW d \in Distros, Begin(d) PROVE Fresh'
  BY <1>1 DEF Begin, Ignored, Fresh, Exists
<1>2. ASSUME AddFinalizer PROVE Fresh'
  <2>1. /\ key \in Distros /\ pc # "idle" /\ copy \in Object
        /\ key' = key /\ copy' = [copy EXCEPT !.finalizer = TRUE]
    BY <1>2 DEF AddFinalizer, TypeOK
  <2>2. /\ copy'.spec = copy.spec /\ copy'.status = copy.status
        /\ copy'.deleting = copy.deleting
    BY <2>1 DEF Object
  <2>3. CASE Write(key, [copy EXCEPT !.finalizer = TRUE])
    <3>1. \A e \in Distros : synced'[e] => cache'[e] = obj'[e]
      BY <2>1, <2>3, WriteFresh
    <3>2. [copy EXCEPT !.finalizer = TRUE] \in Object
      BY <2>1 DEF Object
    <3>3. obj'[key] = copy' /\ obj'[key] # NoObject
      BY <2>1, <2>3, <3>2, SpecAssumption DEF Write, TypeOK
    <3> QED
      BY <3>1, <3>3, <2>1 DEF Fresh, Exists
  <2>4. CASE UNCHANGED <<apiVars, current>>
    BY <2>1, <2>2, <2>4 DEF Fresh, Exists
  <2> QED
    BY <1>2, <2>3, <2>4 DEF AddFinalizer
<1>3. ASSUME Report \/ Unfinalize PROVE Fresh'
  BY <1>3, FinishFresh DEF Report, Unfinalize, Finish
<1>4. ASSUME ReportDeletion PROVE Fresh'
  <2>1. CASE IdleAgain
    BY <1>4, <2>1, FinishFresh DEF ReportDeletion
  <2>2. CASE /\ pc' = "unfinalize" /\ UNCHANGED <<key, copy>>
             /\ current' = (current /\ obj' = obj)
    <3>1. key \in Distros /\ pc # "idle"
      BY <1>4 DEF ReportDeletion, TypeOK
    <3>2. (\E new : Write(key, new)) \/ UNCHANGED apiVars
      BY <1>4 DEF ReportDeletion, WriteStatus
    <3>3. \A d \in Distros : synced'[d] => cache'[d] = obj'[d]
      BY <3>1, <3>2, WriteFresh DEF Fresh
    <3> QED
      BY <2>2, <3>1, <3>3 DEF Fresh, Exists
  <2> QED
    BY <1>4, <2>1, <2>2 DEF ReportDeletion, Finish
<1>5. ASSUME Panic \/ Crash PROVE Fresh'
  BY <1>5 DEF Panic, Crash, Restarted, IdleAgain, Fresh
<1>6. ASSUME NEW d \in Distros, EditSpec(d) \/ DeleteObject(d) PROVE Fresh'
  <2>1. PICK new : UserWrites(d, new)
    BY <1>6 DEF EditSpec, DeleteObject
  <2>2. \A e \in Distros : synced'[e] => cache'[e] = obj'[e]
    BY <2>1, WriteFresh DEF UserWrites
  <2>3. ASSUME pc' # "idle", current'
        PROVE  /\ Exists(key)' /\ obj'[key'].spec = copy'.spec
               /\ obj'[key'].status = copy'.status /\ obj'[key'].deleting = copy'.deleting
    BY <2>1, <2>3 DEF UserWrites, Outdate, Write, TypeOK, Fresh, Exists, passVars
  <2> QED
    BY <2>2, <2>3 DEF Fresh
<1>7. ASSUME NEW d \in Distros, Sync(d) PROVE Fresh'
  BY <1>7 DEF Sync, Fresh, Exists, TypeOK, passVars
<1>8. ASSUME UNCHANGED <<apiVars, pc, key, copy, current>> PROVE Fresh'
  BY <1>8 DEF Fresh, Exists
<1>9. ASSUME \/ \E d \in Distros : Skip(d) \/ Resync(d)
             \/ \E k \in ClassNames : ClassChange(k)
             \/ \E n \in Secrets : SecretChange(n)
             \/ \E i \in CfIds : Rollout(i)
             \/ Meddle
      PROVE  Fresh'
  BY <1>8, <1>9 DEF Skip, Resync, ClassChange, SecretChange, Rollout, Meddle, passVars,
                    othersVars
<1>10. ASSUME UNCHANGED <<apiVars, key, copy, current>>, pc # "idle" PROVE Fresh'
  BY <1>10 DEF Fresh, Exists
<1>11. ASSUME Resolve PROVE Fresh'
  BY <1>10, <1>11 DEF Resolve
<1>12. ASSUME ProviderStep, UNCHANGED <<apiVars, inputVars, queue, current, held>>
       PROVE  Fresh'
  <2>1. pc # "idle" /\ UNCHANGED given
    BY <1>12 DEF ProviderStep, Describe, Import, DeleteCert, Load, Create, Update, Disable,
                 DeleteCf, Put
  <2> QED
    BY <2>1, <1>10, <1>12 DEF given
<1> QED
  BY <1>1, <1>2, <1>3, <1>4, <1>5, <1>6, <1>7, <1>9, <1>11, <1>12
  DEF Next, Work, Stretch, Environment

-----------------------------------------------------------------------------
(* Type correctness.                                                        *)

\* Every step keeps the types, given that what the worker holds is fresh.
LEMMA TypeStep ==
    ASSUME TypeInv, Fresh, Next
    PROVE  TypeInv'
<1>1. ASSUME Work PROVE TypeInv'
  BY <1>1, ProviderTypes, AddFinalizerTypes, ResolveTypes, ReportTypes, UnfinalizeTypes,
     RestartTypes DEF Work, Stretch, othersVars
<1>2. ASSUME Environment PROVE TypeInv'
  BY <1>2, UserTypes, WakeTypes, AwsTypes, RestartTypes DEF Environment
<1> QED
  BY <1>1, <1>2, BeginTypes, WakeTypes DEF Next

\* A stuttering step keeps everything.
LEMMA Stutter ==
    ASSUME UNCHANGED vars, TypeInv, Fresh
    PROVE  TypeInv' /\ Fresh'
<1> USE DEF vars, awsVars, apiVars, inputVars, workerVars, passVars
<1>1. TypeOK'
  BY DEF TypeInv, TypeOK, AwsTypeOK
<1>2. Dispatched' /\ Fresh'
  BY DEF TypeInv, Dispatched, Fresh, Exists
<1> QED
  BY <1>1, <1>2 DEF TypeInv

\* The system starts well typed and with nothing in hand.
LEMMA InitTypes ==
    ASSUME Init
    PROVE  TypeInv /\ Fresh
<1>1. EmptyStatus \in Status /\ NoSecret \in Held
  BY DEF EmptyStatus, Status, NoSecret, Held, SecretValues
<1>2. \A s \in Specs : [spec |-> s, deleting |-> FALSE, finalizer |-> FALSE,
                        status |-> EmptyStatus] \in Object
  BY <1>1 DEF Object
<1>3. obj \in [Distros -> Object \cup {NoObject}]
  BY <1>2 DEF Init
<1>4. UnusedCf \in CfRecord
  BY DEF UnusedCf, CfRecord, CfConfig, Phases
<1>5. AwsTypeOK
  BY <1>4, QuotaAssumption DEF Init, AwsInit, AwsTypeOK
<1>6. TypeOK
  BY <1>1, <1>3, <1>5 DEF Init, TypeOK, ClassValues, SecretValues, Labels
<1>7. Dispatched /\ Fresh
  BY DEF Init, Dispatched, ProviderLabels, Fresh
<1> QED
  BY <1>6, <1>7 DEF TypeInv

\* The inductive invariant behind the theorems: the types, the provider only at work
\* for a class that wants it, and freshness of what the worker holds.
THEOREM Invariance == Spec => [](TypeInv /\ Fresh)
<1>1. Init => TypeInv /\ Fresh
  BY InitTypes
<1>2. TypeInv /\ Fresh /\ [Next]_vars => (TypeInv /\ Fresh)'
  BY TypeStep, FreshStep, Stutter
<1> QED
  BY <1>1, <1>2, PTL DEF Spec

\* Every variable always holds what the code's types and the API's schema allow: no
\* step of the controller, of a user or of AWS makes an object, a status or a
\* configuration that is none.
THEOREM TypeCorrect == Spec => []TypeOK
BY Invariance, PTL DEF TypeInv

\* What any step may do to a distribution's life: it keeps the owner of a live one, and
\* makes one alive only by Create, for an owner that has none.
LEMMA LifeStep ==
    ASSUME TypeInv, Next, NEW i \in CfIds, Live(i)'
    PROVE  \/ Live(i) /\ cf'[i].ref = cf[i].ref
           \/ /\ Owned(key) = {} /\ cf'[i].ref = key
              /\ \A j \in CfIds \ {i} : cf'[j] = cf[j]
<1> USE DEF TypeInv
<1>1. cf \in [CfIds -> CfRecord]
  BY DEF TypeOK, AwsTypeOK
<1>2. CASE cf' = cf
  BY <1>2 DEF Live
<1>3. CASE Create
  <2>1. PICK j \in CfIds :
          /\ Owned(key) = {}
          /\ cf' = [cf EXCEPT ![j] =
                      [phase |-> "InProgress", ref |-> key, enabled |-> TRUE,
                       config |-> Desired(copy.spec, cls), arn |-> status.arn]]
       \/ cf' = cf
    BY <1>3 DEF Create, Clashes
  <2>2. CASE j = i /\ cf' # cf
    BY <1>1, <2>1, <2>2
  <2>3. CASE j # i \/ cf' = cf
    BY <1>1, <2>1, <2>3 DEF Live
  <2> QED
    BY <2>2, <2>3
<1>4. ASSUME NEW c, NEW on, NEW a, Put(c, on, a)
      PROVE  Live(i) /\ cf'[i].ref = cf[i].ref
  <2>1. CASE i = status.id /\ cf' # cf
    BY <1>1, <1>4, <2>1 DEF Put, Live, CfRecord
  <2>2. CASE i # status.id \/ cf' = cf
    BY <1>1, <1>4, <2>2 DEF Put, Live
  <2> QED
    BY <2>1, <2>2
<1>5. CASE DeleteCf
  <2>1. CASE i = status.id /\ cf' # cf
    BY <1>1, <1>5, <2>1 DEF DeleteCf, Live, CfRecord
  <2>2. CASE i # status.id \/ cf' = cf
    BY <1>1, <1>5, <2>2 DEF DeleteCf, Live
  <2> QED
    BY <2>1, <2>2
<1>6. CASE \E j \in CfIds : Deploy(j) \/ Drift(j) \/ Destroy(j)
  <2>1. PICK j \in CfIds : Deploy(j) \/ Drift(j) \/ Destroy(j)
    BY <1>6
  <2>2. CASE i # j
    BY <1>1, <2>1, <2>2 DEF Deploy, Drift, Destroy, Live
  <2>3. CASE i = j
    BY <1>1, <2>1, <2>3 DEF Deploy, Drift, Destroy, Live, CfRecord
  <2> QED
    BY <2>2, <2>3
<1>7. CASE Work
  BY <1>2, <1>3, <1>4, <1>5, <1>7
  DEF Work, Stretch, AddFinalizer, Resolve, Report, ReportDeletion, Unfinalize, Panic, Restarted,
      ProviderStep, Describe, Import, DeleteCert, Load, Update, Disable, awsVars
<1>8. CASE Environment
  BY <1>2, <1>6, <1>8
  DEF Environment, EditSpec, DeleteObject, UserWrites, Sync, Resync, ClassChange,
      SecretChange, Rollout, Meddle, DestroyCert, Crash, Restarted, awsVars
<1>9. CASE \E d \in Distros : Begin(d) \/ Skip(d)
  BY <1>2, <1>9 DEF Begin, Skip, awsVars
<1> QED
  BY <1>7, <1>8, <1>9 DEF Next

\* No step makes a second one.
LEMMA SingleStep ==
    ASSUME TypeInv, OneDistributionPerResource, Next
    PROVE  OneDistributionPerResource'
<1> SUFFICES ASSUME NEW i \in CfIds, NEW j \in CfIds,
                    Live(i)', Live(j)', cf'[i].ref = cf'[j].ref, i # j
             PROVE  FALSE
  BY DEF OneDistributionPerResource
<1>1. CASE Live(i) /\ cf'[i].ref = cf[i].ref /\ Live(j) /\ cf'[j].ref = cf[j].ref
  BY <1>1 DEF OneDistributionPerResource
<1>2. ASSUME NEW x \in CfIds, NEW y \in CfIds, x # y, cf'[x].ref = cf'[y].ref, Live(y)',
             Owned(key) = {}, cf'[x].ref = key, \A z \in CfIds \ {x} : cf'[z] = cf[z]
      PROVE  FALSE
  BY <1>2 DEF Owned, Live
<1> QED
  BY <1>1, <1>2, LifeStep

\* Whatever fails and is repeated, CloudFront never has two live distributions for one
\* resource: the UID as caller reference makes CreateDistribution idempotent.
THEOREM NoDuplicates == Spec => []OneDistributionPerResource
<1>1. Init => OneDistributionPerResource
  BY DEF Init, AwsInit, UnusedCf, OneDistributionPerResource, Live
<1>2. TypeInv /\ OneDistributionPerResource /\ [Next]_vars => OneDistributionPerResource'
  <2>1. ASSUME UNCHANGED vars, OneDistributionPerResource PROVE OneDistributionPerResource'
    BY <2>1 DEF vars, awsVars, OneDistributionPerResource, Live
  <2> QED
    BY <2>1, SingleStep
<1> QED
  BY <1>1, <1>2, Invariance, PTL DEF Spec
=============================================================================
