--------------------------- MODULE TwoManagersProofs ---------------------------
(***************************************************************************)
(* What is proved of one manager in DistributionSafetyProofs and           *)
(* DistributionWakeupProofs holds of two that do not know of each other.   *)
(* Each step is a step of one of them, or of both; what is left to show is *)
(* that a step of one keeps the invariants of the other, that the two      *)
(* never name the same certificate for different Distributions, and that   *)
(* what one changes under the other it looks after itself.                 *)
(***************************************************************************)
EXTENDS TwoManagers, TLAPS

\* A certificate that one manager has recorded for a Distribution the other has not
\* recorded for another one.
Joint == \A a \in Arns, d \in Distros : \A e \in Distros \ {d} :
            ~(M1!NamesCert(d, a) /\ M2!NamesCert(e, a))

BInv == M1!IInv /\ M2!IInv /\ Joint /\ OnlyOneForBoth

\* What a step of one manager does to the memory of the other.
Beside1 == /\ synced1' = StillSynced(synced1)
           /\ current1' = StillCurrent(current1, key1)
           /\ etag1' \in BOOLEAN
           /\ UNCHANGED memory1
Beside2 == /\ synced2' = StillSynced(synced2)
           /\ current2' = StillCurrent(current2, key2)
           /\ etag2' \in BOOLEAN
           /\ UNCHANGED memory2

names1 == <<cache1, pc1, key1, copy1, status1>>
names2 == <<cache2, pc2, key2, copy2, status2>>

-----------------------------------------------------------------------------
(* What DistributionSafetyProofs says of each.                              *)

\* The constants of the two instances are the same sets.
LEMMA Names == /\ M1!CfIds = CfIds /\ M1!Arns = Arns /\ M1!Kinds = Kinds
               /\ M2!CfIds = CfIds /\ M2!Arns = Arns /\ M2!Kinds = Kinds
               /\ M2!DistributionSpec = M1!DistributionSpec /\ M2!Object = M1!Object
<1>1. M2!DistributionSpec = M1!DistributionSpec
  BY DEF M1!DistributionSpec, M2!DistributionSpec
<1>2. M2!Status = M1!Status
  BY DEF M1!Status, M2!Status, M1!CfIds, M2!CfIds, M1!Arns, M2!Arns
<1> QED
  BY <1>1, <1>2
  DEF CfIds, Arns, Kinds, M1!CfIds, M1!Arns, M1!Kinds, M2!CfIds, M2!Arns, M2!Kinds,
      M1!Object, M2!Object

\* One manager keeps its own invariant.
LEMMA Invariant1 ==
    ASSUME M1!IInv, M1!Next
    PROVE  M1!IInv'
BY M1!RecordsStep, QuotaAssumption, SerialAssumption, ChaosAssumption, ManagersAssumption,
   Names
DEF M1!IsFiniteSet, IsFiniteSet

\* One manager forgets, lets go and tears down only what it may.
LEMMA Acts1 ==
    ASSUME M1!IInv, M1!Next
    PROVE  M1!ForgetDead /\ M1!UnfinalizeWhenGone /\ M1!TurnOffDoomed
BY M1!ForgetStep, M1!UnfinalizeSafe, M1!TurnOffSafe,
   QuotaAssumption, SerialAssumption, ChaosAssumption, ManagersAssumption,
   Names
DEF M1!IsFiniteSet, IsFiniteSet

\* One manager makes no second distribution for a resource.
LEMMA Single1 ==
    ASSUME M1!IInv, M1!Next, OnlyOneForBoth
    PROVE  OnlyOneForBoth'
BY M1!SingleStep, QuotaAssumption, SerialAssumption, ChaosAssumption, ManagersAssumption,
   Names
DEF M1!IsFiniteSet, IsFiniteSet, M1!IInv, OnlyOneForBoth

\* AWS takes no owner back, nor an end, whichever manager acts.
LEMMA Aws1 ==
    ASSUME M1!IInv, M1!Next
    PROVE  /\ \A i \in CfIds : cf[i].phase # "unused" =>
                 /\ cf'[i].phase # "unused" /\ cf'[i].ref = cf[i].ref
                 /\ cf[i].phase = "gone" => cf'[i].phase = "gone"
           /\ \A a \in Arns : acm[a] # "unused" =>
                 acm'[a] # "unused" /\ (acm[a] = "gone" => acm'[a] = "gone")
BY M1!CfStep, M1!AcmStep, QuotaAssumption, SerialAssumption, ChaosAssumption, ManagersAssumption,
   Names
DEF M1!IsFiniteSet, IsFiniteSet, M1!IInv

\* An object does not come back, and a deletion is not taken back.
LEMMA Deleting1 ==
    ASSUME M1!IInv, M1!Next, NEW d \in Distros, obj'[d] # NoObject
    PROVE  obj[d] # NoObject /\ (obj[d].deleting => obj'[d].deleting)
BY M1!DeletionStays, QuotaAssumption, SerialAssumption, ChaosAssumption, ManagersAssumption,
   Names
DEF M1!IsFiniteSet, IsFiniteSet, M1!IInv, M1!Exists

\* A certificate newly recorded by one manager is new at ACM.
LEMMA Kept1 ==
    ASSUME M1!IInv, M1!Next, NEW d \in Distros, NEW a \in Arns, M1!NamesCert(d, a)'
    PROVE  M1!NamesCert(d, a) \/ acm[a] = "unused"
BY M1!NamesStep, QuotaAssumption, SerialAssumption, ChaosAssumption, ManagersAssumption,
   Names
DEF M1!IsFiniteSet, IsFiniteSet, M1!IInv, M1!NamesKept

\* One manager keeps its own invariant.
LEMMA Invariant2 ==
    ASSUME M2!IInv, M2!Next
    PROVE  M2!IInv'
BY M2!RecordsStep, QuotaAssumption, SerialAssumption, ChaosAssumption, ManagersAssumption,
   Names
DEF M2!IsFiniteSet, IsFiniteSet

\* One manager forgets, lets go and tears down only what it may.
LEMMA Acts2 ==
    ASSUME M2!IInv, M2!Next
    PROVE  M2!ForgetDead /\ M2!UnfinalizeWhenGone /\ M2!TurnOffDoomed
BY M2!ForgetStep, M2!UnfinalizeSafe, M2!TurnOffSafe,
   QuotaAssumption, SerialAssumption, ChaosAssumption, ManagersAssumption,
   Names
DEF M2!IsFiniteSet, IsFiniteSet

\* One manager makes no second distribution for a resource.
LEMMA Single2 ==
    ASSUME M2!IInv, M2!Next, OnlyOneForBoth
    PROVE  OnlyOneForBoth'
BY M2!SingleStep, QuotaAssumption, SerialAssumption, ChaosAssumption, ManagersAssumption,
   Names
DEF M2!IsFiniteSet, IsFiniteSet, M2!IInv, OnlyOneForBoth,
    M1!OneDistributionPerResource, M1!Live, M2!OneDistributionPerResource, M2!Live

\* AWS takes no owner back, nor an end, whichever manager acts.
LEMMA Aws2 ==
    ASSUME M2!IInv, M2!Next
    PROVE  /\ \A i \in CfIds : cf[i].phase # "unused" =>
                 /\ cf'[i].phase # "unused" /\ cf'[i].ref = cf[i].ref
                 /\ cf[i].phase = "gone" => cf'[i].phase = "gone"
           /\ \A a \in Arns : acm[a] # "unused" =>
                 acm'[a] # "unused" /\ (acm[a] = "gone" => acm'[a] = "gone")
BY M2!CfStep, M2!AcmStep, QuotaAssumption, SerialAssumption, ChaosAssumption, ManagersAssumption,
   Names
DEF M2!IsFiniteSet, IsFiniteSet, M2!IInv

\* An object does not come back, and a deletion is not taken back.
LEMMA Deleting2 ==
    ASSUME M2!IInv, M2!Next, NEW d \in Distros, obj'[d] # NoObject
    PROVE  obj[d] # NoObject /\ (obj[d].deleting => obj'[d].deleting)
BY M2!DeletionStays, QuotaAssumption, SerialAssumption, ChaosAssumption, ManagersAssumption,
   Names
DEF M2!IsFiniteSet, IsFiniteSet, M2!IInv, M2!Exists

\* A certificate newly recorded by one manager is new at ACM.
LEMMA Kept2 ==
    ASSUME M2!IInv, M2!Next, NEW d \in Distros, NEW a \in Arns, M2!NamesCert(d, a)'
    PROVE  M2!NamesCert(d, a) \/ acm[a] = "unused"
BY M2!NamesStep, QuotaAssumption, SerialAssumption, ChaosAssumption, ManagersAssumption,
   Names
DEF M2!IsFiniteSet, IsFiniteSet, M2!IInv, M2!NamesKept

\* What a manager's own step keeps: what it knows, and whether a Distribution is assured.
LEMMA Own1 ==
    ASSUME M1!IInv, M1!LiveCert, M1!Undisturbed, M1!Next
    PROVE  /\ M1!LiveCert'
           /\ \A d \in Distros : M1!Marked(d) =>
                /\ M1!Marked(d)'
                /\ M1!Handy(d) => M1!Handy(d)'
                /\ M1!Assured(d) => M1!Assured(d)'
BY M1!LiveCertStep, M1!MarkedStep, M1!HandyStep, M1!AssuredStep,
   QuotaAssumption, SerialAssumption, ChaosAssumption, ManagersAssumption, Names
DEF M1!IsFiniteSet, IsFiniteSet, M1!IInv

\* A pass that has changed something at AWS is at work on, and claims nothing false of, its key.
LEMMA Change1 ==
    ASSUME M1!IInv, M1!Work, awsVars' # awsVars
    PROVE  M1!Earned' /\ \E d \in Distros : M1!Busy(d) /\ M1!Busy(d)'
BY M1!ChangeBusy, QuotaAssumption, SerialAssumption, ChaosAssumption, ManagersAssumption, Names
DEF M1!IsFiniteSet, IsFiniteSet, M1!IInv, M1!awsVars, awsVars, M1!Busy

\* What a manager's own step keeps: what it knows, and whether a Distribution is assured.
LEMMA Own2 ==
    ASSUME M2!IInv, M2!LiveCert, M2!Undisturbed, M2!Next
    PROVE  /\ M2!LiveCert'
           /\ \A d \in Distros : M2!Marked(d) =>
                /\ M2!Marked(d)'
                /\ M2!Handy(d) => M2!Handy(d)'
                /\ M2!Assured(d) => M2!Assured(d)'
BY M2!LiveCertStep, M2!MarkedStep, M2!HandyStep, M2!AssuredStep,
   QuotaAssumption, SerialAssumption, ChaosAssumption, ManagersAssumption, Names
DEF M2!IsFiniteSet, IsFiniteSet, M2!IInv

\* A pass that has changed something at AWS is at work on, and claims nothing false of, its key.
LEMMA Change2 ==
    ASSUME M2!IInv, M2!Work, awsVars' # awsVars
    PROVE  M2!Earned' /\ \E d \in Distros : M2!Busy(d) /\ M2!Busy(d)'
BY M2!ChangeBusy, QuotaAssumption, SerialAssumption, ChaosAssumption, ManagersAssumption, Names
DEF M2!IsFiniteSet, IsFiniteSet, M2!IInv, M2!awsVars, awsVars, M2!Busy

-----------------------------------------------------------------------------
(* What a step of one manager leaves the other.                            *)

\* While one manager acts and the other one's memory stays, they keep apart.
LEMMA Joint1 ==
    ASSUME M1!IInv, M2!IInv, Joint, M1!Next, UNCHANGED names2
    PROVE  Joint'
<1> SUFFICES ASSUME NEW a \in Arns, NEW d \in Distros, NEW e \in Distros \ {d},
                    M1!NamesCert(d, a)', M2!NamesCert(e, a)'
             PROVE  FALSE
  BY DEF Joint
<1>1. M1!NamesCert(e, a)' \/ M2!NamesCert(e, a)
  BY DEF M1!NamesCert, M2!NamesCert, M1!Exists, M2!Exists, names2
<1>2. CASE M1!NamesCert(e, a)'
  BY <1>2, Invariant1, Names DEF M1!IInv, M1!Recorded
<1>3. CASE M2!NamesCert(e, a)
  <2>1. acm[a] # "unused"
    BY <1>3, Names DEF M2!IInv, M2!Recorded
  <2>2. M1!NamesCert(d, a)
    BY <2>1, Kept1
  <2> QED
    BY <1>3, <2>2 DEF Joint
<1> QED
  BY <1>1, <1>2, <1>3

\* What a manager takes its cache and its copy for stays true when the other one writes.
LEMMA Fresh1 ==
    ASSUME M1!IInv, M2!IInv, M1!Next, Beside2
    PROVE  M2!TypeInv' /\ M2!Fresh'
<1>1. M1!TypeInv'
  BY Invariant1 DEF M1!IInv
<1>2. M2!TypeOK
  BY DEF M2!IInv, M2!TypeInv
<1>3. synced2' \in [Distros -> BOOLEAN] /\ current2' \in BOOLEAN
  BY <1>2 DEF Beside2, StillSynced, StillCurrent, M2!TypeOK
<1>4. /\ cf' \in [CfIds -> M2!CfRecord]
      /\ acm' \in [Arns -> Serials \cup {"unused", "gone"}]
      /\ chaos' \in 0..MaxChaos
      /\ obj' \in [Distros -> M2!Object \cup {NoObject}]
      /\ class' \in [ClassNames -> M2!ClassValues]
      /\ secret' \in [Secrets -> M2!SecretValues]
  BY <1>1, Names DEF M1!TypeInv, M1!TypeOK, M1!AwsTypeOK, M1!CfRecord, M1!Phases, M1!CfConfig,
     M1!Object, M1!Status, M1!ClassValues, M1!SecretValues, M2!CfRecord, M2!Phases,
     M2!CfConfig, M2!Object, M2!Status, M2!ClassValues, M2!SecretValues
<1>5. M2!TypeOK'
  BY <1>2, <1>3, <1>4, Names DEF Beside2, memory2, M2!TypeOK, M2!AwsTypeOK
<1>6. M2!Dispatched'
  BY DEF M2!IInv, M2!TypeInv, M2!Dispatched, M2!Wants, Beside2, memory2
<1>7. M2!Fresh'
  BY DEF M2!IInv, M2!Fresh, M2!Exists, Beside2, memory2, StillSynced, StillCurrent
<1> QED
  BY <1>5, <1>6, <1>7 DEF M2!TypeInv

\* A step of one manager keeps the invariant of the other: what this one has recorded,
\* let go of or taken for deleted is not undone.
LEMMA Across1 ==
    ASSUME M1!IInv, M2!IInv, Joint, M1!Next, Beside2
    PROVE  M2!IInv'
<1>1. M2!TypeInv' /\ M2!Fresh'
  BY Fresh1
<1>2. UNCHANGED names2
  BY DEF Beside2, memory2, names2
<1>3. M2!Recorded'
  <2>1. ASSUME NEW d \in Distros, NEW i \in CfIds, M2!NamesCf(d, i)'
        PROVE  cf'[i].phase # "unused" /\ cf'[i].ref = d
    <3>1. M1!NamesCf(d, i)' \/ M2!NamesCf(d, i)
      BY <1>2, <2>1 DEF M1!NamesCf, M2!NamesCf, M1!Exists, M2!Exists, names2
    <3>2. CASE M1!NamesCf(d, i)'
      BY <3>2, Invariant1, Names DEF M1!IInv, M1!Recorded
    <3>3. CASE M2!NamesCf(d, i)
      BY <3>3, Aws1, Names DEF M2!IInv, M2!Recorded
    <3> QED
      BY <3>1, <3>2, <3>3
  <2>2. ASSUME NEW d \in Distros, NEW a \in Arns, M2!NamesCert(d, a)'
        PROVE  acm'[a] # "unused" /\ \A e \in Distros \ {d} : ~M2!NamesCert(e, a)'
    <3>1. \A e \in Distros : M2!NamesCert(e, a)' => M1!NamesCert(e, a)' \/ M2!NamesCert(e, a)
      BY <1>2 DEF M1!NamesCert, M2!NamesCert, M1!Exists, M2!Exists, names2
    <3>2. acm'[a] # "unused"
      <4>1. CASE M1!NamesCert(d, a)'
        BY <4>1, Invariant1, Names DEF M1!IInv, M1!Recorded
      <4>2. CASE M2!NamesCert(d, a)
        BY <4>2, Aws1, Names DEF M2!IInv, M2!Recorded
      <4> QED
        BY <2>2, <3>1, <4>1, <4>2
    <3>3. ASSUME NEW e \in Distros \ {d}, M2!NamesCert(e, a)'
          PROVE  FALSE
      <4>1. Joint'
        BY <1>2, Joint1
      <4>2. ~M1!NamesCert(d, a)' /\ ~M1!NamesCert(e, a)'
        BY <2>2, <3>3, <4>1 DEF Joint
      <4>3. M2!NamesCert(d, a) /\ M2!NamesCert(e, a)
        BY <2>2, <3>1, <3>3, <4>2
      <4> QED
        BY <4>3, Names DEF M2!IInv, M2!Recorded
    <3> QED
      BY <3>2, <3>3
  <2> QED
    BY <2>1, <2>2, Names DEF M2!Recorded
<1>4. M2!Remembered'
  <2>1. CASE pc2 = "idle"
    BY <1>2, <2>1 DEF M2!Remembered, names2
  <2>2. CASE pc2 # "idle"
    <3>1. copy2.status.id \in CfIds \cup {0} /\ copy2.status.arn \in Arns \cup {0}
      BY <2>2, Names DEF M2!IInv, M2!TypeInv, M2!TypeOK, M2!Object, M2!Status
    <3>2. /\ M2!GoneCf(copy2.status.id) => M2!GoneCf(copy2.status.id)'
          /\ M2!GoneCert(copy2.status.arn) => M2!GoneCert(copy2.status.arn)'
      BY <1>2, <3>1, Aws1 DEF M2!GoneCf, M2!GoneCert, names2
    <3>3. cls2' = cls2
      BY DEF Beside2, memory2
    <3> QED
      BY <1>2, <3>2, <3>3, Names DEF M2!IInv, M2!Remembered, M2!AllDeleted, M2!Wants, names2
  <2> QED
    BY <2>1, <2>2
<1>5. M2!Doomed'
  BY <1>2, Deleting1 DEF M2!IInv, M2!Doomed, M2!Exists, names2
<1> QED
  BY <1>1, <1>3, <1>4, <1>5 DEF M2!IInv

\* The same the other way round: the two keep apart.
LEMMA Joint2 ==
    ASSUME M2!IInv, M1!IInv, Joint, M2!Next, UNCHANGED names1
    PROVE  Joint'
<1> SUFFICES ASSUME NEW a \in Arns, NEW d \in Distros, NEW e \in Distros \ {d},
                    M2!NamesCert(d, a)', M1!NamesCert(e, a)'
             PROVE  FALSE
  BY DEF Joint
<1>1. M2!NamesCert(e, a)' \/ M1!NamesCert(e, a)
  BY DEF M2!NamesCert, M1!NamesCert, M2!Exists, M1!Exists, names1
<1>2. CASE M2!NamesCert(e, a)'
  BY <1>2, Invariant2, Names DEF M2!IInv, M2!Recorded
<1>3. CASE M1!NamesCert(e, a)
  <2>1. acm[a] # "unused"
    BY <1>3, Names DEF M1!IInv, M1!Recorded
  <2>2. M2!NamesCert(d, a)
    BY <2>1, Kept2
  <2> QED
    BY <1>3, <2>2 DEF Joint
<1> QED
  BY <1>1, <1>2, <1>3

\* The same the other way round: caches and copies.
LEMMA Fresh2 ==
    ASSUME M2!IInv, M1!IInv, M2!Next, Beside1
    PROVE  M1!TypeInv' /\ M1!Fresh'
<1>1. M2!TypeInv'
  BY Invariant2 DEF M2!IInv
<1>2. M1!TypeOK
  BY DEF M1!IInv, M1!TypeInv
<1>3. synced1' \in [Distros -> BOOLEAN] /\ current1' \in BOOLEAN
  BY <1>2 DEF Beside1, StillSynced, StillCurrent, M1!TypeOK
<1>4. /\ cf' \in [CfIds -> M1!CfRecord]
      /\ acm' \in [Arns -> Serials \cup {"unused", "gone"}]
      /\ chaos' \in 0..MaxChaos
      /\ obj' \in [Distros -> M1!Object \cup {NoObject}]
      /\ class' \in [ClassNames -> M1!ClassValues]
      /\ secret' \in [Secrets -> M1!SecretValues]
  BY <1>1, Names DEF M2!TypeInv, M2!TypeOK, M2!AwsTypeOK, M2!CfRecord, M2!Phases, M2!CfConfig,
     M2!Object, M2!Status, M2!ClassValues, M2!SecretValues, M1!CfRecord, M1!Phases,
     M1!CfConfig, M1!Object, M1!Status, M1!ClassValues, M1!SecretValues
<1>5. M1!TypeOK'
  BY <1>2, <1>3, <1>4, Names DEF Beside1, memory1, M1!TypeOK, M1!AwsTypeOK
<1>6. M1!Dispatched'
  BY DEF M1!IInv, M1!TypeInv, M1!Dispatched, M1!Wants, Beside1, memory1
<1>7. M1!Fresh'
  BY DEF M1!IInv, M1!Fresh, M1!Exists, Beside1, memory1, StillSynced, StillCurrent
<1> QED
  BY <1>5, <1>6, <1>7 DEF M1!TypeInv

\* The same the other way round: the invariant of the first manager.
LEMMA Across2 ==
    ASSUME M2!IInv, M1!IInv, Joint, M2!Next, Beside1
    PROVE  M1!IInv'
<1>1. M1!TypeInv' /\ M1!Fresh'
  BY Fresh2
<1>2. UNCHANGED names1
  BY DEF Beside1, memory1, names1
<1>3. M1!Recorded'
  <2>1. ASSUME NEW d \in Distros, NEW i \in CfIds, M1!NamesCf(d, i)'
        PROVE  cf'[i].phase # "unused" /\ cf'[i].ref = d
    <3>1. M2!NamesCf(d, i)' \/ M1!NamesCf(d, i)
      BY <1>2, <2>1 DEF M2!NamesCf, M1!NamesCf, M2!Exists, M1!Exists, names1
    <3>2. CASE M2!NamesCf(d, i)'
      BY <3>2, Invariant2, Names DEF M2!IInv, M2!Recorded
    <3>3. CASE M1!NamesCf(d, i)
      BY <3>3, Aws2, Names DEF M1!IInv, M1!Recorded
    <3> QED
      BY <3>1, <3>2, <3>3
  <2>2. ASSUME NEW d \in Distros, NEW a \in Arns, M1!NamesCert(d, a)'
        PROVE  acm'[a] # "unused" /\ \A e \in Distros \ {d} : ~M1!NamesCert(e, a)'
    <3>1. \A e \in Distros : M1!NamesCert(e, a)' => M2!NamesCert(e, a)' \/ M1!NamesCert(e, a)
      BY <1>2 DEF M2!NamesCert, M1!NamesCert, M2!Exists, M1!Exists, names1
    <3>2. acm'[a] # "unused"
      <4>1. CASE M2!NamesCert(d, a)'
        BY <4>1, Invariant2, Names DEF M2!IInv, M2!Recorded
      <4>2. CASE M1!NamesCert(d, a)
        BY <4>2, Aws2, Names DEF M1!IInv, M1!Recorded
      <4> QED
        BY <2>2, <3>1, <4>1, <4>2
    <3>3. ASSUME NEW e \in Distros \ {d}, M1!NamesCert(e, a)'
          PROVE  FALSE
      <4>1. Joint'
        BY <1>2, Joint2
      <4>2. ~M2!NamesCert(d, a)' /\ ~M2!NamesCert(e, a)'
        BY <2>2, <3>3, <4>1 DEF Joint
      <4>3. M1!NamesCert(d, a) /\ M1!NamesCert(e, a)
        BY <2>2, <3>1, <3>3, <4>2
      <4> QED
        BY <4>3, Names DEF M1!IInv, M1!Recorded
    <3> QED
      BY <3>2, <3>3
  <2> QED
    BY <2>1, <2>2, Names DEF M1!Recorded
<1>4. M1!Remembered'
  <2>1. CASE pc1 = "idle"
    BY <1>2, <2>1 DEF M1!Remembered, names1
  <2>2. CASE pc1 # "idle"
    <3>1. copy1.status.id \in CfIds \cup {0} /\ copy1.status.arn \in Arns \cup {0}
      BY <2>2, Names DEF M1!IInv, M1!TypeInv, M1!TypeOK, M1!Object, M1!Status
    <3>2. /\ M1!GoneCf(copy1.status.id) => M1!GoneCf(copy1.status.id)'
          /\ M1!GoneCert(copy1.status.arn) => M1!GoneCert(copy1.status.arn)'
      BY <1>2, <3>1, Aws2 DEF M1!GoneCf, M1!GoneCert, names1
    <3>3. cls1' = cls1
      BY DEF Beside1, memory1
    <3> QED
      BY <1>2, <3>2, <3>3, Names DEF M1!IInv, M1!Remembered, M1!AllDeleted, M1!Wants, names1
  <2> QED
    BY <2>1, <2>2
<1>5. M1!Doomed'
  BY <1>2, Deleting2 DEF M1!IInv, M1!Doomed, M1!Exists, names1
<1> QED
  BY <1>1, <1>3, <1>4, <1>5 DEF M1!IInv

-----------------------------------------------------------------------------
(* What one manager has assured, the other one leaves assured.             *)

\* A distribution that is rolled out, and a certificate, stay as they are while the
\* first manager is not at work on the Distribution that the other one knows them for.
LEMMA Standing1 ==
    ASSUME M1!IInv, M2!IInv, Joint, M1!Undisturbed, M1!Next,
           NEW d \in Distros, awsVars' = awsVars \/ ~M1!Busy(d)
    PROVE  /\ \A n \in CfIds : M2!NamesCf(d, n) /\ cf[n].phase = "Deployed" => cf'[n] = cf[n]
           /\ \A a \in Arns : M2!NamesCert(d, a) => acm'[a] = acm[a]
<1>1. CASE awsVars' = awsVars
  BY <1>1 DEF awsVars
<1>2. CASE ~M1!Busy(d)
  <2>1. ASSUME NEW n \in CfIds, M2!NamesCf(d, n), cf[n].phase = "Deployed"
        PROVE  cf'[n] = cf[n]
    <3>1. cf[n].ref = d
      BY <2>1, Names DEF M2!IInv, M2!Recorded
    <3> QED
      BY <1>2, <2>1, <3>1, M1!CfKept, QuotaAssumption, SerialAssumption, ChaosAssumption,
         ManagersAssumption, Names
      DEF M1!IsFiniteSet, IsFiniteSet, M1!Undisturbed
  <2>2. ASSUME NEW a \in Arns, M2!NamesCert(d, a)
        PROVE  acm'[a] = acm[a]
    <3>1. pc1 # "idle" => status1.arn # a
      <4> SUFFICES ASSUME pc1 # "idle", status1.arn = a PROVE FALSE
        OBVIOUS
      <4>1. key1 \in Distros /\ key1 # d
        BY <1>2 DEF M1!Busy, M1!IInv, M1!TypeInv, M1!TypeOK
      <4>2. M1!NamesCert(key1, a)
        BY DEF M1!NamesCert
      <4> QED
        BY <2>2, <4>1, <4>2 DEF Joint
    <3>2. acm[a] \in Serials \/ acm[a] = "gone"
      BY <2>2, Names DEF M2!IInv, M2!Recorded, M2!TypeInv, M2!TypeOK, M2!AwsTypeOK
    <3>3. acm[a] \in Serials => acm'[a] = acm[a]
      BY <3>1, M1!CertKept, QuotaAssumption, SerialAssumption, ChaosAssumption,
         ManagersAssumption, Names
      DEF M1!IsFiniteSet, IsFiniteSet, M1!Undisturbed
    <3>4. acm[a] = "gone" => acm'[a] = "gone"
      BY Aws1, SerialAssumption
    <3> QED
      BY <3>2, <3>3, <3>4
  <2> QED
    BY <2>1, <2>2
<1> QED
  BY <1>1, <1>2

\* What one manager is sure of for a Distribution, the other
\* one's work on anything else, or on the cache, leaves true.
LEMMA Spared1 ==
    ASSUME M1!IInv, M2!IInv, Joint, M1!Undisturbed, M1!Next, Beside2,
           UNCHANGED <<class, secret>>, NEW d \in Distros, obj'[d] = obj[d],
           awsVars' = awsVars \/ ~M1!Busy(d), M2!Assured(d)
    PROVE  M2!Assured(d)'
<1> SUFFICES ASSUME M2!Exists(d)', synced2'[d], d \notin queue2'
             PROVE  IF M2!Busy(d)' THEN M2!InHand(d)' /\ M2!Earned' ELSE M2!Settled(d)'
  BY DEF M2!Assured
<1> USE DEF Beside2, memory2
<1>1. /\ M2!Exists(d) /\ (M2!Busy(d)' <=> M2!Busy(d))
      /\ IF M2!Busy(d) THEN M2!InHand(d) /\ M2!Earned ELSE M2!Settled(d)
  BY DEF M2!Assured, M2!Exists, M2!Busy, StillSynced
<1>2. CASE ~M2!Busy(d)
  <2>1. ASSUME M2!Served(d), M2!HasSecret(d) PROVE M2!Served(d)'
    <3>1. obj[d].status.id \in CfIds /\ obj[d].status.arn \in Arns
      BY <1>1, <2>1, Names DEF M2!Served, M2!Exists, M2!IInv, M2!TypeInv, M2!TypeOK,
                               M2!Object, M2!Status
    <3>2. M2!NamesCf(d, obj[d].status.id) /\ M2!NamesCert(d, obj[d].status.arn)
      BY <1>1 DEF M2!NamesCf, M2!NamesCert
    <3>3. /\ cf'[obj[d].status.id] = cf[obj[d].status.id]
          /\ acm'[obj[d].status.arn] = acm[obj[d].status.arn]
      BY <2>1, <3>1, <3>2, Standing1 DEF M2!Served
    <3> QED
      BY <2>1, <3>3 DEF M2!Served, M2!Desired
  <2> QED
    BY <1>1, <1>2, <2>1 DEF M2!Settled, M2!HasClass, M2!HasSecret, M2!Wants
<1>3. CASE M2!Busy(d)
  <2>1. M2!InHand(d)'
    BY <1>1, <1>3 DEF M2!InHand, M2!Busy, M2!HasSecret, M2!Wants, StillCurrent
  <2>2. M2!NamesCf(d, status2.id) /\ M2!NamesCert(d, status2.arn)
    BY <1>3 DEF M2!Busy, M2!NamesCf, M2!NamesCert
  <2>3. M2!Certified => M2!Certified'
    BY <2>2, Standing1, Names DEF M2!Certified
  <2>4. M2!Complete => M2!Complete'
    BY <2>2, Standing1, Names DEF M2!Complete, M2!Desired
  <2>5. M2!Claims' => M2!Claims
    BY DEF M2!Claims, M2!Wants, M1!Undisturbed, M1!Unmeddled, M2!Unmeddled
  <2> QED
    BY <1>1, <1>3, <2>1, <2>3, <2>4, <2>5 DEF M2!Earned
<1> QED
  BY <1>1, <1>2, <1>3

\* A pass of the other manager stays as well informed as it was.
LEMMA Handy1 ==
    ASSUME M2!IInv, Beside2, UNCHANGED <<class, secret>>,
           NEW d \in Distros, M2!Handy(d)
    PROVE  M2!Handy(d)'
<1> USE DEF Beside2, memory2
<1> SUFFICES ASSUME M2!Exists(d)', synced2'[d], d \notin queue2', M2!Busy(d)'
             PROVE  M2!InHand(d)'
  BY DEF M2!Handy
<1>1. obj'[d] = obj[d] /\ M2!InHand(d) /\ key2 = d
  BY DEF M2!Handy, M2!Exists, M2!Busy, StillSynced
<1> QED
  BY <1>1 DEF M2!InHand, M2!HasSecret, M2!Wants, StillCurrent

\* One manager's step leaves every Distribution assured by one of them:
\* what this one writes the other has yet to hear of, and what it changes at AWS, for a
\* Distribution that it is at work on, it knows about.
LEMMA Looked1 ==
    ASSUME M1!IInv, M2!IInv, Joint, M1!LiveCert, M1!Undisturbed, M1!Next, Beside2,
           UNCHANGED <<class, secret>>, awsVars' # awsVars => M1!Work,
           NEW d \in Distros, M1!Marked(d), M1!Handy(d), M1!Assured(d) \/ M2!Assured(d)
    PROVE  M1!Assured(d)' \/ M2!Assured(d)'
<1>1. CASE M1!Assured(d)
  BY <1>1, Own1
<1>2. CASE obj'[d] # obj[d]
  <2>1. ~synced2'[d]
    BY <1>2 DEF Beside2, StillSynced
  <2> QED
    BY <2>1 DEF M2!Assured
<1>3. CASE obj'[d] = obj[d] /\ M2!Assured(d) /\ (awsVars' = awsVars \/ ~M1!Busy(d))
  BY <1>3, Spared1
<1>4. CASE awsVars' # awsVars /\ M1!Busy(d)
  <2>1. M1!Earned' /\ M1!Busy(d)'
    BY <1>4, Change1 DEF M1!Busy
  <2>2. M1!Handy(d)'
    BY Own1
  <2> QED
    BY <2>1, <2>2 DEF M1!Handy, M1!Assured
<1> QED
  BY <1>1, <1>2, <1>3, <1>4

\* The same the other way round: what is rolled out stays as they are while the
\* second manager is not at work on the Distribution that the other one knows them for.
LEMMA Standing2 ==
    ASSUME M1!IInv, M2!IInv, Joint, M2!Undisturbed, M2!Next,
           NEW d \in Distros, awsVars' = awsVars \/ ~M2!Busy(d)
    PROVE  /\ \A n \in CfIds : M1!NamesCf(d, n) /\ cf[n].phase = "Deployed" => cf'[n] = cf[n]
           /\ \A a \in Arns : M1!NamesCert(d, a) => acm'[a] = acm[a]
<1>1. CASE awsVars' = awsVars
  BY <1>1 DEF awsVars
<1>2. CASE ~M2!Busy(d)
  <2>1. ASSUME NEW n \in CfIds, M1!NamesCf(d, n), cf[n].phase = "Deployed"
        PROVE  cf'[n] = cf[n]
    <3>1. cf[n].ref = d
      BY <2>1, Names DEF M1!IInv, M1!Recorded
    <3> QED
      BY <1>2, <2>1, <3>1, M2!CfKept, QuotaAssumption, SerialAssumption, ChaosAssumption,
         ManagersAssumption, Names
      DEF M2!IsFiniteSet, IsFiniteSet, M2!Undisturbed
  <2>2. ASSUME NEW a \in Arns, M1!NamesCert(d, a)
        PROVE  acm'[a] = acm[a]
    <3>1. pc2 # "idle" => status2.arn # a
      <4> SUFFICES ASSUME pc2 # "idle", status2.arn = a PROVE FALSE
        OBVIOUS
      <4>1. key2 \in Distros /\ key2 # d
        BY <1>2 DEF M2!Busy, M2!IInv, M2!TypeInv, M2!TypeOK
      <4>2. M2!NamesCert(key2, a)
        BY DEF M2!NamesCert
      <4> QED
        BY <2>2, <4>1, <4>2 DEF Joint
    <3>2. acm[a] \in Serials \/ acm[a] = "gone"
      BY <2>2, Names DEF M1!IInv, M1!Recorded, M1!TypeInv, M1!TypeOK, M1!AwsTypeOK
    <3>3. acm[a] \in Serials => acm'[a] = acm[a]
      BY <3>1, M2!CertKept, QuotaAssumption, SerialAssumption, ChaosAssumption,
         ManagersAssumption, Names
      DEF M2!IsFiniteSet, IsFiniteSet, M2!Undisturbed
    <3>4. acm[a] = "gone" => acm'[a] = "gone"
      BY Aws2, SerialAssumption
    <3> QED
      BY <3>2, <3>3, <3>4
  <2> QED
    BY <2>1, <2>2
<1> QED
  BY <1>1, <1>2

\* The same the other way round: what one manager is sure of for a Distribution, the other
\* one's work on anything else, or on the cache, leaves true.
LEMMA Spared2 ==
    ASSUME M1!IInv, M2!IInv, Joint, M2!Undisturbed, M2!Next, Beside1,
           UNCHANGED <<class, secret>>, NEW d \in Distros, obj'[d] = obj[d],
           awsVars' = awsVars \/ ~M2!Busy(d), M1!Assured(d)
    PROVE  M1!Assured(d)'
<1> SUFFICES ASSUME M1!Exists(d)', synced1'[d], d \notin queue1'
             PROVE  IF M1!Busy(d)' THEN M1!InHand(d)' /\ M1!Earned' ELSE M1!Settled(d)'
  BY DEF M1!Assured
<1> USE DEF Beside1, memory1
<1>1. /\ M1!Exists(d) /\ (M1!Busy(d)' <=> M1!Busy(d))
      /\ IF M1!Busy(d) THEN M1!InHand(d) /\ M1!Earned ELSE M1!Settled(d)
  BY DEF M1!Assured, M1!Exists, M1!Busy, StillSynced
<1>2. CASE ~M1!Busy(d)
  <2>1. ASSUME M1!Served(d), M1!HasSecret(d) PROVE M1!Served(d)'
    <3>1. obj[d].status.id \in CfIds /\ obj[d].status.arn \in Arns
      BY <1>1, <2>1, Names DEF M1!Served, M1!Exists, M1!IInv, M1!TypeInv, M1!TypeOK,
                               M1!Object, M1!Status
    <3>2. M1!NamesCf(d, obj[d].status.id) /\ M1!NamesCert(d, obj[d].status.arn)
      BY <1>1 DEF M1!NamesCf, M1!NamesCert
    <3>3. /\ cf'[obj[d].status.id] = cf[obj[d].status.id]
          /\ acm'[obj[d].status.arn] = acm[obj[d].status.arn]
      BY <2>1, <3>1, <3>2, Standing2 DEF M1!Served
    <3> QED
      BY <2>1, <3>3 DEF M1!Served, M1!Desired
  <2> QED
    BY <1>1, <1>2, <2>1 DEF M1!Settled, M1!HasClass, M1!HasSecret, M1!Wants
<1>3. CASE M1!Busy(d)
  <2>1. M1!InHand(d)'
    BY <1>1, <1>3 DEF M1!InHand, M1!Busy, M1!HasSecret, M1!Wants, StillCurrent
  <2>2. M1!NamesCf(d, status1.id) /\ M1!NamesCert(d, status1.arn)
    BY <1>3 DEF M1!Busy, M1!NamesCf, M1!NamesCert
  <2>3. M1!Certified => M1!Certified'
    BY <2>2, Standing2, Names DEF M1!Certified
  <2>4. M1!Complete => M1!Complete'
    BY <2>2, Standing2, Names DEF M1!Complete, M1!Desired
  <2>5. M1!Claims' => M1!Claims
    BY DEF M1!Claims, M1!Wants, M2!Undisturbed, M2!Unmeddled, M1!Unmeddled
  <2> QED
    BY <1>1, <1>3, <2>1, <2>3, <2>4, <2>5 DEF M1!Earned
<1> QED
  BY <1>1, <1>2, <1>3

\* The same the other way round: a pass of the other manager stays as well informed as it was.
LEMMA Handy2 ==
    ASSUME M1!IInv, Beside1, UNCHANGED <<class, secret>>,
           NEW d \in Distros, M1!Handy(d)
    PROVE  M1!Handy(d)'
<1> USE DEF Beside1, memory1
<1> SUFFICES ASSUME M1!Exists(d)', synced1'[d], d \notin queue1', M1!Busy(d)'
             PROVE  M1!InHand(d)'
  BY DEF M1!Handy
<1>1. obj'[d] = obj[d] /\ M1!InHand(d) /\ key1 = d
  BY DEF M1!Handy, M1!Exists, M1!Busy, StillSynced
<1> QED
  BY <1>1 DEF M1!InHand, M1!HasSecret, M1!Wants, StillCurrent

\* The same the other way round: one manager's step leaves every Distribution assured by one of them:
\* what this one writes the other has yet to hear of, and what it changes at AWS, for a
\* Distribution that it is at work on, it knows about.
LEMMA Looked2 ==
    ASSUME M1!IInv, M2!IInv, Joint, M2!LiveCert, M2!Undisturbed, M2!Next, Beside1,
           UNCHANGED <<class, secret>>, awsVars' # awsVars => M2!Work,
           NEW d \in Distros, M2!Marked(d), M2!Handy(d), M1!Assured(d) \/ M2!Assured(d)
    PROVE  M1!Assured(d)' \/ M2!Assured(d)'
<1>1. CASE M2!Assured(d)
  BY <1>1, Own2
<1>2. CASE obj'[d] # obj[d]
  <2>1. ~synced1'[d]
    BY <1>2 DEF Beside1, StillSynced
  <2> QED
    BY <2>1 DEF M1!Assured
<1>3. CASE obj'[d] = obj[d] /\ M1!Assured(d) /\ (awsVars' = awsVars \/ ~M2!Busy(d))
  BY <1>3, Spared2
<1>4. CASE awsVars' # awsVars /\ M2!Busy(d)
  <2>1. M2!Earned' /\ M2!Busy(d)'
    BY <1>4, Change2 DEF M2!Busy
  <2>2. M2!Handy(d)'
    BY Own2
  <2> QED
    BY <2>1, <2>2 DEF M2!Handy, M2!Assured
<1> QED
  BY <1>1, <1>2, <1>3, <1>4

-----------------------------------------------------------------------------
(* The theorems.                                                            *)

\* Every step is one of a manager beside the other, or of both.
LEMMA WhoActs ==
    ASSUME M1!TypeOK, M2!TypeOK, Next
    PROVE  \/ M1!Next /\ Beside2 /\ (awsVars' # awsVars => M1!Work)
           \/ M2!Next /\ Beside1 /\ (awsVars' # awsVars => M2!Work)
           \/ M1!Next /\ M2!Next /\ UNCHANGED names1 /\ UNCHANGED names2
<1>1. etag1 \in BOOLEAN /\ etag2 \in BOOLEAN
  BY DEF M1!TypeOK, M2!TypeOK
<1>2. \A i, p : StillTagged(etag1, i, p) \in BOOLEAN /\ StillTagged(etag2, i, p) \in BOOLEAN
  BY <1>1 DEF StillTagged
<1>3. CASE Pass1 \/ Hears1 \/ Crash1
  <2>1. Beside2
    BY <1>2, <1>3 DEF Pass1, Hears1, Crash1, Step1, Beside2
  <2>2. awsVars' # awsVars => M1!Work
    BY <1>3 DEF Pass1, Hears1, Crash1, Step1, M1!Begin, M1!Skip, M1!Sync, M1!Crash, M1!Restarted,
                M1!awsVars, awsVars
  <2> QED
    BY <1>3, <2>1, <2>2 DEF Pass1, Hears1, Crash1, Step1, M1!Next, M1!Environment
<1>4. CASE Pass2 \/ Hears2 \/ Crash2
  <2>1. Beside1
    BY <1>2, <1>4 DEF Pass2, Hears2, Crash2, Step2, Beside1
  <2>2. awsVars' # awsVars => M2!Work
    BY <1>4 DEF Pass2, Hears2, Crash2, Step2, M2!Begin, M2!Skip, M2!Sync, M2!Crash, M2!Restarted,
                M2!awsVars, awsVars
  <2> QED
    BY <1>4, <2>1, <2>2 DEF Pass2, Hears2, Crash2, Step2, M2!Next, M2!Environment
<1>5. CASE Around
  <2>1. M1!Next /\ M2!Next
    BY <1>5, Names DEF Around, M1!Next, M1!Environment, M2!Next, M2!Environment
  <2>2. UNCHANGED names1
    BY <1>5 DEF Around, M1!EditSpec, M1!DeleteObject, M1!UserWrites, M1!Write, M1!Rollout,
                M1!passVars, M1!othersVars, M1!apiVars, names1
  <2>3. UNCHANGED names2
    BY <1>5 DEF Around, M2!EditSpec, M2!DeleteObject, M2!UserWrites, M2!Write, M2!Rollout,
                M2!passVars, M2!othersVars, M2!apiVars, names2
  <2> QED
    BY <2>1, <2>2, <2>3
<1> QED
  BY <1>3, <1>4, <1>5 DEF Next

\* Both invariants, and that the two keep apart, survive every step.
LEMMA BothStep ==
    ASSUME BInv, Next
    PROVE  BInv'
<1> USE DEF BInv
<1>1. M1!TypeOK /\ M2!TypeOK
  BY DEF M1!IInv, M1!TypeInv, M2!IInv, M2!TypeInv
<1>2. CASE M1!Next /\ Beside2
  <2>1. UNCHANGED names2
    BY <1>2 DEF Beside2, memory2, names2
  <2> QED
    BY <1>2, <2>1, Invariant1, Across1, Joint1, Single1
<1>3. CASE M2!Next /\ Beside1
  <2>1. UNCHANGED names1
    BY <1>3 DEF Beside1, memory1, names1
  <2> QED
    BY <1>3, <2>1, Invariant2, Across2, Joint2, Single2
<1>4. CASE M1!Next /\ M2!Next /\ UNCHANGED names1 /\ UNCHANGED names2
  BY <1>4, Invariant1, Invariant2, Joint1, Single1
<1> QED
  BY <1>1, <1>2, <1>3, <1>4, WhoActs

\* What each manager may rely on, beside the other.
THEOREM Beside == Spec => []BInv
<1>1. Init => BInv
  <2> SUFFICES ASSUME Init PROVE BInv
    OBVIOUS
  <2>1. M1!IInv
    BY M1!RecordsInit, QuotaAssumption, SerialAssumption, ChaosAssumption, ManagersAssumption,
   Names
    DEF M1!IsFiniteSet, IsFiniteSet, Init
  <2>2. M2!IInv
    BY M2!RecordsInit, QuotaAssumption, SerialAssumption, ChaosAssumption, ManagersAssumption,
   Names
    DEF M2!IsFiniteSet, IsFiniteSet, Init
  <2>3. Joint
    <3>1. pc1 = "idle" /\ \A d \in Distros : cache1[d] = NoObject
      BY DEF Init, M1!Init
    <3>2. \A d \in Distros : obj[d].status = M1!EmptyStatus
      BY DEF Init, M1!Init
    <3>3. M1!EmptyStatus.arn = 0 /\ 0 \notin Arns
      BY DEF M1!EmptyStatus, Arns
    <3>4. \A d \in Distros, a \in Arns : ~M1!NamesCert(d, a)
      BY <3>1, <3>2, <3>3 DEF M1!NamesCert
    <3> QED
      BY <3>4 DEF Joint
  <2>4. OnlyOneForBoth
    BY DEF Init, M1!Init, M1!AwsInit, M1!UnusedCf, OnlyOneForBoth, M1!OneDistributionPerResource,
           M1!Live
  <2> QED
    BY <2>1, <2>2, <2>3, <2>4 DEF BInv
<1>2. BInv /\ [Next]_vars => BInv'
  <2>1. ASSUME BInv, UNCHANGED vars PROVE BInv'
    <3> USE <2>1 DEF BInv, vars, awsVars, memory1, memory2, facts1, facts2
    <3>1. Joint' /\ OnlyOneForBoth'
      BY DEF Joint, M1!NamesCert, M2!NamesCert, M1!Exists, M2!Exists, OnlyOneForBoth,
             M1!OneDistributionPerResource, M1!Live
    <3>2. M1!IInv'
      BY DEF M1!IInv, M1!TypeInv, M1!TypeOK, M1!AwsTypeOK, M1!Dispatched, M1!Wants, M1!Fresh,
             M1!Recorded, M1!NamesCf, M1!NamesCert, M1!Remembered, M1!GoneCf, M1!GoneCert,
             M1!AllDeleted, M1!Doomed, M1!Exists
    <3>3. M2!IInv'
      BY DEF M2!IInv, M2!TypeInv, M2!TypeOK, M2!AwsTypeOK, M2!Dispatched, M2!Wants, M2!Fresh,
             M2!Recorded, M2!NamesCf, M2!NamesCert, M2!Remembered, M2!GoneCf, M2!GoneCert,
             M2!AllDeleted, M2!Doomed, M2!Exists
    <3> QED
      BY <3>1, <3>2, <3>3
  <2> QED
    BY <2>1, BothStep
<1> QED
  BY <1>1, <1>2, PTL DEF Spec

\* Two managers never make two distributions for one resource.
THEOREM SingleForBoth == Spec => []OnlyOneForBoth
BY Beside, PTL DEF BInv

\* A step that is not of the first manager leaves its program counter alone.
LEMMA Movers ==
    ASSUME BInv, Next
    PROVE  (Moves1 => M1!Next) /\ (Moves2 => M2!Next)
<1>1. M1!TypeOK /\ M2!TypeOK
  BY DEF BInv, M1!IInv, M1!TypeInv, M2!IInv, M2!TypeInv
<1> QED
  BY <1>1, WhoActs DEF Moves1, Moves2, Beside1, Beside2, memory1, memory2

\* Neither manager forgets what is alive or lets go of what is not gone, whatever the
\* other one does between any two of its steps.
THEOREM RememberBoth == Spec => BothRemember
<1>1. BInv /\ [Next]_vars => [SafeStep]_vars
  BY Movers, Acts1, Acts2 DEF BInv, SafeStep
<1> QED
  BY <1>1, Beside, PTL DEF Spec, BothRemember

\* Neither manager tears down what is not being deleted, however little it knows of
\* what the other one has done.
THEOREM NoTearingDown == Spec => NeitherTearsDown
<1>1. BInv /\ [Next]_vars => [M1!TurnOffDoomed /\ M2!TurnOffDoomed]_vars
  <2> SUFFICES ASSUME BInv, Next
               PROVE  M1!TurnOffDoomed /\ M2!TurnOffDoomed
    OBVIOUS
  <2>1. M1!TurnOffDoomed
    <3>1. CASE Moves1
      BY <3>1, Movers, Acts1 DEF BInv
    <3>2. CASE pc1' = pc1
      BY <3>2 DEF M1!TurnOffDoomed
    <3> QED
      BY <3>1, <3>2 DEF Moves1
  <2>2. M2!TurnOffDoomed
    <3>1. CASE Moves2
      BY <3>1, Movers, Acts2 DEF BInv
    <3>2. CASE pc2' = pc2
      BY <3>2 DEF M2!TurnOffDoomed
    <3> QED
      BY <3>1, <3>2 DEF Moves2
  <2> QED
    BY <2>1, <2>2
<1> QED
  BY <1>1, Beside, PTL DEF Spec, NeitherTearsDown

-----------------------------------------------------------------------------
(* The two do not leave a Distribution to each other.                       *)

\* Whatever is not settled is in the queue of one of the managers, or about to be, or in
\* the hands of a pass of its that knows all it needs.
SInv == /\ M1!LiveCert
        /\ \A d \in Distros : /\ M1!Marked(d)
                              /\ M1!Handy(d) /\ M2!Handy(d)
                              /\ M1!Assured(d) \/ M2!Assured(d)

\* What does not depend on a manager's memory is the same for both.
LEMMA Shared == /\ M2!LiveCert = M1!LiveCert
                /\ \A d \in Distros : M2!Marked(d) = M1!Marked(d) /\ M2!Settled(d) = M1!Settled(d)
BY DEF M1!LiveCert, M2!LiveCert, M1!Live, M2!Live, M1!Imported, M2!Imported, M1!CfIds, M2!CfIds,
       M1!Arns, M2!Arns, M1!Marked, M2!Marked, M1!Settled, M2!Settled, M1!Exists, M2!Exists,
       M1!HasClass, M2!HasClass, M1!HasSecret, M2!HasSecret, M1!Wants, M2!Wants, M1!Served,
       M2!Served, M1!Desired, M2!Desired

\* The same after a step.
LEMMA SharedAfter == /\ M2!LiveCert' = M1!LiveCert'
                     /\ \A d \in Distros : M2!Marked(d)' = M1!Marked(d)'
BY DEF M1!LiveCert, M2!LiveCert, M1!Live, M2!Live, M1!Imported, M2!Imported, M1!CfIds, M2!CfIds,
       M1!Arns, M2!Arns, M1!Marked, M2!Marked, M1!Exists, M2!Exists

\* Nothing here changes a class or a secret.
LEMMA SameClasses ==
    ASSUME Next
    PROVE  UNCHANGED <<class, secret>>
BY DEF Next, Pass1, Hears1, Crash1, Step1, Pass2, Hears2, Crash2, Step2, Around,
   M1!Begin, M1!Skip, M1!Work, M1!Stretch, M1!AddFinalizer, M1!Resolve, M1!Report,
   M1!ReportDeletion, M1!Unfinalize, M1!Panic, M1!Restarted, M1!Sync, M1!Crash, M1!EditSpec,
   M1!DeleteObject, M1!UserWrites, M1!Rollout, M1!othersVars, M1!inputVars,
   M2!Begin, M2!Skip, M2!Work, M2!Stretch, M2!AddFinalizer, M2!Resolve, M2!Report,
   M2!ReportDeletion, M2!Unfinalize, M2!Panic, M2!Restarted, M2!Sync, M2!Crash, M2!inputVars

\* Every step leaves every Distribution assured by one of the two.
LEMMA SettledStep ==
    ASSUME BInv, SInv, M1!Undisturbed, Next
    PROVE  SInv'
<1> USE DEF BInv, SInv
<1>1. M1!TypeOK /\ M2!TypeOK /\ M2!Undisturbed /\ M2!LiveCert /\ \A d \in Distros : M2!Marked(d)
  BY Shared DEF M1!IInv, M1!TypeInv, M2!IInv, M2!TypeInv, M1!Undisturbed, M2!Undisturbed,
                M1!Unmeddled, M2!Unmeddled
<1>2. UNCHANGED <<class, secret>>
  BY SameClasses
<1>3. CASE M1!Next /\ Beside2 /\ (awsVars' # awsVars => M1!Work)
  BY <1>1, <1>2, <1>3, Own1, Handy1, Looked1
<1>4. CASE M2!Next /\ Beside1 /\ (awsVars' # awsVars => M2!Work)
  BY <1>1, <1>2, <1>4, Own2, Handy2, Looked2, SharedAfter
<1>5. CASE M1!Next /\ M2!Next /\ UNCHANGED names1 /\ UNCHANGED names2
  BY <1>1, <1>5, Own1, Own2
<1> QED
  BY <1>1, <1>3, <1>4, <1>5, WhoActs

\* When neither manager has anything left to do, every Distribution is settled: for any
\* number of Distributions, stale reads, conflicts, crashes and failures at AWS, as long
\* as nobody else changes what is there and the API server refuses writes only for a
\* conflict.
THEOREM NotLeftToEachOther ==
    ASSUME M1!Undisturbed
    PROVE  Spec => []SettledForBoth
<1>1. Init => SInv
  BY DEF Init, M1!Init, M2!Init, M1!AwsInit, M1!UnusedCf, SInv, M1!LiveCert, M1!Live, M1!Marked,
         M1!Exists, M1!Handy, M2!Handy, M1!Assured
<1>2. BInv /\ SInv /\ [Next]_vars => SInv'
  <2>1. CASE Next
    BY <2>1, SettledStep
  <2>2. ASSUME UNCHANGED vars, SInv PROVE SInv'
    <3> USE <2>2 DEF vars, awsVars, memory1, memory2, facts1, facts2
    <3>1. M1!LiveCert' /\ \A d \in Distros : M1!Marked(d)' /\ M1!Handy(d)' /\ M2!Handy(d)'
      BY DEF SInv, M1!LiveCert, M1!Live, M1!Imported, M1!Marked, M1!Exists, M1!Handy, M1!Busy,
             M1!InHand, M1!HasSecret, M1!Wants, M2!Exists, M2!Handy, M2!Busy, M2!InHand,
             M2!HasSecret, M2!Wants
    <3>2. \A d \in Distros : M1!Assured(d) => M1!Assured(d)'
      BY DEF M1!Assured, M1!Exists, M1!Busy, M1!InHand, M1!Settled, M1!Served, M1!HasClass,
             M1!HasSecret, M1!Desired, M1!Wants, M1!Earned, M1!Certified, M1!Claims, M1!Complete
    <3>3. \A d \in Distros : M2!Assured(d) => M2!Assured(d)'
      BY DEF M2!Assured, M2!Exists, M2!Busy, M2!InHand, M2!Settled, M2!Served, M2!HasClass,
             M2!HasSecret, M2!Desired, M2!Wants, M2!Earned, M2!Certified, M2!Claims, M2!Complete
    <3> QED
      BY <3>1, <3>2, <3>3 DEF SInv
  <2> QED
    BY <2>1, <2>2
<1>3. SInv => SettledForBoth
  <2> SUFFICES ASSUME SInv, M1!Quiet, M2!Quiet, NEW d \in Distros, M1!Exists(d), M1!HasClass(d)
               PROVE  /\ ~obj[d].deleting
                      /\ IF M1!Wants(class[obj[d].spec.class])
                         THEN M1!HasSecret(d) => M1!Served(d)
                         ELSE M1!HasSecret(d) => obj[d].status.ready
    BY DEF SettledForBoth, M1!SettledWhenIdle
  <2>1. M1!Settled(d)
    <3>1. M1!Assured(d) => M1!Settled(d)
      BY DEF M1!Assured, M1!Quiet, M1!Busy
    <3>2. M2!Assured(d) => M2!Settled(d)
      BY DEF M2!Assured, M2!Quiet, M2!Busy, M2!Exists, M1!Exists
    <3> QED
      BY <3>1, <3>2, Shared DEF SInv
  <2> QED
    BY <2>1 DEF M1!Settled
<1> QED
  BY <1>1, <1>2, <1>3, Beside, PTL DEF Spec
=============================================================================
