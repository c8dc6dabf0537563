--------------------------- MODULE CdnManagerProofs ---------------------------
(***************************************************************************)
(* The two controllers of one process write the same objects, each from    *)
(* its own cached copy.  What the Distribution*Proofs modules show of one  *)
(* alone still holds beside the other; the ingress controller never undoes *)
(* a write it has not seen, loses no update of its own, and leaves nothing *)
(* behind.                                                                 *)
(***************************************************************************)
EXTENDS CdnManager, DistributionWakeupProofs

IngressTypes ==
    /\ ing \in Ingress \cup {NoIngress} /\ ingCache \in Ingress \cup {NoIngress}
    /\ balancer \in Address
    /\ unborn \subseteq Distros
    /\ ingPass \in [target : Distros \cup {NoObject}, base : Object \cup {NoObject},
                    want : DistributionSpec \cup {NoConfig}, uid : Uids \cup {0},
                    fresh : BOOLEAN]
    /\ ingPass # Resting => ingPass.want \in DistributionSpec

\* A copy of the ingress worker that is its object's newest version is that object.
BaseFresh == ingPass.target # NoObject /\ ingPass.fresh
               => Exists(ingPass.target) /\ ingPass.base = obj[ingPass.target]

MInv == TypeInv /\ Fresh /\ IngressTypes /\ BaseFresh

-----------------------------------------------------------------------------
(* Beside a step of the Distribution controller or of the world.            *)

\* The ingress worker learns of a write to its object.
LEMMA BesideKeeps ==
    ASSUME IngressTypes, BaseFresh, Outdates, UNCHANGED <<ing, ingCache, balancer, unborn>>
    PROVE  IngressTypes' /\ BaseFresh'
<1>1. /\ ingPass'.target = ingPass.target /\ ingPass'.base = ingPass.base
      /\ ingPass'.want = ingPass.want
      /\ ingPass'.fresh = (ingPass.fresh /\ obj'[ingPass.target] = obj[ingPass.target])
      /\ ingPass' \in [target : Distros \cup {NoObject}, base : Object \cup {NoObject},
                       want : DistributionSpec \cup {NoConfig}, uid : Uids \cup {0},
                       fresh : BOOLEAN]
  BY DEF IngressTypes, Outdates
<1>2. ingPass' # Resting => ingPass.want \in DistributionSpec
  <2>1. CASE ingPass = Resting
    BY <2>1 DEF Outdates, Resting
  <2> QED
    BY <2>1 DEF IngressTypes
<1> QED
  BY <1>1, <1>2 DEF IngressTypes, BaseFresh, Exists

\* A step of the distribution controller keeps what both controllers rely on.
LEMMA BesideStep ==
    ASSUME MInv, Next, Outdates, UNCHANGED <<ing, ingCache, balancer, unborn>>
    PROVE  MInv'
BY TypeStep, FreshStep, BesideKeeps DEF MInv

-----------------------------------------------------------------------------
(* The steps of the ingress controller.                                     *)

\* A write to the API server that the Distribution controller knows nothing of.
LEMMA ForeignWrite ==
    ASSUME TypeInv, Fresh, NEW d \in Distros, NEW new \in Object \cup {NoObject}, Write(d, new),
           Outdate(d) \/ (~Exists(d) /\ UNCHANGED current),
           chaos' \in 0..MaxChaos, UNCHANGED <<awsVars, inputVars, passVars, queue, held>>
    PROVE  TypeInv' /\ Fresh'
<1> USE DEF TypeInv
<1>1. /\ obj' \in [Distros -> Object \cup {NoObject}]
      /\ cache' \in [Distros -> Object \cup {NoObject}]
      /\ synced' \in [Distros -> BOOLEAN]
  BY WriteTypes
<1>2. current' \in BOOLEAN
  BY DEF Outdate, TypeOK
<1>3. TypeOK' /\ Dispatched'
  BY <1>1, <1>2 DEF TypeOK, AwsTypeOK, Dispatched, awsVars, inputVars, passVars
<1>4. \A e \in Distros : synced'[e] => cache'[e] = obj'[e]
  BY WriteFresh
<1>5. ASSUME pc' # "idle", current'
      PROVE  /\ Exists(key)' /\ obj'[key'].spec = copy'.spec
             /\ obj'[key'].status = copy'.status /\ obj'[key'].deleting = copy'.deleting
  BY <1>5 DEF Outdate, Write, TypeOK, Fresh, Exists, passVars
<1> QED
  BY <1>3, <1>4, <1>5 DEF Fresh

\* A pass of the ingress controller begins.
LEMMA IngressBeginStep ==
    ASSUME MInv, IngressBegin
    PROVE  MInv'
<1> USE DEF MInv, TypeInv
<1>1. chaos' \in 0..MaxChaos
  BY PerturbTypes DEF IngressBegin, TypeOK, AwsTypeOK
<1>2. TypeInv' /\ Fresh'
  BY <1>1 DEF IngressBegin, TypeOK, AwsTypeOK, Dispatched, Fresh, Exists, awsVars, apiVars,
              inputVars, workerVars, passVars
<1>3. Resting \in [target : Distros \cup {NoObject}, base : Object \cup {NoObject},
                   want : DistributionSpec \cup {NoConfig}, uid : Uids \cup {0}, fresh : BOOLEAN]
  BY DEF Resting
<1>4. ~Passed(ingCache) => /\ DesiredSpec(ingCache) \in DistributionSpec
                           /\ ingCache.uid \in Uids
  <2> SUFFICES ASSUME ~Passed(ingCache)
               PROVE  DesiredSpec(ingCache) \in DistributionSpec /\ ingCache.uid \in Uids
    OBVIOUS
  <2>1. ingCache \in Ingress /\ ingCache.class # NoClass /\ Origin(ingCache) # NoConfig
    BY DEF Passed, IngressTypes
  <2> QED
    BY <2>1 DEF DesiredSpec, DistributionSpec, Ingress, Origin, Address, IngressTypes
<1>5. \/ ingPass' = Resting
      \/ /\ ~Passed(ingCache)
         /\ ingPass' = [Resting EXCEPT !.want = DesiredSpec(ingCache), !.uid = ingCache.uid]
      \/ \E d \in Found : /\ ~Passed(ingCache)
                          /\ ingPass' = [target |-> d, base |-> cache[d], uid |-> ingCache.uid,
                                         want |-> DesiredSpec(ingCache), fresh |-> synced[d]]
  BY DEF IngressBegin
<1>6. IngressTypes' /\ BaseFresh'
  <2>0. UNCHANGED <<ing, ingCache, balancer, unborn, obj>>
    BY DEF IngressBegin, apiVars
  <2>1. CASE ingPass' = Resting
    BY <1>3, <2>0, <2>1 DEF IngressTypes, BaseFresh, Resting
  <2>2. CASE /\ ~Passed(ingCache)
             /\ ingPass' = [Resting EXCEPT !.want = DesiredSpec(ingCache), !.uid = ingCache.uid]
    BY <1>3, <1>4, <2>0, <2>2 DEF IngressTypes, BaseFresh, Resting
  <2>3. ASSUME NEW d \in Found, ~Passed(ingCache),
               ingPass' = [target |-> d, base |-> cache[d], uid |-> ingCache.uid,
                           want |-> DesiredSpec(ingCache), fresh |-> synced[d]]
        PROVE  IngressTypes' /\ BaseFresh'
    <3>1. d \in Distros /\ cache[d] \in Object /\ synced[d] \in BOOLEAN /\ cache[d] # NoObject
      BY DEF Found, TypeOK
    <3>2. synced[d] => cache[d] = obj[d]
      BY <3>1 DEF Fresh
    <3> QED
      BY <1>4, <2>0, <2>3, <3>1, <3>2 DEF IngressTypes, BaseFresh, Exists
  <2> QED
    BY <1>5, <2>1, <2>2, <2>3
<1> QED
  BY <1>2, <1>6

\* At rest again, whatever was written.
LEMMA RestAgain ==
    ASSUME IngressTypes, ingPass' = Resting, UNCHANGED <<ing, ingCache, balancer>>,
           unborn' \subseteq unborn
    PROVE  IngressTypes' /\ BaseFresh'
BY DEF IngressTypes, BaseFresh, Resting

\* The Distribution is created, or the write fails.
LEMMA IngressCreateStep ==
    ASSUME MInv, IngressCreate
    PROVE  MInv'
<1> USE DEF MInv, TypeInv
<1>1. IngressTypes' /\ BaseFresh'
  <2>1. unborn' \subseteq unborn
    BY DEF IngressCreate
  <2> QED
    BY <2>1, RestAgain DEF IngressCreate
<1>2. chaos' \in 0..MaxChaos
  BY PerturbTypes DEF IngressCreate, TypeOK, AwsTypeOK
<1>3. CASE UNCHANGED apiVars
  BY <1>1, <1>2, <1>3 DEF IngressCreate, TypeOK, AwsTypeOK, Dispatched, Fresh, Exists, awsVars,
                          apiVars, inputVars, workerVars, passVars
<1>4. ASSUME NEW d \in unborn, ~Exists(d), Accepted(ingPass.want),
             Write(d, [spec |-> ingPass.want, deleting |-> FALSE, finalizer |-> FALSE,
                       status |-> EmptyStatus])
      PROVE  MInv'
  <2>1. ingPass.want \in Specs
    BY <1>4, IngressAssumption DEF IngressCreate, IngressTypes, Accepted
  <2>2. [spec |-> ingPass.want, deleting |-> FALSE, finalizer |-> FALSE,
         status |-> EmptyStatus] \in Object
    BY <2>1 DEF Object, EmptyStatus, Status
  <2>3. d \in Distros
    BY DEF IngressTypes
  <2> QED
    BY <1>1, <1>2, <1>4, <2>2, <2>3, ForeignWrite DEF IngressCreate, workerVars
<1>5. unborn # {} => (CHOOSE d \in unborn : TRUE) \in unborn
  OBVIOUS
<1>6. \/ UNCHANGED apiVars
      \/ /\ Accepted(ingPass.want) /\ unborn # {} /\ ~\E d \in Distros : Exists(d)
         /\ Write(CHOOSE d \in unborn : TRUE,
                  [spec |-> ingPass.want, deleting |-> FALSE, finalizer |-> FALSE,
                   status |-> EmptyStatus])
  BY DEF IngressCreate
<1> QED
  BY <1>3, <1>4, <1>5, <1>6 DEF IngressTypes

\* Updating the newest version changes its spec and nothing else.
LEMMA Overwrite ==
    ASSUME MInv, ingPass.target # NoObject, Unconflicted
    PROVE  LET d == ingPass.target IN
           /\ d \in Distros /\ Exists(d) /\ obj[d] \in Object
           /\ [ingPass.base EXCEPT !.spec = ingPass.want, !.status = obj[d].status]
                = [obj[d] EXCEPT !.spec = ingPass.want]
<1>1. /\ ingPass.target \in Distros /\ Exists(ingPass.target)
      /\ ingPass.base = obj[ingPass.target]
  BY DEF MInv, BaseFresh, Unconflicted, IngressTypes
<1>2. obj[ingPass.target] \in Object
  BY <1>1 DEF MInv, TypeInv, TypeOK, Exists
<1> QED
  BY <1>1, <1>2 DEF Object

\* The Distribution is updated to what the Ingress asks, or the write is refused.
LEMMA IngressUpdateStep ==
    ASSUME MInv, IngressUpdate
    PROVE  MInv'
<1> USE DEF MInv, TypeInv
<1>1. IngressTypes' /\ BaseFresh'
  BY RestAgain DEF IngressUpdate
<1>2. chaos' \in 0..MaxChaos
  BY PerturbTypes DEF IngressUpdate, TypeOK, AwsTypeOK
<1>3. CASE UNCHANGED <<apiVars, current>>
  BY <1>1, <1>2, <1>3 DEF IngressUpdate, TypeOK, AwsTypeOK, Dispatched, Fresh, Exists, awsVars,
                          apiVars, inputVars, passVars
<1>4. CASE /\ Accepted(ingPass.want) /\ Unconflicted
           /\ Write(ingPass.target, [ingPass.base EXCEPT !.spec = ingPass.want,
                                                         !.status = obj[ingPass.target].status])
           /\ Outdate(ingPass.target)
  <2>1. /\ ingPass.target \in Distros /\ obj[ingPass.target] \in Object
        /\ Write(ingPass.target, [obj[ingPass.target] EXCEPT !.spec = ingPass.want])
    BY <1>4, Overwrite DEF IngressUpdate
  <2>2. ingPass.want \in Specs
    BY <1>4, IngressAssumption DEF IngressUpdate, IngressTypes, Accepted, Resting
  <2>3. [obj[ingPass.target] EXCEPT !.spec = ingPass.want] \in Object
    BY <2>1, <2>2 DEF Object
  <2> QED
    BY <1>1, <1>2, <1>4, <2>1, <2>3, ForeignWrite DEF IngressUpdate
<1> QED
  BY <1>3, <1>4 DEF IngressUpdate

-----------------------------------------------------------------------------
(* The steps around both controllers.                                       *)

\* The garbage collector deletes a Distribution whose Ingress is no more.
LEMMA CollectionStep ==
    ASSUME MInv, Collection
    PROVE  MInv'
<1> USE DEF MInv, TypeInv
<1>1. PICK d \in Distros : Collect(d)
  BY DEF Collection
<1>2. UNCHANGED <<chaos, ing, ingCache, balancer, unborn>>
  BY <1>1 DEF Collect
<1>3. PICK new \in Object \cup {NoObject} : UserWrites(d, new)
  <2>1. obj[d] \in Object
    BY <1>1 DEF Collect, Orphaned, Exists, TypeOK
  <2>2. [obj[d] EXCEPT !.deleting = TRUE] \in Object
    BY <2>1 DEF Object
  <2> QED
    BY <1>1, <2>2 DEF Collect
<1>4. TypeInv' /\ Fresh'
  BY <1>2, <1>3, ForeignWrite DEF UserWrites, TypeOK, AwsTypeOK
<1> QED
  BY <1>2, <1>4, BesideKeeps DEF Collection

\* A crash forgets the passes of both controllers.
LEMMA RestartStep ==
    ASSUME MInv, Restart
    PROVE  MInv'
<1>1. Next
  BY DEF Restart, Next, Work, Environment
<1>2. IngressTypes' /\ BaseFresh'
  BY DEF MInv, Restart, IngressTypes, BaseFresh, Resting
<1> QED
  BY <1>1, <1>2, TypeStep, FreshStep DEF MInv

\* The steps that only the ingress controller's own surroundings take.
LEMMA SurroundingStep ==
    ASSUME MInv, IngressEvent \/ ApplyIngress \/ DeleteIngress \/ AddressChange
    PROVE  MInv'
<1> USE DEF MInv, TypeInv
<1>1. chaos' \in 0..MaxChaos
  BY PerturbTypes DEF IngressEvent, ApplyIngress, DeleteIngress, AddressChange, TypeOK, AwsTypeOK
<1>2. UNCHANGED <<awsVars, apiVars, inputVars, workerVars, unborn, ingPass>>
  BY DEF IngressEvent, ApplyIngress, DeleteIngress, AddressChange
<1>3. TypeInv' /\ Fresh' /\ BaseFresh'
  BY <1>1, <1>2 DEF TypeOK, AwsTypeOK, Dispatched, Fresh, Exists, BaseFresh, awsVars, apiVars,
                    inputVars, workerVars, passVars
<1>4. /\ ing' \in Ingress \cup {NoIngress} /\ ingCache' \in Ingress \cup {NoIngress}
      /\ balancer' \in Address
  <2>1. CASE IngressEvent
    BY <2>1 DEF IngressEvent, IngressTypes
  <2>2. CASE ApplyIngress \/ DeleteIngress
    BY <2>2 DEF ApplyIngress, DeleteIngress, IngressTypes
  <2>3. CASE AddressChange
    <3>1. ing # NoIngress => \A a \in Configs : [ing EXCEPT !.address = a] \in Ingress
      BY DEF IngressTypes, Ingress, Address
    <3> QED
      BY <2>3, <3>1 DEF AddressChange, IngressTypes, Address
  <2> QED
    BY <2>1, <2>2, <2>3
<1> QED
  BY <1>2, <1>3, <1>4 DEF IngressTypes

\* Every step of the manager keeps the invariant.
LEMMA ManagerStep ==
    ASSUME MInv, ManagerNext
    PROVE  MInv'
<1>1. CASE \E d \in Distros : \/ Beside(Begin(d)) \/ Beside(Skip(d))
                              \/ Beside(EditSpec(d)) \/ Beside(DeleteObject(d))
  BY <1>1, BesideStep DEF Beside, Next, Environment
<1>2. CASE Beside(Stretch) \/ \E i \in CfIds : Beside(Rollout(i))
  BY <1>2, BesideStep DEF Beside, Next, Work, Environment
<1>3. CASE \E d \in Distros : DistributionEvent(d)
  <2>1. PICK d \in Distros : DistributionEvent(d)
    BY <1>3
  <2>2. Next /\ UNCHANGED <<ing, ingCache, balancer, unborn, ingPass, obj>>
    BY <2>1 DEF DistributionEvent, Next, Environment, Sync
  <2> QED
    BY <2>2, TypeStep, FreshStep DEF MInv, IngressTypes, BaseFresh, Exists
<1> QED
  BY <1>1, <1>2, <1>3, IngressBeginStep, IngressCreateStep, IngressUpdateStep, CollectionStep,
     RestartStep, SurroundingStep DEF ManagerNext, IngressWork

\* The manager starts with types and copies in order.
LEMMA MInvInit ==
    ASSUME ManagerInit
    PROVE  MInv
<1>1. UnusedCf \in CfRecord
  BY DEF UnusedCf, CfRecord, CfConfig, Phases
<1>2. AwsTypeOK
  BY <1>1, QuotaAssumption DEF ManagerInit, AwsInit, AwsTypeOK
<1>3. EmptyStatus \in Status /\ NoSecret \in Held
  BY DEF EmptyStatus, Status, NoSecret, Held, SecretValues
<1>4. TypeInv /\ Fresh
  BY <1>2, <1>3 DEF ManagerInit, TypeInv, TypeOK, Dispatched, ProviderLabels, Fresh, ClassValues,
                    SecretValues, Labels
<1>5. Resting \in [target : Distros \cup {NoObject}, base : Object \cup {NoObject},
                   want : DistributionSpec \cup {NoConfig}, uid : Uids \cup {0},
                   fresh : BOOLEAN]
  BY DEF Resting
<1>6. ing \in Ingress \cup {NoIngress} /\ balancer \in Address
  BY DEF ManagerInit, Address
<1>7. IngressTypes /\ BaseFresh
  BY <1>5, <1>6 DEF ManagerInit, IngressTypes, BaseFresh, Resting
<1> QED
  BY <1>4, <1>7 DEF MInv

\* The two controllers together keep what one alone keeps: types, and copies that are
\* what they are taken for.
THEOREM Together == ManagerSpec => []MInv
<1>1. ManagerInit => MInv
  BY MInvInit
<1>2. MInv /\ [ManagerNext]_allVars => MInv'
  <2>1. ASSUME MInv, UNCHANGED allVars PROVE MInv'
    BY <2>1, Stutter DEF allVars, ingressVars, MInv, IngressTypes, BaseFresh, Exists, vars, apiVars
  <2> QED
    BY <2>1, ManagerStep
<1> QED
  BY <1>1, <1>2, PTL DEF ManagerSpec

\* A write of the ingress controller changes the spec of an object that exists, and
\* neither its status, its finalizer nor its deletion, however long ago it was read.
THEOREM SpecOnly == ManagerSpec => NeverUndone
<1>1. MInv /\ [ManagerNext]_allVars => [WriteSpecOnly]_allVars
  <2> SUFFICES ASSUME MInv, ManagerNext, NEW d \in Distros, ingPass.target = d,
                      ingPass' = Resting, obj'[d] # obj[d]
               PROVE  Exists(d) /\ obj'[d] = [obj[d] EXCEPT !.spec = ingPass.want]
    BY DEF WriteSpecOnly
  <2>1. d # NoObject
    BY IngressAssumption
  <2>2. ~Outdates
    <3>1. Outdates => ingPass'.target = ingPass.target
      BY DEF Outdates, MInv, IngressTypes
    <3> QED
      BY <2>1, <3>1 DEF Resting
  <2>3. IngressUpdate
    BY <2>1, <2>2 DEF ManagerNext, Beside, Collection, DistributionEvent, Sync, Restart, Panic, Crash,
                      Restarted, IngressWork, IngressBegin, IngressCreate, IngressEvent,
                      ApplyIngress, DeleteIngress, AddressChange, apiVars
  <2>4. /\ Unconflicted
        /\ Write(d, [ingPass.base EXCEPT !.spec = ingPass.want, !.status = obj[d].status])
    BY <2>3 DEF IngressUpdate, apiVars
  <2>5. /\ d \in Distros /\ Exists(d)
        /\ Write(d, [obj[d] EXCEPT !.spec = ingPass.want])
    BY <2>1, <2>4, Overwrite
  <2> QED
    BY <2>5 DEF Write, MInv, TypeInv, TypeOK
<1> QED
  BY <1>1, Together, PTL DEF ManagerSpec, NeverUndone

-----------------------------------------------------------------------------
(* Distributions come and go beside the controller that serves them.       *)

\* A UID not yet given out is known to nobody.
Unheard(d) == ~Exists(d) /\ cache[d] = NoObject /\ ~Busy(d)

\* What each Distribution owes to the ingress controller: a UID of its own, and the
\* owner reference by which its events find the Ingress.
Family == /\ \A d \in unborn : Unheard(d)
          /\ owner \in [Distros -> Uids \cup {0}]
          /\ \A d \in Distros : Exists(d) \/ ~synced[d] => owner[d] # 0
          /\ ingPass # Resting => ingPass.uid \in Uids
          /\ \A k \in ClassNames : class[k] # "absent"

\* What the Distribution controller relies on, alone or not.
Foundation == MInv /\ IInv /\ LiveCert /\ Earned /\ Family

\* An event that wakes the Ingress has come, or is about to.
Stirred == ingQueue \/ \E d \in Distros : ~synced[d]

\* The write a pass is about to do asks for what the newest Ingress it could know asks
\* for, and will be accepted.
Competent == /\ ingPass.uid \in Uids
             /\ ingPass.want = DesiredSpec(ingCache)
             /\ IF ingPass.target = NoObject THEN \A d \in Distros : ~Exists(d)
                                             ELSE ingPass.fresh

\* What the Ingress asks for, as far as the manager knows, is there, or on its way.
Followed == ~Passed(ingCache) /\ Accepted(DesiredSpec(ingCache))
              => \/ Stirred
                 \/ Competent
                 \/ \E d \in Distros : Exists(d) /\ obj[d].spec = DesiredSpec(ingCache)

-----------------------------------------------------------------------------
(* Writes of others leave the Distribution controller what it relies on.    *)

\* What the ingress controller and the garbage collector write: an object nobody has
\* heard of, or one that keeps its status and is no less deleted than before.
Innocent(d, new) ==
    \/ new = NoObject /\ (Exists(d) => ~obj[d].finalizer)
    \/ Unheard(d) /\ new.status = EmptyStatus /\ ~new.deleting
    \/ /\ Exists(d) /\ new \in Object /\ new.status = obj[d].status
       /\ obj[d].deleting => new.deleting
       /\ new.deleting => obj[d].deleting \/ new.finalizer
       /\ obj[d].finalizer => new.finalizer

\* A foreign write names nothing that was not named before, and takes nothing back.
LEMMA ForeignRecords ==
    ASSUME IInv, NEW d \in Distros, NEW new \in Object \cup {NoObject}, Write(d, new),
           Innocent(d, new), Outdate(d) \/ (~Exists(d) /\ UNCHANGED current),
           chaos' \in 0..MaxChaos, UNCHANGED <<awsVars, inputVars, passVars, queue, held>>
    PROVE  IInv'
<1> USE DEF IInv
<1>1. TypeInv' /\ Fresh'
  BY ForeignWrite
<1>2. UNCHANGED <<cf, acm, cache, pc, key, copy, cls, status>>
  BY DEF Write, awsVars, passVars
<1>3. obj'[d] = new /\ \A e \in Distros \ {d} : obj'[e] = obj[e]
  BY DEF Write, TypeInv, TypeOK
<1>4. 0 \notin CfIds /\ 0 \notin Arns /\ EmptyStatus.id = 0 /\ EmptyStatus.arn = 0
  BY QuotaAssumption DEF CfIds, Arns, EmptyStatus
<1>5. /\ \A e \in Distros, i \in CfIds : NamesCf(e, i)' => NamesCf(e, i)
      /\ \A e \in Distros, a \in Arns : NamesCert(e, a)' => NamesCert(e, a)
  BY <1>2, <1>3, <1>4 DEF NamesCf, NamesCert, Exists, Innocent
<1>6. Recorded'
  BY <1>2, <1>5 DEF Recorded
<1>7. Remembered'
  BY <1>2 DEF Remembered, GoneCf, GoneCert, AllDeleted, Wants
<1>8. Doomed'
  BY <1>2, <1>3 DEF Doomed, Exists, Innocent, Unheard, Busy
<1> QED
  BY <1>1, <1>6, <1>7, <1>8

\* A foreign write leaves a pass what it has earned, and every Distribution assured: the
\* one written is about to be heard of.
LEMMA ForeignAssured ==
    ASSUME TypeInv, NEW d \in Distros, NEW new \in Object \cup {NoObject}, Write(d, new),
           Innocent(d, new), Outdate(d) \/ (~Exists(d) /\ UNCHANGED current),
           UNCHANGED <<awsVars, inputVars, passVars, queue, held>>
    PROVE  (LiveCert => LiveCert') /\ (Earned => Earned') /\ (WInv => WInv')
<1> USE DEF TypeInv
<1>1. /\ UNCHANGED <<cf, acm, class, secret, queue, cache, pc, key, copy, cls, cert, status, etag>>
  BY DEF Write, awsVars, inputVars, passVars
<1>2. /\ obj'[d] = new /\ ~synced'[d]
      /\ \A e \in Distros \ {d} : obj'[e] = obj[e] /\ synced'[e] = synced[e]
  BY DEF Write, TypeOK
<1>3. LiveCert => LiveCert'
  BY <1>1 DEF LiveCert, Live, Imported
<1>4. Earned => Earned'
  BY <1>1 DEF Earned, Certified, Claims, Complete, Wants, Desired
<1>5. ASSUME NEW e \in Distros, Marked(e) PROVE Marked(e)'
  BY <1>2, <1>5 DEF Marked, Exists, Innocent
<1>6. ASSUME NEW e \in Distros, Assured(e) PROVE Assured(e)'
  <2>1. CASE e = d
    BY <1>2, <2>1 DEF Assured
  <2>2. CASE e # d
    <3>1. obj'[e] = obj[e] /\ synced'[e] = synced[e]
      BY <1>2, <2>2
    <3>2. Busy(e) => current' = current
      BY <2>2 DEF Busy, Outdate, TypeOK
    <3>3. /\ Exists(e)' = Exists(e) /\ Busy(e)' = Busy(e) /\ HasClass(e)' = HasClass(e)
          /\ HasSecret(e)' = HasSecret(e) /\ Served(e)' = Served(e)
      BY <1>1, <3>1 DEF Exists, Busy, HasClass, HasSecret, Served, Desired
    <3>4. Settled(e)' = Settled(e)
      BY <1>1, <3>1, <3>3 DEF Settled, Wants
    <3>5. Busy(e) => InHand(e)' = InHand(e)
      BY <1>1, <3>1, <3>2, <3>3 DEF InHand, Wants
    <3> QED
      BY <1>1, <1>4, <1>6, <3>1, <3>3, <3>4, <3>5 DEF Assured
  <2> QED
    BY <2>1, <2>2
<1> QED
  BY <1>3, <1>4, <1>5, <1>6 DEF WInv

-----------------------------------------------------------------------------
(* Every step keeps what the Distribution controller relies on.             *)

\* Where the API server's objects change: only those that exist, and the cache does not
\* know yet, unless a watch or a restart brings it up to date.
LEMMA ApiStep ==
    ASSUME IInv, Next, NEW d \in Distros
    PROVE  \/ obj'[d] = obj[d] /\ (synced'[d] \/ ~synced[d])
           \/ Exists(d) /\ ~synced'[d]
<1> USE DEF IInv, TypeInv
<1>1. ASSUME NEW e \in Distros, NEW new, Write(e, new), e = d => Exists(d)
      PROVE  \/ obj'[d] = obj[d] /\ (synced'[d] \/ ~synced[d])
             \/ Exists(d) /\ ~synced'[d]
  BY <1>1, Written
<1>2. CASE Work
  <2>1. \/ UNCHANGED apiVars \/ Restarted
        \/ key \in Distros /\ Exists(key) /\ \E new : Write(key, new)
    BY <1>2 DEF Work, Stretch, AddFinalizer, Resolve, Report, ReportDeletion, Unfinalize,
                WriteStatus, apiVars, Panic, Fresh, TypeOK
  <2> QED
    BY <1>1, <2>1 DEF apiVars, Restarted
<1>3. CASE Environment
  <2>1. \/ UNCHANGED apiVars \/ Restarted \/ \E e \in Distros : Sync(e)
        \/ \E e \in Distros : Exists(e) /\ \E new : Write(e, new)
    BY <1>3 DEF Environment, EditSpec, DeleteObject, UserWrites, Resync, ClassChange, SecretChange,
                Rollout, Meddle, othersVars, apiVars, Crash
  <2> QED
    BY <1>1, <2>1 DEF apiVars, Restarted, Sync, TypeOK
<1>4. CASE \E e \in Distros : Begin(e) \/ Skip(e)
  BY <1>4 DEF Begin, Skip, apiVars
<1> QED
  BY <1>2, <1>3, <1>4 DEF Next

\* What nobody has heard of the Distribution controller does not bring up.
LEMMA UnheardStep ==
    ASSUME IInv, Next, NEW d \in Distros, Unheard(d)
    PROVE  Unheard(d)'
<1> USE DEF IInv, TypeInv, Unheard
<1>1. obj'[d] = NoObject
  BY ApiStep DEF Exists
<1>2. cache'[d] = NoObject
  BY DEF Exists, TypeOK, Next, Begin, Skip, Work, Stretch, AddFinalizer, Resolve, Report,
         ReportDeletion, WriteStatus, Unfinalize, Panic, Crash, Restarted, Environment, EditSpec,
         DeleteObject, UserWrites, Write, Sync, Resync, ClassChange, SecretChange, Rollout, Meddle,
         othersVars, apiVars
<1>3. ~Busy(d)'
  <2>1. \A e \in Distros : Begin(e) => e # d
    BY DEF Begin, Ignored
  <2>2. CASE Work
    BY <2>2 DEF Busy, Work, Stretch, AddFinalizer, Resolve, Report, ReportDeletion, Unfinalize,
                Finish, Panic, Restarted, IdleAgain, ProviderStep, Describe, Import, DeleteCert,
                Load, Create, Update, Disable, DeleteCf, Put, given
  <2>3. CASE Environment
    BY <2>3 DEF Busy, Environment, EditSpec, DeleteObject, UserWrites, Sync, Resync, ClassChange,
                SecretChange, Rollout, Meddle, othersVars, passVars, Crash, Restarted, IdleAgain
  <2> QED
    BY <2>1, <2>2, <2>3 DEF Next, Begin, Skip, Busy, passVars
<1> QED
  BY <1>1, <1>2, <1>3 DEF Exists

\* A write of the ingress controller or of the garbage collector.
ForeignStep ==
    \E d \in Distros : \E new \in Object \cup {NoObject} :
        /\ Write(d, new) /\ Innocent(d, new)
        /\ Outdate(d) \/ (~Exists(d) /\ UNCHANGED current)
        /\ UNCHANGED <<awsVars, inputVars, passVars, queue, held>>
        /\ \/ Exists(d) /\ UNCHANGED <<owner, unborn>>
           \/ /\ d \in unborn /\ unborn' = unborn \ {d}
              /\ ingPass.uid \in Uids /\ owner' = [owner EXCEPT ![d] = ingPass.uid]

\* A step that leaves the Distribution controller and its world alone.
AsideStep == UNCHANGED <<awsVars, apiVars, inputVars, workerVars, owner, unborn>>

\* Every step is one of the Distribution controller and its world, or a foreign write, or
\* leaves both alone.
LEMMA WhoWrites ==
    ASSUME Foundation, ManagerNext
    PROVE  /\ (Next /\ UNCHANGED <<owner, unborn>>) \/ ForeignStep \/ AsideStep
           /\ UNCHANGED class
<1> USE DEF Foundation, MInv, TypeInv
<1>1. CASE \E d \in Distros : \/ Beside(Begin(d)) \/ Beside(Skip(d)) \/ DistributionEvent(d)
                              \/ Beside(EditSpec(d)) \/ Beside(DeleteObject(d))
  BY <1>1 DEF Beside, DistributionEvent, Next, Environment, Begin, Skip, Sync, EditSpec,
              DeleteObject, UserWrites, inputVars
<1>2. CASE Beside(Stretch) \/ \E i \in CfIds : Beside(Rollout(i))
  BY <1>2 DEF Beside, Next, Work, Environment, Stretch, AddFinalizer, Resolve, Report,
              ReportDeletion, Unfinalize, Rollout, othersVars, inputVars
<1>3. CASE Restart
  BY <1>3 DEF Restart, Next, Work, Environment, Panic, Crash, Restarted, inputVars
<1>4. CASE IngressBegin \/ IngressEvent \/ ApplyIngress \/ DeleteIngress \/ AddressChange
  BY <1>4 DEF IngressBegin, IngressEvent, ApplyIngress, DeleteIngress, AddressChange, AsideStep,
              inputVars
<1>5. CASE IngressCreate
  <2>1. CASE UNCHANGED <<apiVars, owner, unborn>>
    BY <1>5, <2>1 DEF IngressCreate, AsideStep, inputVars
  <2>2. CASE ~UNCHANGED <<apiVars, owner, unborn>>
    <3>1. PICK d, new :
               /\ d = CHOOSE e \in unborn : TRUE
               /\ new = [spec |-> ingPass.want, deleting |-> FALSE, finalizer |-> FALSE,
                         status |-> EmptyStatus]
               /\ unborn # {} /\ Accepted(ingPass.want) /\ ~\E e \in Distros : Exists(e)
               /\ Write(d, new)
               /\ owner' = [owner EXCEPT ![d] = ingPass.uid] /\ unborn' = unborn \ {d}
      BY <1>5, <2>2 DEF IngressCreate, OwnerReference
    <3>2. d \in unborn /\ d \in Distros /\ Unheard(d) /\ ~Exists(d)
      BY <3>1 DEF Family, IngressTypes
    <3>3. ingPass.want \in Specs /\ ingPass.uid \in Uids
      BY <1>5, <3>1, IngressAssumption DEF IngressCreate, IngressTypes, Accepted, Family
    <3>4. new \in Object /\ new.status = EmptyStatus /\ ~new.deleting
      BY <3>1, <3>3 DEF Object, EmptyStatus, Status
    <3> QED
      BY <1>5, <3>1, <3>2, <3>3, <3>4 DEF IngressCreate, ForeignStep, Innocent, workerVars, inputVars
  <2> QED
    BY <2>1, <2>2
<1>6. CASE IngressUpdate
  <2>1. CASE UNCHANGED <<apiVars, current>>
    BY <1>6, <2>1 DEF IngressUpdate, AsideStep, inputVars, workerVars
  <2>2. CASE ~UNCHANGED <<apiVars, current>>
    <3>1. Unconflicted /\ Accepted(ingPass.want) /\ Outdate(ingPass.target)
      BY <1>6, <2>2 DEF IngressUpdate
    <3>2. PICK d, new :
               /\ d = ingPass.target /\ new = [obj[d] EXCEPT !.spec = ingPass.want]
               /\ Write(d, new) /\ d \in Distros /\ Exists(d) /\ obj[d] \in Object
      BY <1>6, <2>2, <3>1, Overwrite DEF IngressUpdate
    <3>3. ingPass.want \in Specs
      BY <1>6, <3>1, IngressAssumption DEF IngressUpdate, IngressTypes, Accepted, Resting
    <3>4. /\ new \in Object /\ new.status = obj[d].status /\ new.deleting = obj[d].deleting
          /\ new.finalizer = obj[d].finalizer
      BY <3>2, <3>3 DEF Object
    <3> QED
      BY <1>6, <3>1, <3>2, <3>4 DEF IngressUpdate, ForeignStep, Innocent, inputVars
  <2> QED
    BY <2>1, <2>2
<1>7. CASE Collection
  <2>1. PICK d \in Distros : Collect(d)
    BY <1>7 DEF Collection
  <2>2. obj[d] \in Object /\ Exists(d)
    BY <2>1 DEF Collect, Orphaned, Exists, TypeOK
  <2>3. PICK new \in Object \cup {NoObject} : UserWrites(d, new) /\ Innocent(d, new)
    <3>1. LET new == [obj[d] EXCEPT !.deleting = TRUE] IN
          new \in Object /\ new.status = obj[d].status /\ new.deleting /\ new.finalizer = obj[d].finalizer
      BY <2>2 DEF Object
    <3> QED
      BY <2>1, <2>2, <3>1 DEF Collect, Innocent
  <2> QED
    BY <2>1, <2>2, <2>3 DEF Collect, UserWrites, ForeignStep, inputVars
<1> QED
  BY <1>1, <1>2, <1>3, <1>4, <1>5, <1>6, <1>7 DEF ManagerNext, IngressWork

\* A pass that is about to write keeps the UID of the Ingress it began with.
LEMMA PassUid ==
    ASSUME MInv, Family, ManagerNext
    PROVE  ingPass' # Resting => ingPass'.uid \in Uids
<1>1. CASE ingPass' = ingPass
  BY <1>1 DEF Family
<1>2. CASE Outdates
  <2>1. CASE ingPass = Resting
    BY <1>2, <2>1 DEF Outdates, Resting
  <2>2. CASE ingPass # Resting
    BY <1>2, <2>2 DEF Outdates, Family, MInv, IngressTypes
  <2> QED
    BY <2>1, <2>2
<1>3. CASE IngressBegin
  <2>1. ~Passed(ingCache) => ingCache.uid \in Uids
    BY DEF Passed, MInv, IngressTypes, Ingress
  <2>2. [Resting EXCEPT !.want = DesiredSpec(ingCache), !.uid = ingCache.uid].uid = ingCache.uid
    BY DEF Resting
  <2>3. \/ ingPass' = Resting
        \/ ~Passed(ingCache) /\ ingPass'.uid = ingCache.uid
    <3>1. \/ ingPass' = Resting
          \/ /\ ~Passed(ingCache)
             /\ ingPass' = [Resting EXCEPT !.want = DesiredSpec(ingCache), !.uid = ingCache.uid]
          \/ \E d \in Found : /\ ~Passed(ingCache)
                              /\ ingPass' = [target |-> d, base |-> cache[d], uid |-> ingCache.uid,
                                             want |-> DesiredSpec(ingCache), fresh |-> synced[d]]
      BY <1>3 DEF IngressBegin
    <3>2. ASSUME NEW d, ingPass' = [target |-> d, base |-> cache[d], uid |-> ingCache.uid,
                                    want |-> DesiredSpec(ingCache), fresh |-> synced[d]]
          PROVE  ingPass'.uid = ingCache.uid
      BY <3>2
    <3>3. ASSUME ingPass' = [Resting EXCEPT !.want = DesiredSpec(ingCache), !.uid = ingCache.uid]
          PROVE  ingPass'.uid = ingCache.uid
      BY <2>2, <3>3
    <3> QED
      BY <2>2, <3>1, <3>2, <3>3
  <2> QED
    BY <2>1, <2>3
<1>4. ingPass' = Resting \/ ingPass' = ingPass \/ Outdates \/ IngressBegin
  BY DEF ManagerNext, Beside, DistributionEvent, IngressWork, IngressCreate, IngressUpdate,
         IngressEvent, ApplyIngress, DeleteIngress, AddressChange, Collection, Restart
<1> QED
  BY <1>1, <1>2, <1>3, <1>4

\* Every step keeps what the Distribution controller relies on.
LEMMA FoundationStep ==
    ASSUME Foundation, ManagerNext
    PROVE  Foundation' /\ (Undisturbed /\ WInv => WInv')
<1> USE DEF Foundation
<1>1. MInv' /\ UNCHANGED class /\ (ingPass' # Resting => ingPass'.uid \in Uids)
  BY ManagerStep, WhoWrites, PassUid
<1>2. CASE Next /\ UNCHANGED <<owner, unborn>>
  <2>1. IInv' /\ LiveCert' /\ Earned'
    BY <1>2, RecordsStep, LiveCertStep, EarnedStep DEF IInv
  <2>2. \A d \in Distros : Exists(d)' \/ ~synced'[d] => Exists(d) \/ ~synced[d]
    BY <1>2, ApiStep DEF Exists
  <2>3. Family'
    BY <1>1, <1>2, <2>2, UnheardStep DEF Family, MInv, IngressTypes
  <2>4. Undisturbed /\ WInv => WInv'
    BY <1>2, AssuredStep, MarkedStep DEF WInv
  <2> QED
    BY <1>1, <2>1, <2>3, <2>4
<1>3. CASE ForeignStep
  <2>1. PICK d \in Distros, new \in Object \cup {NoObject} :
               /\ Write(d, new) /\ Innocent(d, new)
               /\ Outdate(d) \/ (~Exists(d) /\ UNCHANGED current)
               /\ UNCHANGED <<awsVars, inputVars, passVars, queue, held>>
               /\ \/ Exists(d) /\ UNCHANGED <<owner, unborn>>
                  \/ /\ d \in unborn /\ unborn' = unborn \ {d}
                     /\ ingPass.uid \in Uids /\ owner' = [owner EXCEPT ![d] = ingPass.uid]
    BY <1>3 DEF ForeignStep
  <2>2. chaos' \in 0..MaxChaos
    BY <1>1 DEF MInv, TypeInv, TypeOK, AwsTypeOK
  <2>3. IInv' /\ LiveCert' /\ Earned' /\ (WInv => WInv')
    BY <2>1, <2>2, ForeignRecords, ForeignAssured DEF IInv
  <2>4. /\ \A e \in Distros \ {d} : /\ obj'[e] = obj[e] /\ synced'[e] = synced[e]
                                   /\ owner'[e] = owner[e]
        /\ owner'[d] # 0 /\ owner' \in [Distros -> Uids \cup {0}]
    BY <2>1 DEF Write, MInv, TypeInv, TypeOK, Family, Uids
  <2>5. /\ d \notin unborn' /\ unborn' \subseteq unborn /\ unborn \subseteq Distros
        /\ UNCHANGED <<cache, pc, key>>
    BY <2>1 DEF Write, passVars, Family, Unheard, MInv, IngressTypes
  <2>6. Family'
    BY <1>1, <2>4, <2>5 DEF Family, Unheard, Exists, Busy
  <2> QED
    BY <1>1, <2>3, <2>6
<1>4. CASE AsideStep
  <2>1. UNCHANGED <<cf, acm, obj, cache, synced, class, secret, queue, current, pc, key, copy, cls,
                    cert, status, etag, owner, unborn>>
    BY <1>4 DEF AsideStep, awsVars, apiVars, inputVars, workerVars, passVars
  <2>2. IInv'
    BY <1>1, <2>1 DEF IInv, MInv, Recorded, NamesCf, NamesCert, Exists, Remembered, GoneCf, GoneCert,
                      AllDeleted, Wants, Doomed
  <2>3. LiveCert' /\ Earned'
    BY <2>1 DEF LiveCert, Live, Imported, Earned, Certified, Claims, Complete, Wants, Desired
  <2>4. WInv => WInv'
    BY <2>1, <2>3 DEF WInv, Assured, Marked, Exists, Busy, InHand, Settled, Served, HasClass,
                      HasSecret, Desired, Wants
  <2>5. Family'
    BY <1>1, <2>1 DEF Family, Unheard, Exists, Busy
  <2> QED
    BY <1>1, <2>2, <2>3, <2>4, <2>5
<1> QED
  BY <1>2, <1>3, <1>4, WhoWrites

-----------------------------------------------------------------------------
(* What the Ingress asks for is never forgotten.                            *)

\* Beside the ingress worker, objects stay as they are, or an event is on its way.
LEMMA BesideWrites ==
    ASSUME MInv,
           \/ Stretch
           \/ \E d \in Distros : Begin(d) \/ Skip(d) \/ EditSpec(d) \/ DeleteObject(d)
           \/ \E i \in CfIds : Rollout(i)
    PROVE  UNCHANGED apiVars \/ \E d \in Distros : ~synced'[d]
<1> USE DEF MInv, TypeInv, TypeOK
<1>1. ASSUME NEW d \in Distros, NEW new, Write(d, new)
      PROVE  \E e \in Distros : ~synced'[e]
  BY <1>1 DEF Write
<1>2. CASE Stretch
  <2>1. \/ UNCHANGED apiVars
        \/ key \in Distros /\ \E new : Write(key, new)
    BY <1>2 DEF Stretch, AddFinalizer, Resolve, Report, ReportDeletion, Unfinalize, WriteStatus,
                apiVars
  <2> QED
    BY <1>1, <2>1
<1>3. CASE \E d \in Distros : EditSpec(d) \/ DeleteObject(d)
  BY <1>1, <1>3 DEF EditSpec, DeleteObject, UserWrites
<1> QED
  BY <1>2, <1>3 DEF Begin, Skip, Rollout, othersVars, apiVars

\* While no object changes, a pass in hand stays as good as it was.
LEMMA FollowedBeside ==
    ASSUME MInv, Followed, Outdates, UNCHANGED <<ingCache, balancer, ingQueue>>,
           UNCHANGED apiVars \/ \E d \in Distros : ~synced'[d]
    PROVE  Followed'
<1>1. CASE \E d \in Distros : ~synced'[d]
  BY <1>1 DEF Followed, Stirred
<1>2. CASE UNCHANGED apiVars
  <2>1. ingPass' = ingPass
    BY <1>2 DEF Outdates, apiVars, MInv, IngressTypes
  <2> QED
    BY <1>2, <2>1 DEF Followed, Stirred, Competent, Exists, apiVars, Passed, DesiredSpec, Origin
<1> QED
  BY <1>1, <1>2

\* A pass that begins finds what is asked for in place, or goes to put it there, or has
\* looked at a cache that an event is about to bring up to date.
LEMMA FollowedBegin ==
    ASSUME MInv, IngressBegin
    PROVE  Followed'
<1> USE DEF MInv, TypeInv
<1>1. /\ UNCHANGED <<obj, cache, synced, ingCache, balancer>>
      /\ Passed(ingCache)' = Passed(ingCache) /\ DesiredSpec(ingCache)' = DesiredSpec(ingCache)
  BY DEF IngressBegin, apiVars, Passed, DesiredSpec, Origin
<1>2. SUFFICES ASSUME ~Passed(ingCache), \A d \in Distros : synced[d]
               PROVE  \/ Competent'
                      \/ \E d \in Distros : Exists(d)' /\ obj'[d].spec = DesiredSpec(ingCache)
  BY <1>1 DEF Followed, Stirred
<1>3. ingCache.uid \in Uids
  BY <1>2 DEF Passed, IngressTypes, Ingress
<1>4. \A d \in Distros : obj'[d] = cache[d]
  BY <1>1, <1>2 DEF Fresh
<1>5. CASE Found = {}
  <2>1. ingPass' = [Resting EXCEPT !.want = DesiredSpec(ingCache), !.uid = ingCache.uid]
    BY <1>2, <1>5 DEF IngressBegin
  <2>2. /\ ingPass'.target = NoObject /\ ingPass'.want = DesiredSpec(ingCache)
        /\ ingPass'.uid = ingCache.uid
    BY <2>1 DEF Resting
  <2>3. \A d \in Distros : ~Exists(d)'
    BY <1>4, <1>5 DEF Found, Exists
  <2> QED
    BY <1>1, <1>3, <2>2, <2>3 DEF Competent
<1>6. ASSUME NEW d \in Found,
             ingPass' = IF InSync(d, DesiredSpec(ingCache)) THEN Resting
                        ELSE [target |-> d, base |-> cache[d], uid |-> ingCache.uid,
                              want |-> DesiredSpec(ingCache), fresh |-> synced[d]]
      PROVE  \/ Competent'
             \/ \E e \in Distros : Exists(e)' /\ obj'[e].spec = DesiredSpec(ingCache)
  <2>1. d \in Distros /\ cache[d] # NoObject /\ d # NoObject
    BY IngressAssumption DEF Found
  <2>2. CASE InSync(d, DesiredSpec(ingCache))
    BY <1>4, <2>1, <2>2 DEF InSync, Exists
  <2>3. CASE ~InSync(d, DesiredSpec(ingCache))
    BY <1>1, <1>2, <1>3, <1>6, <2>1, <2>3 DEF Competent
  <2> QED
    BY <2>2, <2>3
<1> QED
  BY <1>2, <1>5, <1>6 DEF IngressBegin

\* A competent write is accepted, and what it writes is an event; of any other write,
\* what was already on its way is unaffected.
LEMMA FollowedWrite ==
    ASSUME MInv, "apiError" \notin Chaos, Followed, IngressCreate \/ IngressUpdate
    PROVE  Followed'
<1> USE DEF MInv, TypeInv, TypeOK
<1>1. /\ UNCHANGED <<ingCache, balancer, ingQueue>>
      /\ Passed(ingCache)' = Passed(ingCache) /\ DesiredSpec(ingCache)' = DesiredSpec(ingCache)
  BY DEF IngressCreate, IngressUpdate, Passed, DesiredSpec, Origin
<1>2. SUFFICES ASSUME ~Passed(ingCache), Accepted(DesiredSpec(ingCache)),
                      \A d \in Distros : synced'[d]
               PROVE  Followed'
  BY <1>1 DEF Followed, Stirred
<1>3. ~Perturb("apiError")
  BY DEF Perturb
<1>4. ASSUME NEW d \in Distros, NEW new, Write(d, new) PROVE FALSE
  BY <1>2, <1>4 DEF Write
<1>5. UNCHANGED <<obj, synced>> /\ ~Competent
  <2>1. CASE IngressCreate
    <3>1. unborn # {} => (CHOOSE d \in unborn : TRUE) \in Distros
      BY DEF IngressTypes
    <3>2. /\ UNCHANGED apiVars
          /\ ~Accepted(ingPass.want) \/ \E d \in Distros : Exists(d)
      BY <1>3, <1>4, <2>1, <3>1 DEF IngressCreate
    <3> QED
      BY <1>2, <2>1, <3>2 DEF IngressCreate, Competent, apiVars
  <2>2. CASE IngressUpdate
    <3>1. ingPass.target \in Distros
      BY <2>2 DEF IngressUpdate, IngressTypes
    <3>2. UNCHANGED apiVars /\ ~(Accepted(ingPass.want) /\ Unconflicted)
      BY <1>3, <1>4, <2>2, <3>1 DEF IngressUpdate
    <3> QED
      BY <1>2, <2>2, <3>2 DEF IngressUpdate, Competent, Unconflicted, apiVars
  <2> QED
    BY <2>1, <2>2
<1> QED
  BY <1>1, <1>2, <1>5 DEF Followed, Stirred, Exists

\* Whatever happens, what the Ingress asks for is there or on its way.
LEMMA FollowedStep ==
    ASSUME Foundation, Undisturbed, ~UsesService, Followed, ManagerNext
    PROVE  Followed'
<1> USE DEF Foundation
<1>1. CASE \/ Beside(Stretch)
           \/ \E d \in Distros : \/ Beside(Begin(d)) \/ Beside(Skip(d))
                                 \/ Beside(EditSpec(d)) \/ Beside(DeleteObject(d))
           \/ \E i \in CfIds : Beside(Rollout(i))
  BY <1>1, BesideWrites, FollowedBeside DEF Beside
<1>2. CASE IngressBegin
  BY <1>2, FollowedBegin
<1>3. CASE IngressCreate \/ IngressUpdate
  BY <1>3, FollowedWrite DEF Undisturbed
<1>4. CASE IngressEvent
  BY <1>4 DEF IngressEvent, Followed, Stirred
<1>5. ASSUME NEW d \in Distros, DistributionEvent(d) PROVE Followed'
  <2>1. owner[d] # 0
    BY <1>5 DEF DistributionEvent, Sync, Family
  <2> QED
    BY <1>5, <2>1 DEF DistributionEvent, Owns, Followed, Stirred
<1>6. CASE ApplyIngress \/ DeleteIngress \/ AddressChange
  <2>1. /\ UNCHANGED <<obj, cache, synced, ingCache, ingQueue, ingPass>>
        /\ Passed(ingCache)' = Passed(ingCache) /\ DesiredSpec(ingCache)' = DesiredSpec(ingCache)
    BY <1>6 DEF ApplyIngress, DeleteIngress, AddressChange, apiVars, Passed, DesiredSpec, Origin
  <2> QED
    BY <2>1 DEF Followed, Stirred, Competent, Exists
<1>7. CASE Collection
  <2>1. \E d \in Distros : ~synced'[d]
    BY <1>7 DEF Collection, Collect, UserWrites, Write, MInv, TypeInv, TypeOK
  <2> QED
    BY <2>1 DEF Followed, Stirred
<1>8. CASE Restart
  BY <1>8 DEF Restart, Followed, Stirred, Passed
<1> QED
  BY <1>1, <1>2, <1>3, <1>4, <1>5, <1>6, <1>7, <1>8 DEF ManagerNext, IngressWork

-----------------------------------------------------------------------------
(* The theorems of both controllers together.                               *)

\* A cluster without a Distribution has nothing to lose.
LEMMA FoundationInit ==
    ASSUME ManagerInit
    PROVE  Foundation /\ WInv /\ Followed
<1>1. MInv
  BY MInvInit
<1>2. /\ pc = "idle" /\ owner = [d \in Distros |-> 0] /\ unborn = Distros
      /\ \A d \in Distros : obj[d] = NoObject /\ cache[d] = NoObject /\ synced[d]
  BY DEF ManagerInit
<1>3. Recorded /\ Remembered /\ Doomed
  BY <1>2 DEF Recorded, NamesCf, NamesCert, Exists, Remembered, Doomed
<1>4. LiveCert /\ Earned
  BY DEF ManagerInit, AwsInit, UnusedCf, LiveCert, Live, Earned, Claims
<1>5. \A k \in ClassNames : class[k] # "absent"
  BY SpecAssumption DEF ManagerInit
<1>6. Family
  BY <1>2, <1>5 DEF Family, Unheard, Exists, Busy, ManagerInit
<1>7. WInv
  BY <1>2 DEF WInv, Assured, Marked, Exists
<1>8. Followed
  BY DEF ManagerInit, Followed, Passed
<1> QED
  BY <1>1, <1>3, <1>4, <1>6, <1>7, <1>8 DEF Foundation, IInv, MInv

\* Nothing that the invariants speak of changes while no variable does.
LEMMA ManagerStutter ==
    ASSUME UNCHANGED allVars
    PROVE  /\ Foundation => Foundation'
           /\ WInv => WInv'
           /\ Followed => Followed'
<1>1. UNCHANGED <<cf, acm, chaos, obj, cache, synced, class, secret, queue, current, held, pc, key,
                  copy, cls, cert, status, etag, failed>>
  BY DEF allVars, vars, awsVars, apiVars, inputVars, workerVars, passVars
<1>2. UNCHANGED <<ing, ingCache, balancer, owner, unborn, uids, ingQueue, ingPass>>
  BY DEF allVars, ingressVars
<1>3. MInv => MInv'
  BY <1>1, <1>2, Stutter DEF allVars, MInv, IngressTypes, BaseFresh, Exists
<1>4. IInv => TypeInv' /\ Fresh'
  BY Stutter DEF allVars, IInv
<1>5. IInv => IInv'
  BY <1>1, <1>4 DEF IInv, Recorded, NamesCf, NamesCert, Exists, Remembered, GoneCf, GoneCert,
                    AllDeleted, Wants, Doomed
<1>6. (LiveCert => LiveCert') /\ (Earned => Earned')
  BY <1>1 DEF LiveCert, Live, Imported, Earned, Certified, Claims, Complete, Wants, Desired
<1>7. Family => Family'
  BY <1>1, <1>2 DEF Family, Unheard, Exists, Busy
<1>8. WInv => WInv'
  BY <1>1 DEF WInv, Assured, Marked, Exists, Busy, InHand, Settled, Served, HasClass, HasSecret,
              Desired, Wants, Earned, Certified, Claims, Complete
<1>9. Followed => Followed'
  BY <1>1, <1>2 DEF Followed, Stirred, Competent, Exists, Passed, DesiredSpec, Origin
<1> QED
  BY <1>3, <1>5, <1>6, <1>7, <1>8, <1>9 DEF Foundation

\* What the proofs about one controller rest on is invariant of both: a write of the
\* other is as harmless as a user's, and no name is given twice.
THEOREM FoundationTogether == ManagerSpec => []Foundation
<1>1. Foundation /\ [ManagerNext]_allVars => Foundation'
  BY FoundationStep, ManagerStutter
<1> QED
  BY <1>1, FoundationInit, PTL DEF ManagerSpec

\* No wakeup of either controller is lost to the other, as far as Distributions go.
THEOREM TendedTogether ==
    ASSUME Undisturbed
    PROVE  ManagerSpec => []WInv
<1>1. Foundation /\ WInv /\ [ManagerNext]_allVars => WInv'
  BY FoundationStep, ManagerStutter
<1> QED
  BY <1>1, FoundationInit, FoundationTogether, PTL DEF ManagerSpec

\* Once both controllers rest, a Distribution still being deleted would be in somebody's
\* hands.
LEMMA NoneDying ==
    ASSUME Foundation, WInv, AllQuiet, NEW d \in Distros, Exists(d)
    PROVE  ~obj[d].deleting /\ owner[d] # 0
<1>1. Settled(d) /\ synced[d] /\ owner[d] # 0
  BY DEF AllQuiet, Quiet, WInv, Assured, Busy, Foundation, Family
<1>2. HasClass(d)
  <2>1. obj[d] \in Object
    BY DEF Foundation, MInv, TypeInv, TypeOK, Exists
  <2>2. obj[d].spec.class \in ClassNames
    BY <2>1, SpecAssumption DEF Object, DistributionSpec
  <2> QED
    BY <2>2 DEF HasClass, Foundation, Family
<1> QED
  BY <1>1, <1>2 DEF Settled

\* An Ingress that is gone leaves no Distribution behind, whatever pass over it was late.
THEOREM NothingOrphaned ==
    ASSUME Undisturbed
    PROVE  ManagerSpec => []CleanWhenQuiet
<1>1. Foundation /\ WInv => CleanWhenQuiet
  BY NoneDying DEF CleanWhenQuiet, AllQuiet, Orphaned
<1> QED
  BY <1>1, FoundationTogether, TendedTogether, PTL

\* Without a Service of its own the Ingress is always followed: no update is lost.
THEOREM NoLostUpdate ==
    ASSUME Undisturbed, ~UsesService
    PROVE  ManagerSpec => []InSyncWhenQuiet
<1>1. Foundation /\ Followed /\ [ManagerNext]_allVars => Followed'
  BY FollowedStep, ManagerStutter
<1>2. Foundation /\ WInv /\ Followed => InSyncWhenQuiet
  <2> SUFFICES ASSUME Foundation, WInv, Followed, AllQuiet, Wanted
               PROVE  \E d \in Distros : /\ Exists(d)
                                         /\ owner[d] = ing.uid
                                         /\ obj[d].spec = DesiredSpec(ing)
    BY DEF InSyncWhenQuiet
  <2>1. ~Stirred /\ ~Competent
    BY DEF AllQuiet, Quiet, Stirred, Competent, Resting, Uids
  <2>2. PICK d \in Distros : Exists(d) /\ obj[d].spec = DesiredSpec(ing)
    BY <2>1 DEF Followed, AllQuiet, Wanted
  <2>3. owner[d] = ing.uid
    BY <2>2, NoneDying DEF AllQuiet, Orphaned
  <2> QED
    BY <2>2, <2>3
<1> QED
  BY <1>1, <1>2, FoundationInit, FoundationTogether, TendedTogether, PTL DEF ManagerSpec

-----------------------------------------------------------------------------
(* What one controller alone never does, it does not beside the other.      *)

\* A write of the ingress controller or of the garbage collector changes nothing at AWS,
\* nor any status, and takes away no object that has a finalizer.
LEMMA ForeignChanges ==
    ASSUME TypeInv, ForeignStep \/ AsideStep
    PROVE  /\ cf' = cf
           /\ \A d \in Distros :
                /\ Exists(d) /\ obj[d].finalizer => obj'[d] # NoObject
                /\ Exists(d) /\ obj'[d] # NoObject => obj'[d].status = obj[d].status
<1>1. CASE AsideStep
  BY <1>1 DEF AsideStep, awsVars, apiVars, Exists
<1>2. CASE ForeignStep
  <2>1. PICK d \in Distros, new \in Object \cup {NoObject} :
               Write(d, new) /\ Innocent(d, new) /\ cf' = cf
    BY <1>2 DEF ForeignStep, awsVars
  <2>2. obj'[d] = new /\ \A e \in Distros \ {d} : obj'[e] = obj[e]
    BY <2>1 DEF Write, TypeInv, TypeOK
  <2>3. Exists(d) /\ obj[d].finalizer => new # NoObject
    BY <2>1, SpecAssumption DEF Innocent, Unheard
  <2>4. Exists(d) /\ new # NoObject => new.status = obj[d].status
    BY <2>1 DEF Innocent, Unheard
  <2> QED
    BY <2>1, <2>2, <2>3, <2>4 DEF Exists
<1> QED
  BY <1>1, <1>2

\* Beside the ingress controller, its stale copies and the garbage collector, the
\* Distribution controller still reports ready only what is, forgets and finalizes only
\* what is gone, and turns off only what is doomed.
THEOREM SafeTogether ==
    ManagerSpec => ReadyIsEarned /\ ForgetOnlyDead /\ UnfinalizeOnlyWhenGone /\ NeverTurnedOff
<1> DEFINE Safe == EarnReady /\ ForgetDead /\ UnfinalizeWhenGone /\ TurnOffDoomed
<1>1. Foundation /\ [ManagerNext]_allVars => [Safe]_vars
  <2>1. ASSUME Foundation, Next PROVE Safe
    BY <2>1, ReadySafe, ForgetStep, UnfinalizeSafe, TurnOffSafe DEF Foundation
  <2>2. ASSUME Foundation, ForeignStep \/ AsideStep PROVE Safe
    BY <2>2, ForeignChanges
    DEF Foundation, MInv, EarnReady, ForgetDead, UnfinalizeWhenGone, TurnOffDoomed, Live
  <2>3. ASSUME Foundation, ManagerNext PROVE Safe
    BY <2>1, <2>2, <2>3, WhoWrites
  <2>4. UNCHANGED allVars => UNCHANGED vars
    BY DEF allVars
  <2> QED
    BY <2>3, <2>4
<1>2. ManagerSpec => [][Safe]_vars
  BY <1>1, FoundationTogether, PTL DEF ManagerSpec
<1>3. [Safe]_vars => /\ [EarnReady]_vars /\ [ForgetDead]_vars
                     /\ [UnfinalizeWhenGone]_vars /\ [TurnOffDoomed]_vars
  OBVIOUS
<1> QED
  BY <1>2, <1>3, PTL DEF ReadyIsEarned, ForgetOnlyDead, UnfinalizeOnlyWhenGone, NeverTurnedOff

\* Nor does it name what belongs to another incarnation of the Distribution, or make a
\* second distribution for one.
THEOREM SeparateTogether == ManagerSpec => [](OneDistributionPerResource /\ OwnershipIsExclusive)
<1>1. ManagerInit => OneDistributionPerResource
  BY DEF ManagerInit, AwsInit, UnusedCf, OneDistributionPerResource, Live
<1>2. Foundation /\ OneDistributionPerResource /\ [ManagerNext]_allVars => OneDistributionPerResource'
  <2>1. ASSUME OneDistributionPerResource, cf' = cf PROVE OneDistributionPerResource'
    BY <2>1 DEF OneDistributionPerResource, Live
  <2>2. UNCHANGED allVars => cf' = cf
    BY DEF allVars, vars, awsVars
  <2>3. ASSUME Foundation, OneDistributionPerResource, ManagerNext PROVE OneDistributionPerResource'
    BY <2>1, <2>3, WhoWrites, ForeignChanges, SingleStep DEF Foundation, MInv
  <2> QED
    BY <2>1, <2>2, <2>3
<1>3. Foundation => OwnershipIsExclusive
  BY ExclusiveRecords DEF Foundation
<1> QED
  BY <1>1, <1>2, <1>3, FoundationTogether, PTL DEF ManagerSpec

\* And it leaves nothing undone when it rests, though others write its objects too.
THEOREM SettledTogether ==
    ASSUME Undisturbed
    PROVE  ManagerSpec => []SettledWhenIdle
BY SettledRecords, TendedTogether, PTL
=============================================================================
