----------------------- MODULE DistributionWakeupProofs -----------------------
(***************************************************************************)
(* That no wakeup is lost: once the queue is empty and the caches are up   *)
(* to date, every Distribution is as it should be.  Assumed is what the    *)
(* properties themselves ask for: nobody else changes what is at AWS, and  *)
(* the API server refuses a write only because of a conflict.              *)
(***************************************************************************)
EXTENDS DistributionReadyProofs

Undisturbed == Unmeddled /\ "apiError" \notin Chaos

\* A pass is at work on d.
Busy(d) == pc # "idle" /\ key = d

\* What SettledWhenIdle asks of a Distribution that exists.
Settled(d) ==
    \/ ~HasClass(d)
    \/ /\ ~obj[d].deleting
       /\ HasSecret(d) => IF Wants(class[obj[d].spec.class]) THEN Served(d)
                                                             ELSE obj[d].status.ready

\* The pass at work, which is about d, goes by what d, its class and its secret are now.
InHand(d) ==
    /\ current
    /\ cls = class[obj[d].spec.class]
    /\ ~copy.deleting /\ pc \notin {"addFinalizer", "resolve"} /\ HasSecret(d)
         => pc # "noCert" /\ cert.value = secret[obj[d].spec.secret]
    /\ ~copy.deleting /\ pc = "report" /\ ~Wants(cls) => status.ready

\* Whatever is not settled is in the queue, or about to be because the cache is
\* behind, or in the hands of a pass that knows all it needs.
Tended(d) == Exists(d) /\ synced[d] /\ d \notin queue
                => IF Busy(d) THEN InHand(d) ELSE Settled(d)

\* A pass that is at work on d goes by what d is, whatever was done at AWS meanwhile.
Handy(d) == Exists(d) /\ synced[d] /\ d \notin queue /\ Busy(d) => InHand(d)

\* Such a pass can be trusted to say ready only of what is.
Assured(d) == Exists(d) /\ synced[d] /\ d \notin queue
                => IF Busy(d) THEN InHand(d) /\ Earned ELSE Settled(d)

\* Only an object with a finalizer survives its deletion.
Marked(d) == Exists(d) /\ obj[d].deleting => obj[d].finalizer

WInv == \A d \in Distros : Assured(d) /\ Marked(d)

-----------------------------------------------------------------------------
(* A deletion waits for the finalizer.                                      *)

\* An object that is being deleted keeps its finalizer until it goes.
LEMMA MarkedStep ==
    ASSUME IInv, Next, NEW d \in Distros, Marked(d)
    PROVE  Marked(d)'
<1> USE DEF IInv, TypeInv, Marked, Exists
<1>1. CASE obj'[d] = obj[d]
  BY <1>1
<1>2. ASSUME NEW e \in Distros, NEW new, Write(e, new),
             e = d => new = NoObject \/ (new.deleting => new.finalizer)
      PROVE  Marked(d)'
  BY <1>2 DEF Write, TypeOK
<1>3. CASE AddFinalizer
  <2>1. key \in Distros /\ [copy EXCEPT !.finalizer = TRUE].finalizer
    BY <1>3 DEF AddFinalizer, TypeOK, Object
  <2>2. Write(key, [copy EXCEPT !.finalizer = TRUE]) \/ obj' = obj
    BY <1>3 DEF AddFinalizer, apiVars
  <2> QED
    BY <2>1, <2>2, <1>1, <1>2
<1>4. CASE Report \/ ReportDeletion
  <2>1. pc # "idle" /\ key \in Distros
    BY <1>4 DEF Report, ReportDeletion, TypeOK
  <2>2. obj' = obj \/ (current /\ Write(key, [obj[key] EXCEPT !.status = status]))
    BY <1>4 DEF Report, ReportDeletion, WriteStatus, apiVars
  <2>3. CASE current /\ Write(key, [obj[key] EXCEPT !.status = status])
    <3>1. obj[key] \in Object /\ obj[key] # NoObject
      BY <2>1, <2>3 DEF Fresh, TypeOK
    <3>2. /\ [obj[key] EXCEPT !.status = status].deleting = obj[key].deleting
          /\ [obj[key] EXCEPT !.status = status].finalizer = obj[key].finalizer
      BY <3>1 DEF Object
    <3> QED
      BY <2>1, <2>3, <3>1, <3>2, <1>2
  <2> QED
    BY <2>2, <2>3, <1>1
<1>5. CASE Unfinalize
  <2>1. key \in Distros /\ (obj' = obj \/ Write(key, NoObject))
    BY <1>5 DEF Unfinalize, TypeOK, apiVars
  <2> QED
    BY <2>1, <1>1, <1>2
<1>6. ASSUME NEW e \in Distros, EditSpec(e) PROVE Marked(d)'
  <2>1. PICK s \in Specs : Write(e, [obj[e] EXCEPT !.spec = s])
    BY <1>6 DEF EditSpec, UserWrites
  <2>2. obj[e] \in Object /\ obj[e] # NoObject
    BY <1>6 DEF EditSpec, TypeOK
  <2>3. /\ [obj[e] EXCEPT !.spec = s].deleting = obj[e].deleting
        /\ [obj[e] EXCEPT !.spec = s].finalizer = obj[e].finalizer
    BY <2>2 DEF Object
  <2> QED
    BY <2>1, <2>2, <2>3, <1>2
<1>7. ASSUME NEW e \in Distros, DeleteObject(e) PROVE Marked(d)'
  <2>1. obj[e] \in Object /\ obj[e] # NoObject
    BY <1>7 DEF DeleteObject, TypeOK
  <2>2. [obj[e] EXCEPT !.deleting = TRUE].finalizer = obj[e].finalizer
    BY <2>1 DEF Object
  <2>3. \/ Write(e, NoObject)
        \/ obj[e].finalizer /\ Write(e, [obj[e] EXCEPT !.deleting = TRUE])
    BY <1>7 DEF DeleteObject, UserWrites
  <2> QED
    BY <2>1, <2>2, <2>3, <1>2
<1>8. \/ obj' = obj \/ AddFinalizer \/ Report \/ ReportDeletion \/ Unfinalize
      \/ \E e \in Distros : EditSpec(e) \/ DeleteObject(e)
  BY DEF Next, Begin, Skip, Work, Stretch, Resolve, Panic, Crash, Restarted, Environment, Sync,
         Resync, ClassChange, SecretChange, Rollout, Meddle, othersVars, apiVars
<1> QED
  BY <1>1, <1>3, <1>4, <1>5, <1>6, <1>7, <1>8

-----------------------------------------------------------------------------
(* What is served stays served.                                             *)

\* Nothing happens to a distribution that is rolled out, unless a pass over its
\* owner is at work.
LEMMA CfKept ==
    ASSUME IInv, Next, Unmeddled, NEW i \in CfIds, cf[i].phase = "Deployed",
           cf[i].ref \in Distros, ~Busy(cf[i].ref)
    PROVE  cf'[i] = cf[i]
<1> USE DEF IInv, TypeInv, Busy
<1>1. cf \in [CfIds -> CfRecord]
  BY DEF TypeOK, AwsTypeOK
<1>2. CASE cf' = cf
  BY <1>2
<1>3. pc # "idle" => status.id # i
  BY DEF Recorded, NamesCf, TypeOK
<1>4. CASE ProviderStep
  <2>1. pc # "idle"
    BY <1>4 DEF ProviderStep, Describe, Import, DeleteCert, Load, Create, Update, Disable,
                DeleteCf
  <2>2. CASE Create
    <3>1. PICK j \in CfIds : (FreshCf(j) /\ \E r : cf' = [cf EXCEPT ![j] = r]) \/ cf' = cf
      BY <2>2 DEF Create
    <3> QED
      BY <1>1, <3>1 DEF FreshCf
  <2>3. ASSUME NEW c, NEW on, NEW a, Put(c, on, a) PROVE cf'[i] = cf[i]
    BY <1>1, <1>3, <2>1, <2>3 DEF Put
  <2>4. CASE DeleteCf
    BY <1>1, <1>3, <2>1, <2>4 DEF DeleteCf
  <2>5. CASE Update \/ Disable
    BY <2>3, <2>5 DEF Update, Disable
  <2>6. CASE Describe \/ Import \/ DeleteCert \/ Load
    BY <2>6 DEF Describe, Import, DeleteCert, Load, awsVars
  <2> QED
    BY <1>4, <2>2, <2>4, <2>5, <2>6 DEF ProviderStep
<1>5. CASE \E j \in CfIds : Rollout(j)
  BY <1>1, <1>5 DEF Rollout, Deploy
<1>6. CASE Meddle
  BY <1>6 DEF Meddle, Drift, Destroy, DestroyCert, Perturb, Unmeddled
<1>7. cf' = cf \/ ProviderStep \/ Meddle \/ \E j \in CfIds : Rollout(j)
  BY DEF Next, Begin, Skip, Work, Stretch, AddFinalizer, Resolve, Report, ReportDeletion,
         Unfinalize, Panic, Crash, Restarted, Environment, EditSpec, DeleteObject, UserWrites,
         Sync, Resync, ClassChange, SecretChange, awsVars
<1> QED
  BY <1>2, <1>4, <1>5, <1>6, <1>7

\* Nothing happens to a certificate that the pass at work does not name.
LEMMA CertKept ==
    ASSUME IInv, Next, Unmeddled, NEW a \in Arns, acm[a] \in Serials,
           pc # "idle" => status.arn # a
    PROVE  acm'[a] = acm[a]
<1> USE DEF IInv, TypeInv
<1>1. acm \in [Arns -> Serials \cup {"unused", "gone"}] /\ "unused" \notin Serials
  BY SerialAssumption DEF TypeOK, AwsTypeOK
<1>2. CASE Import
  <2>1. PICK b \in Arns : \/ ImportTarget(b) /\ \E v : acm' = [acm EXCEPT ![b] = v]
                          \/ acm' = acm
    BY <1>2 DEF Import
  <2> QED
    BY <1>1, <1>2, <2>1 DEF Import, ImportTarget, FreshArn
<1>3. CASE DeleteCert
  BY <1>1, <1>3 DEF DeleteCert
<1>4. CASE Meddle
  BY <1>4 DEF Meddle, Drift, Destroy, DestroyCert, Perturb, Unmeddled
<1>5. acm' = acm \/ Import \/ DeleteCert \/ Meddle
  BY DEF Next, Begin, Skip, Work, Stretch, AddFinalizer, Resolve, Report, ReportDeletion,
         Unfinalize, ProviderStep, Describe, Load, Create, Update, Disable, DeleteCf, Put, Panic,
         Crash, Restarted, Environment, EditSpec, DeleteObject, UserWrites, Sync, Resync,
         ClassChange, SecretChange, Rollout, Deploy, awsVars
<1> QED
  BY <1>2, <1>3, <1>4, <1>5

\* The class and the secret that d refers to are as they were.
SameInputs(d) == /\ class'[obj[d].spec.class] = class[obj[d].spec.class]
                 /\ obj[d].spec.secret \in Secrets
                      => secret'[obj[d].spec.secret] = secret[obj[d].spec.secret]

\* A Distribution that no pass is about stays settled while its inputs stay.
LEMMA SettledKept ==
    ASSUME IInv, Next, Unmeddled, NEW d \in Distros, Exists(d), ~Busy(d), Settled(d),
           obj'[d] = obj[d], SameInputs(d)
    PROVE  Settled(d)'
<1> USE DEF IInv, TypeInv
<1> DEFINE s == obj[d].status
<1>1. /\ HasClass(d)' = HasClass(d) /\ HasSecret(d)' = HasSecret(d)
      /\ Wants(class[obj[d].spec.class])' = Wants(class[obj[d].spec.class])
  BY DEF HasClass, HasSecret, SameInputs, Wants
<1>2. ASSUME Served(d), HasSecret(d) PROVE Served(d)'
  <2>1. obj[d] \in Object
    BY DEF TypeOK, Exists
  <2>2. s.id \in CfIds /\ s.arn \in Arns
    BY <1>2, <2>1 DEF Served, Object, Status
  <2>3. cf[s.id].ref = d
    BY <2>2 DEF Recorded, NamesCf
  <2>4. cf'[s.id] = cf[s.id]
    BY <1>2, <2>2, <2>3, CfKept DEF Served
  <2>5. acm[s.arn] \in Serials
    BY <1>2 DEF Served, HasSecret
  <2>6. pc # "idle" => status.arn # s.arn
    <3> SUFFICES ASSUME pc # "idle" PROVE status.arn # s.arn
      OBVIOUS
    <3>1. key \in Distros /\ key # d
      BY DEF Busy, TypeOK
    <3>2. NamesCert(d, s.arn)
      BY DEF NamesCert
    <3>3. ~NamesCert(key, s.arn)
      BY <2>2, <3>1, <3>2 DEF Recorded
    <3> QED
      BY <3>3 DEF NamesCert
  <2>7. acm'[s.arn] = acm[s.arn]
    BY <2>2, <2>5, <2>6, CertKept
  <2> QED
    BY <1>2, <2>4, <2>7 DEF Served, Desired, SameInputs, HasSecret
<1> QED
  BY <1>1, <1>2 DEF Settled

-----------------------------------------------------------------------------
(* Whatever is not settled is tended.                                       *)

\* A pass over d that goes on with what it has: its next step is as well informed.
LEMMA InHandKept ==
    ASSUME IInv, NEW d \in Distros, Exists(d), Busy(d), InHand(d),
           obj'[d] = obj[d], SameInputs(d), UNCHANGED <<copy, cls, current>>,
           /\ pc' \in {"addFinalizer", "resolve"} => pc \in {"addFinalizer", "resolve"}
           /\ ~copy.deleting /\ pc' \notin {"addFinalizer", "resolve"} /\ HasSecret(d) =>
                IF pc \in {"addFinalizer", "resolve"}
                THEN pc' # "noCert" /\ cert'.value = secret[obj[d].spec.secret]
                ELSE cert' = cert /\ (pc' = "noCert" => pc = "noCert"),
           ~copy.deleting /\ pc' = "report" /\ ~Wants(cls)
             => status'.ready \/ (pc = "report" /\ status' = status)
    PROVE  InHand(d)'
<1>1. HasSecret(d)' = HasSecret(d)
  BY DEF HasSecret, SameInputs
<1>2. HasSecret(d) => secret'[obj'[d].spec.secret] = secret[obj[d].spec.secret]
  BY DEF HasSecret, SameInputs
<1> QED
  BY <1>1, <1>2 DEF InHand, SameInputs, Wants

\* A write takes the cache out of step; nothing else touches an object.
LEMMA Written ==
    ASSUME TypeInv, NEW e \in Distros, NEW new, Write(e, new)
    PROVE  ~synced'[e] /\ \A d \in Distros \ {e} : obj'[d] = obj[d] /\ synced'[d] = synced[d]
BY DEF Write, TypeInv, TypeOK

\* The steps of the worker that are about some other Distribution, and those of the
\* world that touch neither d nor what it refers to.
LEMMA Bystander ==
    ASSUME IInv, Next, Unmeddled, NEW d \in Distros, Tended(d),
           Exists(d)', synced'[d], d \notin queue',
           obj'[d] = obj[d], synced'[d] = synced[d], d \notin queue, SameInputs(d),
           \/ ~Busy(d) /\ ~Busy(d)'
           \/ Busy(d) /\ UNCHANGED <<pc, key, copy, cls, cert, status, current>>
    PROVE  IF Busy(d)' THEN InHand(d)' ELSE Settled(d)'
<1>1. Exists(d)
  BY DEF Exists
<1>2. CASE ~Busy(d) /\ ~Busy(d)'
  BY <1>1, <1>2, SettledKept DEF Tended
<1>3. CASE Busy(d) /\ UNCHANGED <<pc, key, copy, cls, cert, status, current>>
  <2>1. Busy(d)' /\ InHand(d)
    BY <1>1, <1>3 DEF Busy, Tended
  <2> QED
    BY <1>1, <1>3, <2>1, InHandKept
<1> QED
  BY <1>2, <1>3

\* At the end of a pass that was well informed, its Distribution is settled, written,
\* or in the queue again.
LEMMA TendedReport ==
    ASSUME IInv, Undisturbed, Report, NEW d \in Distros, d = key, Assured(d),
           Exists(d)', synced'[d], d \notin queue'
    PROVE  Settled(d)'
<1> USE DEF IInv, TypeInv
<1>1. /\ pc \in {"report", "noCert"} /\ ~copy.deleting /\ pc # "idle" /\ Busy(d)
      /\ cls # "absent"
  BY DEF Report, TypeOK, Busy
<1>2. ~(current /\ Write(key, [obj[key] EXCEPT !.status = status]))
  BY Written
<1>3. UNCHANGED apiVars /\ (status = copy.status \/ ~current)
  BY <1>2 DEF Report, WriteStatus, Undisturbed, Perturb
<1>4. d \notin queue /\ ~Requeue
  BY DEF Report, Finish
<1>5. Exists(d) /\ InHand(d) /\ Earned
  BY <1>1, <1>3, <1>4 DEF Assured, apiVars, Exists
<1>6. /\ status = copy.status /\ obj[d].status = copy.status /\ obj[d].spec = copy.spec
      /\ obj[d].deleting = copy.deleting /\ current
  BY <1>1, <1>3, <1>5 DEF InHand, Fresh
<1>7. UNCHANGED <<cf, acm, class, secret, obj>>
  BY <1>3 DEF Report, awsVars, inputVars, apiVars
<1>8. Settled(d)
  <2> SUFFICES ASSUME HasSecret(d)
               PROVE  IF Wants(class[obj[d].spec.class]) THEN Served(d) ELSE obj[d].status.ready
    BY <1>1, <1>6 DEF Settled
  <2>1. pc = "report" /\ cert.value = secret[obj[d].spec.secret] /\ status.ready
    BY <1>1, <1>4, <1>5 DEF InHand, Requeue
  <2>2. CASE Wants(cls)
    <3>1. Complete
      BY <1>1, <1>5, <2>1, <2>2 DEF Earned, Claims, Undisturbed
    <3>2. status.id # 0 /\ status.arn # 0
      BY <3>1, QuotaAssumption DEF Complete, CfIds, Arns
    <3> QED
      BY <1>5, <1>6, <2>1, <2>2, <3>1, <3>2 DEF Complete, Served, InHand
  <2>3. CASE ~Wants(cls)
    BY <1>5, <1>6, <2>1, <2>3 DEF InHand
  <2> QED
    BY <2>2, <2>3
<1> QED
  BY <1>7, <1>8 DEF Settled, Served, HasClass, HasSecret, Desired, Wants

\* A pass that takes something down goes on until the object is gone.
LEMMA TendedDeletion ==
    ASSUME IInv, Undisturbed, ReportDeletion \/ Unfinalize, NEW d \in Distros, d = key, Handy(d),
           Exists(d)', synced'[d], d \notin queue'
    PROVE  Busy(d)' /\ InHand(d)'
<1> USE DEF IInv, TypeInv
<1>1. pc # "idle" /\ Busy(d)
  BY DEF ReportDeletion, Unfinalize, Busy
<1>2. CASE ReportDeletion
  <2>1. ~(current /\ Write(key, [obj[key] EXCEPT !.status = status]))
    BY Written
  <2>2. UNCHANGED apiVars
    BY <1>2, <2>1 DEF ReportDeletion, WriteStatus, Undisturbed, Perturb
  <2>3. /\ pc' = "unfinalize" /\ current' = (current /\ obj' = obj)
        /\ UNCHANGED <<queue, key, copy, cls, cert, status, etag, failed>>
    BY <1>2 DEF ReportDeletion, Finish
  <2>4. Exists(d) /\ InHand(d) /\ copy.deleting /\ UNCHANGED inputVars
    BY <1>1, <1>2, <2>2, <2>3 DEF Handy, Exists, apiVars, ReportDeletion
  <2> QED
    BY <2>2, <2>3, <2>4 DEF InHand, Busy, apiVars, inputVars
<1>3. CASE Unfinalize
  <2>1. ~(current /\ Write(key, NoObject))
    BY Written
  <2>2. ~current /\ UNCHANGED apiVars
    BY <1>3, <2>1 DEF Unfinalize, Undisturbed, Perturb
  <2>3. d \notin queue
    BY <1>3 DEF Unfinalize, Finish
  <2> QED
    BY <1>1, <2>2, <2>3 DEF Handy, InHand, Exists, apiVars
<1> QED
  BY <1>2, <1>3

\* The middle of a pass.
LEMMA TendedMiddle ==
    ASSUME IInv, Undisturbed,
           \/ AddFinalizer \/ Resolve
           \/ ProviderStep /\ UNCHANGED <<apiVars, inputVars, queue, current, held>>,
           NEW d \in Distros, d = key, Handy(d), Exists(d)', synced'[d], d \notin queue'
    PROVE  Busy(d)' /\ InHand(d)'
<1> USE DEF IInv, TypeInv
<1>1. CASE AddFinalizer
  <2>1. Busy(d) /\ Busy(d)' /\ d \notin queue
    BY <1>1 DEF AddFinalizer, Busy
  <2>2. ~Write(key, [copy EXCEPT !.finalizer = TRUE])
    BY Written
  <2>3. ~current /\ UNCHANGED apiVars
    BY <1>1, <2>2 DEF AddFinalizer, Undisturbed, Perturb
  <2> QED
    BY <2>1, <2>3 DEF Handy, InHand, Exists, apiVars
<1>2. CASE Resolve
  <2>1. /\ Busy(d) /\ Busy(d)' /\ d \notin queue /\ Exists(d) /\ obj' = obj
        /\ SameInputs(d) /\ UNCHANGED <<copy, cls, current>>
    BY <1>2 DEF Resolve, FirstCertStep, Busy, apiVars, inputVars, SameInputs, Exists
  <2>2. InHand(d)
    BY <1>2, <2>1 DEF Resolve, Handy, apiVars
  <2>3. obj[d].spec = copy.spec /\ copy \in Object
    BY <2>1, <2>2 DEF InHand, Fresh, Busy, TypeOK
  <2>4. HasSecret(d) => pc' # "noCert" /\ cert'.value = secret[obj[d].spec.secret]
    <3> SUFFICES ASSUME HasSecret(d)
                 PROVE  pc' # "noCert" /\ cert'.value = secret[obj[d].spec.secret]
      OBVIOUS
    <3>1. /\ copy.spec.secret \in Secrets /\ secret[copy.spec.secret] \in Serials
          /\ copy.spec.secret # NoTLS
      BY <2>3, SpecAssumption DEF HasSecret
    <3>2. /\ Loaded(copy.spec.secret).value = secret[copy.spec.secret]
          /\ Loaded(copy.spec.secret).value \notin {"absent", "opaque"}
      BY <3>1, SerialAssumption DEF Loaded
    <3> QED
      BY <1>2, <2>3, <3>1, <3>2 DEF Resolve, FirstCertStep
  <2>5. /\ pc = "resolve" /\ pc' \notin {"addFinalizer", "resolve"}
        /\ pc' = "report" => status'.ready
    BY <1>2, <2>3 DEF Resolve, FirstCertStep, Object, Status
  <2> QED
    BY <2>1, <2>2, <2>4, <2>5, InHandKept
<1>3. CASE ProviderStep /\ UNCHANGED <<apiVars, inputVars, queue, current, held>>
  <2>1. /\ pc \in ProviderLabels
        /\ pc' \notin {"idle", "addFinalizer", "resolve", "noCert"}
        /\ UNCHANGED given
    BY <1>3 DEF ProviderStep, Describe, Import, DeleteCert, Load, Create, Update, Disable, DeleteCf,
                Put, AfterLoad, FirstCfStep, Fail, Goto, ProviderLabels
  <2>2. /\ Busy(d) /\ Busy(d)' /\ d \notin queue /\ Exists(d) /\ obj' = obj
        /\ SameInputs(d) /\ UNCHANGED <<copy, cls, cert, current>> /\ Wants(cls)
    BY <1>3, <2>1 DEF Busy, apiVars, inputVars, SameInputs, Exists, given, Dispatched,
                      ProviderLabels
  <2>3. InHand(d)
    BY <1>3, <2>2 DEF Handy, apiVars
  <2> QED
    BY <2>1, <2>2, <2>3, InHandKept DEF ProviderLabels
<1> QED
  BY <1>1, <1>2, <1>3

\* What is assured is tended, and whoever tends it is handy.
LEMMA Weaker ==
    ASSUME NEW d \in Distros
    PROVE  (Assured(d) => Tended(d)) /\ (Tended(d) => Handy(d)) /\ (Busy(d) /\ Handy(d) => Tended(d))
BY DEF Assured, Tended, Handy

\* What the worker does.
LEMMA TendedWork ==
    ASSUME IInv, Undisturbed, Work, NEW d \in Distros, Assured(d),
           Exists(d)', synced'[d], d \notin queue'
    PROVE  IF Busy(d)' THEN InHand(d)' ELSE Settled(d)'
<1> USE DEF IInv, TypeInv
<1>1. ~Panic
  BY DEF Panic, Restarted, Exists
<1>2. pc # "idle" /\ key \in Distros
  BY <1>1 DEF Work, Stretch, AddFinalizer, Resolve, Report, ReportDeletion, Unfinalize, TypeOK,
             ProviderStep, Describe, Import, DeleteCert, Load, Create, Update, Disable, DeleteCf
<1>3. Report => ~Busy(d)'
  BY DEF Report, Finish, IdleAgain, Busy
<1>4. CASE d = key
  BY <1>1, <1>3, <1>4, Weaker, TendedReport, TendedDeletion, TendedMiddle DEF Work, Stretch
<1>5. CASE d # key
  <2>1. UNCHANGED apiVars \/ \E new : Write(key, new)
    BY <1>1 DEF Work, Stretch, AddFinalizer, Resolve, Report, ReportDeletion, Unfinalize,
                WriteStatus, apiVars
  <2>2. obj'[d] = obj[d] /\ synced'[d] = synced[d]
    BY <1>2, <1>5, <2>1, Written DEF apiVars
  <2>3. d \notin queue /\ UNCHANGED inputVars /\ ~Busy(d)
    BY <1>1, <1>5 DEF Work, Stretch, AddFinalizer, Resolve, Report, ReportDeletion, Unfinalize,
                     Finish, Busy
  <2>4. ~Busy(d)'
    BY <1>1, <1>5 DEF Work, Stretch, AddFinalizer, Resolve, Report, ReportDeletion, Unfinalize,
                     Finish, IdleAgain, Busy, ProviderStep, Describe, Import, DeleteCert, Load,
                     Create, Update, Disable, DeleteCf, Put, given
  <2> QED
    BY <2>2, <2>3, <2>4, Weaker, Bystander DEF SameInputs, inputVars, Next, Undisturbed
<1> QED
  BY <1>4, <1>5

\* What users, informers, AWS and crashes do.
LEMMA TendedEnvironment ==
    ASSUME IInv, Undisturbed, Environment, NEW d \in Distros, Tended(d),
           Exists(d)', synced'[d], d \notin queue'
    PROVE  IF Busy(d)' THEN InHand(d)' ELSE Settled(d)'
<1> USE DEF IInv, TypeInv
<1>1. ~Crash
  BY DEF Crash, Restarted, Exists
<1>2. ASSUME UNCHANGED <<pc, key, copy, cls, cert, status>>, d \notin queue,
             Busy(d) => current' = current,
             obj'[d] = obj[d], synced'[d] = synced[d], SameInputs(d)
      PROVE  IF Busy(d)' THEN InHand(d)' ELSE Settled(d)'
  BY <1>2, Bystander DEF Next, Busy, Undisturbed
<1>3. ASSUME NEW e \in Distros, EditSpec(e) \/ DeleteObject(e)
      PROVE  IF Busy(d)' THEN InHand(d)' ELSE Settled(d)'
  <2>1. PICK new : UserWrites(e, new)
    BY <1>3 DEF EditSpec, DeleteObject
  <2>2. e # d /\ obj'[d] = obj[d] /\ synced'[d] = synced[d]
    BY <2>1, Written DEF UserWrites
  <2>3. Busy(d) => current' = current
    BY <2>1, <2>2 DEF UserWrites, Outdate, Busy, TypeOK
  <2> QED
    BY <1>2, <2>1, <2>2, <2>3 DEF UserWrites, passVars, inputVars, SameInputs
<1>4. ASSUME NEW e \in Distros, Sync(e)
      PROVE  IF Busy(d)' THEN InHand(d)' ELSE Settled(d)'
  BY <1>2, <1>4 DEF Sync, passVars, inputVars, SameInputs, TypeOK
<1>5. ASSUME NEW e \in Distros, Resync(e)
      PROVE  IF Busy(d)' THEN InHand(d)' ELSE Settled(d)'
  BY <1>2, <1>5 DEF Resync, passVars, apiVars, inputVars, SameInputs
<1>6. ASSUME UNCHANGED apiVars
      PROVE  cache[d] = obj[d] /\ obj[d] # NoObject
  BY <1>6 DEF Fresh, Exists, apiVars
<1>7. ASSUME NEW k \in ClassNames, ClassChange(k)
      PROVE  IF Busy(d)' THEN InHand(d)' ELSE Settled(d)'
  <2>1. obj[d].spec.class # k
    BY <1>6, <1>7 DEF ClassChange
  <2>2. SameInputs(d)
    BY <1>7, <2>1 DEF ClassChange, SameInputs, TypeOK
  <2> QED
    BY <1>2, <1>7, <2>2 DEF ClassChange, passVars, apiVars
<1>8. ASSUME NEW n \in Secrets, SecretChange(n)
      PROVE  IF Busy(d)' THEN InHand(d)' ELSE Settled(d)'
  <2>1. obj[d].spec.secret # n
    BY <1>6, <1>8 DEF SecretChange
  <2>2. SameInputs(d)
    BY <1>8, <2>1 DEF SecretChange, SameInputs, TypeOK
  <2> QED
    BY <1>2, <1>8, <2>2 DEF SecretChange, passVars, apiVars
<1>9. ASSUME NEW i \in CfIds, Rollout(i)
      PROVE  IF Busy(d)' THEN InHand(d)' ELSE Settled(d)'
  BY <1>2, <1>9 DEF Rollout, othersVars, passVars, apiVars, inputVars, SameInputs
<1>10. ~Meddle
  BY DEF Meddle, Drift, Destroy, DestroyCert, Perturb, Undisturbed, Unmeddled
<1> QED
  BY <1>1, <1>3, <1>4, <1>5, <1>7, <1>8, <1>9, <1>10 DEF Environment

\* The worker takes a key out of the queue only to look after it.
LEMMA TendedTake ==
    ASSUME IInv, Undisturbed, NEW e \in Distros, Begin(e) \/ Skip(e),
           NEW d \in Distros, Tended(d), Marked(d), Exists(d)', synced'[d], d \notin queue'
    PROVE  IF Busy(d)' THEN InHand(d)' ELSE Settled(d)'
<1> USE DEF IInv, TypeInv
<1>1. UNCHANGED <<apiVars, inputVars>> /\ pc = "idle"
  BY DEF Begin, Skip
<1>2. cache[d] = obj[d] /\ obj[d] # NoObject /\ Exists(d) /\ synced[d] /\ obj'[d] = obj[d]
      /\ SameInputs(d) /\ obj[d] \in Object /\ ~Busy(d)
  BY <1>1 DEF Fresh, Exists, apiVars, inputVars, SameInputs, TypeOK, Busy
<1>3. CASE d # e
  <2>1. d \notin queue /\ ~Busy(d)'
    BY <1>1, <1>3 DEF Begin, Skip, Busy, passVars
  <2> QED
    BY <1>1, <1>2, <1>3, <2>1, Bystander DEF Next, Undisturbed, apiVars
<1>4. CASE d = e /\ Skip(e)
  <2>1. class[obj[d].spec.class] = "absent"
    BY <1>1, <1>2, <1>4 DEF Skip, Ignored, Marked
  <2> QED
    BY <1>1, <1>2, <1>4, <2>1 DEF Skip, Settled, HasClass, Busy, inputVars, passVars, SameInputs
<1>5. CASE d = e /\ Begin(e)
  <2>1. /\ current' = TRUE /\ cls' = class[obj[d].spec.class] /\ copy' = obj[d]
        /\ pc' = FirstStep(obj[d])
    BY <1>2, <1>5 DEF Begin
  <2>2. /\ ~obj[d].deleting => pc' \in {"addFinalizer", "resolve"}
        /\ pc' # "idle"
    BY <1>2, <2>1 DEF FirstStep, FirstDeleteStep, Object
  <2> QED
    BY <1>1, <1>2, <1>5, <2>1, <2>2 DEF Begin, InHand, Busy, inputVars, SameInputs
<1> QED
  BY <1>3, <1>4, <1>5

\* The cache only catches up, and a key only leaves the queue, with the worker idle or a
\* wakeup for the key.
LEMMA WasDue ==
    ASSUME IInv, Next, NEW d \in Distros, Busy(d)', Exists(d)', synced'[d], d \notin queue',
           ~Begin(d)
    PROVE  Busy(d) /\ Exists(d) /\ synced[d] /\ d \notin queue
<1> USE DEF IInv, TypeInv
<1>1. Exists(d)
  BY DeletionStays
<1>2. ~Crash /\ ~Panic /\ \A e \in Distros : ~Skip(e)
  BY DEF Crash, Panic, Restarted, IdleAgain, Skip, Busy, passVars
<1>3. CASE Work
  <2>1. pc # "idle" /\ key \in Distros /\ pc' # "idle" /\ key' = key
    BY <1>2, <1>3 DEF Busy, Work, Stretch, AddFinalizer, Resolve, Report, ReportDeletion, Unfinalize,
       Finish, IdleAgain, TypeOK, ProviderStep, Describe, Import, DeleteCert, Load, Create, Update,
       Disable, DeleteCf, Put, given
  <2>2. UNCHANGED apiVars \/ \E new : Write(key, new)
    BY <1>2, <1>3 DEF Work, Stretch, AddFinalizer, Resolve, Report, ReportDeletion, Unfinalize,
                      WriteStatus, apiVars
  <2>3. synced'[d] = synced[d]
    BY <2>1, <2>2, Written DEF apiVars
  <2>4. queue \subseteq queue'
    BY <1>2, <1>3 DEF Work, Stretch, AddFinalizer, Resolve, Report, ReportDeletion, Unfinalize, Finish
  <2> QED
    BY <1>1, <2>1, <2>3, <2>4 DEF Busy
<1>4. CASE Environment
  <2>1. Busy(d) /\ queue \subseteq queue'
    BY <1>2, <1>4 DEF Environment, EditSpec, DeleteObject, UserWrites, Sync, Resync, ClassChange,
                      SecretChange, Rollout, Meddle, othersVars, passVars, Busy
  <2>2. synced'[d] = synced[d]
    BY <1>2, <1>4 DEF Environment, EditSpec, DeleteObject, UserWrites, Sync, Resync, ClassChange,
                      SecretChange, Rollout, Meddle, othersVars, apiVars, Write, TypeOK
  <2> QED
    BY <1>1, <2>1, <2>2
<1>5. CASE \E e \in Distros : Begin(e)
  BY <1>5 DEF Begin, Busy
<1> QED
  BY <1>2, <1>3, <1>4, <1>5 DEF Next

\* A pass that begins has claimed nothing yet.
LEMMA NothingClaimed ==
    ASSUME NEW d \in Distros, Begin(d)
    PROVE  Earned'
<1>1. copy' = cache[d] /\ pc' = FirstStep(cache[d])
  BY DEF Begin
<1> QED
  BY <1>1 DEF Earned, Claims, FirstStep, FirstDeleteStep

\* Every step leaves every Distribution assured.
LEMMA AssuredStep ==
    ASSUME IInv, LiveCert, Undisturbed, Next, NEW d \in Distros, Assured(d), Marked(d)
    PROVE  Assured(d)'
<1> SUFFICES ASSUME Exists(d)', synced'[d], d \notin queue'
             PROVE  IF Busy(d)' THEN InHand(d)' /\ Earned' ELSE Settled(d)'
  BY DEF Assured
<1>1. IF Busy(d)' THEN InHand(d)' ELSE Settled(d)'
  BY Weaker, TendedWork, TendedEnvironment, TendedTake DEF Next
<1>2. Busy(d)' => Earned'
  <2>1. CASE Begin(d)
    BY <2>1, NothingClaimed
  <2>2. CASE ~Begin(d)
    BY <2>2, WasDue, EarnedStep DEF Assured, IInv
  <2> QED
    BY <2>1, <2>2
<1> QED
  BY <1>1, <1>2

\* Every step of this manager leaves its pass as well informed as it was.
LEMMA HandyStep ==
    ASSUME IInv, Undisturbed, Next, NEW d \in Distros, Handy(d), Marked(d)
    PROVE  Handy(d)'
<1> SUFFICES ASSUME Exists(d)', synced'[d], d \notin queue', Busy(d)'
             PROVE  InHand(d)'
  BY DEF Handy
<1>1. CASE ~Begin(d)
  <2>1. Busy(d) /\ Tended(d) /\ pc # "idle"
    BY <1>1, WasDue, Weaker DEF Busy
  <2>2. CASE Environment
    BY <2>1, <2>2, TendedEnvironment
  <2>3. CASE Work
    <3>1. ~Panic /\ ~Report
      BY DEF Panic, Restarted, Report, Finish, IdleAgain, Busy
    <3> QED
      BY <2>1, <2>3, <3>1, TendedDeletion, TendedMiddle DEF Work, Stretch, Busy
  <2> QED
    BY <2>1, <2>2, <2>3 DEF Next, Begin, Skip
<1>2. CASE Begin(d)
  <2>1. ~Busy(d) /\ UNCHANGED inputVars
    BY <1>2 DEF Begin, Busy
  <2>2. /\ current' = synced[d] /\ cls' = class[cache[d].spec.class] /\ copy' = cache[d]
        /\ pc' = FirstStep(cache[d]) /\ synced[d] /\ obj' = obj
    BY <1>2 DEF Begin, apiVars
  <2>3. cache[d] = obj[d] /\ obj[d] \in Object
    BY <2>2 DEF IInv, Fresh, Exists, TypeInv, TypeOK
  <2>4. ~obj[d].deleting => pc' \in {"addFinalizer", "resolve"}
    BY <2>2, <2>3 DEF FirstStep, FirstDeleteStep, Object
  <2>5. obj[d].deleting => copy'.deleting
    BY <2>2, <2>3
  <2> QED
    BY <2>1, <2>2, <2>3, <2>4, <2>5 DEF InHand, inputVars
<1> QED
  BY <1>1, <1>2

\* A step of the pass that changes anything at AWS has nothing to claim afterwards, or
\* has just imported the right certificate.
LEMMA ChangeEarns ==
    ASSUME TypeInv, Remembered, ProviderStep, awsVars' # awsVars
    PROVE  Earned'
<1> USE DEF TypeInv
<1>1. status \in Status /\ copy \in Object /\ pc # "idle"
  BY DEF TypeOK, ProviderStep, Describe, Import, DeleteCert, Load, Create, Update, Disable,
         DeleteCf
<1>2. ~Describe /\ ~Load
  BY DEF Describe, Load
<1>3. ASSUME NEW s \in Status, Fail(s), UNCHANGED given PROVE Earned'
  BY <1>3 DEF Fail, given, Earned, Claims, Status
<1>4. ASSUME NEW i, Goto("report", Observed(status, i, "InProgress")) PROVE Earned'
  <2>1. Observed(status, i, "InProgress").ready = FALSE
    BY <1>1 DEF Observed, Status
  <2> QED
    BY <1>4, <2>1 DEF Goto, Earned, Claims
<1>5. [status EXCEPT !.ext = "Unknown"] \in Status
  BY <1>1 DEF Status
<1>6. CASE Import
  <2>1. PICK a \in Arns : /\ cert.value \in Serials /\ acm' = [acm EXCEPT ![a] = cert.value]
                          /\ \/ Goto(FirstCfStep, [status EXCEPT !.arn = a])
                             \/ Fail(status)
    BY <1>6 DEF Import, awsVars
  <2>2. UNCHANGED given
    BY <1>6 DEF Import
  <2>3. CASE Goto(FirstCfStep, [status EXCEPT !.arn = a])
    <3>1. status'.arn = a /\ cert' = cert /\ acm'[a] = cert.value
      BY <1>1, <2>1, <2>2, <2>3 DEF Goto, given, TypeOK, AwsTypeOK, Status
    <3> QED
      BY <2>1, <2>3, <3>1 DEF Earned, Certified, Claims, Goto, FirstCfStep
  <2> QED
    BY <1>1, <1>3, <2>1, <2>2, <2>3
<1>7. CASE DeleteCert \/ DeleteCf \/ Disable
  <2>1. copy.deleting /\ copy' = copy /\ pc' # "noCert"
    BY <1>7 DEF DeleteCert, DeleteCf, Disable, Put, Remembered, given, Goto, Fail
  <2> QED
    BY <2>1 DEF Earned, Claims
<1>8. CASE Create
  <2>1. UNCHANGED given
    BY <1>8 DEF Create
  <2>2. \/ \E i : Goto("report", Observed(status, i, "InProgress"))
        \/ Fail([status EXCEPT !.ext = "Unknown"])
    BY <1>8 DEF Create, awsVars
  <2> QED
    BY <1>3, <1>4, <1>5, <2>1, <2>2
<1>9. CASE Update
  <2>1. UNCHANGED given
    BY <1>9 DEF Update, Put
  <2>2. (\E i : Goto("report", Observed(status, i, "InProgress"))) \/ Fail(status)
    BY <1>9 DEF Update, Put
  <2> QED
    BY <1>1, <1>3, <1>4, <2>1, <2>2
<1> QED
  BY <1>2, <1>6, <1>7, <1>8, <1>9 DEF ProviderStep

\* Only a pass, in the middle of it, changes anything at AWS for the manager.
LEMMA ChangeBusy ==
    ASSUME TypeInv, Remembered, Work, awsVars' # awsVars
    PROVE  Earned' /\ pc # "idle" /\ pc' # "idle" /\ key \in Distros /\ key' = key
<1>1. ProviderStep
  BY DEF Work, Stretch, AddFinalizer, Resolve, Report, ReportDeletion, Unfinalize, Panic, Restarted
<1>2. pc # "idle" /\ pc' # "idle" /\ key' = key
  BY <1>1 DEF ProviderStep, Describe, Import, DeleteCert, Load, Create, Update, Disable, DeleteCf,
              Put, AfterLoad, FirstCfStep, Fail, Goto, given
<1> QED
  BY <1>1, <1>2, ChangeEarns DEF TypeInv, TypeOK

-----------------------------------------------------------------------------

\* What nobody has in hand is settled.
LEMMA SettledRecords ==
    ASSUME WInv
    PROVE  SettledWhenIdle
<1> SUFFICES ASSUME Quiet, NEW d \in Distros, Exists(d), HasClass(d)
             PROVE  /\ ~obj[d].deleting
                    /\ IF Wants(class[obj[d].spec.class]) THEN HasSecret(d) => Served(d)
                                                          ELSE HasSecret(d) => obj[d].status.ready
  BY DEF SettledWhenIdle
<1> QED
  BY DEF WInv, Assured, Quiet, Busy, Settled

\* No wakeup is lost, for any number of Distributions, classes and secrets, of edits,
\* deletions, crashes, stale reads, conflicts, and of failed and lost calls to AWS.
THEOREM NoLostWakeup ==
    ASSUME Undisturbed
    PROVE  Spec => []SettledWhenIdle
<1>1. Init => WInv
  BY DEF Init, WInv, Assured, Marked, Exists
<1>2. IInv /\ LiveCert /\ WInv /\ [Next]_vars => WInv'
  <2>1. CASE Next
    BY <2>1, AssuredStep, MarkedStep DEF WInv
  <2>2. ASSUME UNCHANGED vars, WInv PROVE WInv'
    <3>1. UNCHANGED <<obj, synced, class, secret, queue, cf, acm, current, pc, key, copy, cls,
                      cert, status, etag>>
      BY <2>2 DEF vars, awsVars, apiVars, inputVars, workerVars, passVars
    <3> QED
      BY <2>2, <3>1 DEF WInv, Assured, Marked, Exists, Busy, InHand, Settled, Served, HasClass,
                        HasSecret, Desired, Wants, Earned, Certified, Claims, Complete
  <2> QED
    BY <2>1, <2>2
<1>3. WInv => SettledWhenIdle
  BY SettledRecords
<1> QED
  BY <1>1, <1>2, <1>3, Foundations, PTL DEF Spec
=============================================================================
