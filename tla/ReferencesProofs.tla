--------------------------- MODULE ReferencesProofs ---------------------------
(***************************************************************************)
(* That no wakeup is lost, for every set of Distributions, classes and     *)
(* secrets, any number of changes, and informers of any pace.              *)
(***************************************************************************)
EXTENDS References, TLAPS

\* What the proof needs to know of the types.
Shapes == /\ distroCache \in [Keys -> Specs \cup {Absent}]
          /\ distro \in [Keys -> Specs \cup {Absent}]
          /\ DOMAIN resourceCache = Watched /\ DOMAIN resource = Watched
          /\ DOMAIN applied = Keys
          /\ queue \subseteq Keys
          /\ events \subseteq Keys \cup Watched
          /\ pc \in {"idle", "class", "secret", "session", "call"}
          /\ pc # "idle" => key \in Keys /\ copy \in Specs
          /\ pc \notin {"idle", "class"} => Readable(copy)

\* The references of k as the caches have them.
Class(k)  == ClassOf(k, distroCache[k])
Secret(k) == SecretOf(k, distroCache[k])

\* UpToDate, by the caches.
Seen(k) == /\ Readable(distroCache[k])
           /\ resourceCache[Class(k)] # Absent /\ resourceCache[Secret(k)] # Absent
           => applied[k] = [class |-> resourceCache[Class(k)],
                            cert |-> resourceCache[Secret(k)]]

\* An event is on its way that will put k into the queue.
Told(k) == {k, Secret(k)} \cap events # {} \/ (Readable(distroCache[k]) /\ Class(k) \in events)

\* The pass at work is about k, and will have the last word for the time being.
Busy(k) == pc # "idle" /\ key = k

\* A pass is at work on k with what the caches have.
InHand(k) ==
    /\ Busy(k)
    /\ copy = distroCache[k]
    /\ pc # "class" => auth = resourceCache[Class(k)]
    /\ pc \in {"session", "call"} /\ resourceCache[Secret(k)] # Absent
         => cert = resourceCache[Secret(k)]

\* The strengthening of NoWakeupLost: it holds of the caches at any time, so that what
\* changes in the API server does not matter before an informer takes it in; and it
\* trusts no pass whose copy has been overtaken.
Cared(k) == distroCache[k] # Absent =>
              (Seen(k) /\ ~Busy(k)) \/ k \in queue \/ Told(k) \/ InHand(k)

AllCared == \A k \in Keys : Cared(k)
IInv == Shapes /\ AllCared

-----------------------------------------------------------------------------

\* The indexes find whoever refers to a class or a secret.
LEMMA Found ==
    ASSUME Shapes, NEW k \in Keys, distroCache[k] # Absent, NEW r \in Watched,
           r = Secret(k) \/ (Readable(distroCache[k]) /\ r = Class(k))
    PROVE  k \in Referring(r)
<1>1. CASE r = Secret(k)
  BY <1>1 DEF Referring, Secret, SecretOf, Index
<1>2. CASE Readable(distroCache[k]) /\ r = Class(k)
  BY <1>2 DEF Referring, Class, ClassOf, Index, Readable, ClusterScope
<1> QED
  BY <1>1, <1>2

\* Every step keeps the shapes of caches, objects and passes.
LEMMA ShapesStep ==
    ASSUME Shapes, Next
    PROVE  Shapes'
<1> USE DEF Shapes, cacheVars, apiVars, passVars, Resting
<1>1. CASE Work
  BY <1>1 DEF Work, ReadClass, ReadSecret, OpenSession, Call, Panic, Restart
<1>2. CASE Hear
  BY <1>2 DEF Hear, Learn, LearnOf
<1>3. CASE Wake
  BY <1>3 DEF Wake, Handle, Referring
<1>4. CASE \E k \in Keys : Skip(k) \/ Begin(k)
  BY <1>4 DEF Skip, Begin, Take
<1>5. CASE \E k \in Keys : ApplyDistribution(k)
  BY <1>5 DEF ApplyDistribution
<1>6. CASE \/ \E r \in Watched : ApplyResource(r)
           \/ \E g \in Grants : ApplyGrant(g)
  BY <1>6 DEF ApplyResource, ApplyGrant
<1>7. CASE Crash
  BY <1>7 DEF Crash, Restart
<1> QED
  BY <1>1, <1>2, <1>3, <1>4, <1>5, <1>6, <1>7 DEF Next

-----------------------------------------------------------------------------

\* A new process has everything in its queue.
LEMMA RestartStep ==
    ASSUME Shapes, Restart
    PROVE  AllCared'
  BY DEF Shapes, Restart, AllCared, Cared, Resting

\* What a pass does to the Distribution it is about, and to the others.
LEMMA WorkStep ==
    ASSUME IInv, Work
    PROVE  AllCared'
<1> SUFFICES ASSUME NEW k \in Keys, distroCache'[k] # Absent
             PROVE  ((Seen(k) /\ ~Busy(k)) \/ k \in queue \/ Told(k) \/ InHand(k))'
  BY DEF AllCared, Cared
<1> USE DEF IInv, Shapes, AllCared, Cared, cacheVars, apiVars, passVars, Resting, Busy
<1>1. CASE Panic
  BY <1>1, RestartStep DEF Panic
<1>2. CASE ReadClass
  <2>1. Told(k)' = Told(k) /\ Seen(k)' = Seen(k)
    BY <1>2 DEF ReadClass, Told, Seen, Class, Secret
  <2>2. CASE InHand(k)
    BY <1>2, <2>1, <2>2 DEF ReadClass, InHand, Seen, Class, Secret
  <2> QED
    BY <1>2, <2>1, <2>2 DEF ReadClass
<1>3. CASE ReadSecret
  <2>1. Told(k)' = Told(k) /\ Seen(k)' = Seen(k)
    BY <1>3 DEF ReadSecret, Told, Seen, Class, Secret
  <2>2. CASE InHand(k)
    BY <1>3, <2>1, <2>2 DEF ReadSecret, InHand, Seen, Class, Secret
  <2> QED
    BY <1>3, <2>1, <2>2 DEF ReadSecret
<1>4. CASE OpenSession
  BY <1>4 DEF OpenSession, Told, Seen, InHand, Class, Secret
<1>5. CASE Call
  <2>1. Told(k)' = Told(k)
    BY <1>5 DEF Call, Told, Class, Secret
  <2>2. CASE InHand(k)
    BY <1>5, <2>2 DEF Call, InHand, Seen, Class, Secret
  <2>3. CASE ~Busy(k)
    BY <1>5, <2>1, <2>3 DEF Call, InHand, Seen, Class, Secret
  <2> QED
    BY <1>5, <2>1, <2>2, <2>3 DEF Call
<1> QED
  BY <1>1, <1>2, <1>3, <1>4, <1>5 DEF Work

\* What an informer takes in, it will tell of.
LEMMA HearStep ==
    ASSUME IInv, Hear
    PROVE  AllCared'
<1> SUFFICES ASSUME NEW k \in Keys, distroCache'[k] # Absent
             PROVE  ((Seen(k) /\ ~Busy(k)) \/ k \in queue \/ Told(k) \/ InHand(k))'
  BY DEF AllCared, Cared
<1> USE DEF IInv, Shapes, AllCared, Cared, apiVars, passVars
<1>1. ASSUME NEW j \in Keys, Learn(j)
      PROVE  ((Seen(k) /\ ~Busy(k)) \/ k \in queue \/ Told(k) \/ InHand(k))'
  <2>1. CASE k = j
    BY <1>1, <2>1 DEF Learn, Told
  <2>2. CASE k # j
    BY <1>1, <2>2 DEF Learn, Told, Seen, InHand, Busy, Class, Secret
  <2> QED
    BY <2>1, <2>2
<1>2. ASSUME NEW r \in Watched, LearnOf(r)
      PROVE  ((Seen(k) /\ ~Busy(k)) \/ k \in queue \/ Told(k) \/ InHand(k))'
  <2>1. Class(k)' = Class(k) /\ Secret(k)' = Secret(k) /\ distroCache' = distroCache
    BY <1>2 DEF LearnOf, Class, Secret
  <2>2. CASE r = Secret(k) \/ (Readable(distroCache[k]) /\ r = Class(k))
    BY <1>2, <2>1, <2>2 DEF LearnOf, Told
  <2>3. CASE ~(r = Secret(k) \/ (Readable(distroCache[k]) /\ r = Class(k)))
    <3>1. distroCache[k] \in Specs
      BY <2>1
    <3>2. Secret(k) \in Watched /\ (Readable(distroCache[k]) => Class(k) \in Watched)
      BY <3>1, NameAssumption DEF Secret, Class
    <3>3. /\ resourceCache'[Secret(k)] = resourceCache[Secret(k)]
          /\ Readable(distroCache[k]) => resourceCache'[Class(k)] = resourceCache[Class(k)]
      BY <1>2, <2>3, <3>2 DEF LearnOf
    <3>4. Seen(k)' = Seen(k) /\ (Told(k) => Told(k)') /\ (InHand(k) => InHand(k)')
      BY <1>2, <2>1, <3>3 DEF LearnOf, Seen, Told, InHand, Busy
    <3> QED
      BY <1>2, <2>1, <3>4 DEF LearnOf, Busy
  <2> QED
    BY <2>2, <2>3
<1> QED
  BY <1>1, <1>2 DEF Hear

\* Whoever an event is about is enqueued by its handler.
LEMMA WakeStep ==
    ASSUME IInv, Wake
    PROVE  AllCared'
<1> SUFFICES ASSUME NEW k \in Keys, distroCache'[k] # Absent, NEW e \in Keys \cup Watched, Handle(e)
             PROVE  ((Seen(k) /\ ~Busy(k)) \/ k \in queue \/ Told(k) \/ InHand(k))'
  BY DEF AllCared, Cared, Wake
<1> USE DEF IInv, Shapes, AllCared, Cared, apiVars, cacheVars, passVars
<1>1. Seen(k)' = Seen(k) /\ InHand(k)' = InHand(k) /\ Busy(k)' = Busy(k)
  BY DEF Handle, Seen, InHand, Busy, Class, Secret
<1>2. CASE Told(k)
  <2>1. distroCache[k] \in Specs /\ distroCache[k] # Absent
    BY DEF Handle
  <2>2. Secret(k) \in Watched /\ (Readable(distroCache[k]) => Class(k) \in Watched)
    BY <2>1, NameAssumption DEF Secret, Class
  <2>3. CASE e = k
    BY <2>3 DEF Handle
  <2>4. CASE e = Secret(k) \/ (Readable(distroCache[k]) /\ e = Class(k))
    BY <2>1, <2>2, <2>4, Found, NameAssumption DEF Handle
  <2>5. CASE ~(e = k \/ e = Secret(k) \/ (Readable(distroCache[k]) /\ e = Class(k)))
    BY <1>2, <2>5 DEF Handle, Told, Class, Secret
  <2> QED
    BY <2>3, <2>4, <2>5
<1>3. CASE ~Told(k)
  BY <1>1, <1>3 DEF Handle
<1> QED
  BY <1>2, <1>3

\* A pass begins with what the cache has.
LEMMA TakeStep ==
    ASSUME IInv, NEW j \in Keys, Skip(j) \/ Begin(j)
    PROVE  AllCared'
<1> SUFFICES ASSUME NEW k \in Keys, distroCache'[k] # Absent
             PROVE  ((Seen(k) /\ ~Busy(k)) \/ k \in queue \/ Told(k) \/ InHand(k))'
  BY DEF AllCared, Cared
<1> USE DEF IInv, Shapes, AllCared, Cared, apiVars, cacheVars, passVars, Take
<1>1. Seen(k)' = Seen(k) /\ Told(k)' = Told(k)
  BY DEF Skip, Begin, Seen, Told, Class, Secret
<1>2. CASE Skip(j)
  BY <1>1, <1>2 DEF Skip, InHand, Busy
<1>3. CASE Begin(j)
  BY <1>1, <1>3 DEF Begin, InHand, Busy, Class, Secret
<1> QED
  BY <1>2, <1>3

\* The invariant, from the initial list on.
LEMMA Caring == Spec => []IInv
<1>1. Init => IInv
  BY DEF Init, IInv, Shapes, AllCared, Cared
<1>2. ASSUME IInv, [Next]_vars PROVE IInv'
  <2>1. CASE Work
    BY <1>2, <2>1, ShapesStep, WorkStep DEF IInv, Next
  <2>2. CASE Hear
    BY <1>2, <2>2, ShapesStep, HearStep DEF IInv, Next
  <2>3. CASE Wake
    BY <1>2, <2>3, ShapesStep, WakeStep DEF IInv, Next
  <2>4. CASE \E k \in Keys : Skip(k) \/ Begin(k)
    BY <1>2, <2>4, ShapesStep, TakeStep DEF IInv, Next
  <2>5. CASE Crash
    BY <1>2, <2>5, ShapesStep, RestartStep DEF IInv, Next, Crash
  <2>6. CASE \/ \E k \in Keys : ApplyDistribution(k)
             \/ \E r \in Watched : ApplyResource(r)
             \/ \E g \in Grants : ApplyGrant(g)
             \/ UNCHANGED vars
    <3>1. Shapes'
      BY <1>2, <2>6, ShapesStep DEF IInv, Next, vars, apiVars, cacheVars, passVars, Shapes
    <3>2. UNCHANGED <<cacheVars, events, queue, passVars, applied>>
      BY <2>6 DEF ApplyDistribution, ApplyResource, ApplyGrant, vars
    <3>3. AllCared'
      BY <1>2, <3>2 DEF IInv, AllCared, Cared, Seen, Told, InHand, Busy, Class, Secret,
                       cacheVars, passVars
    <3> QED
      BY <3>1, <3>3 DEF IInv
  <2> QED
    BY <1>2, <2>1, <2>2, <2>3, <2>4, <2>5, <2>6 DEF Next
<1> QED
  BY <1>1, <1>2, PTL DEF Spec

\* Once nothing is queued, in hand or on its way, every Distribution has been
\* reconciled with what its references lead to.
THEOREM NothingMissed == Spec => []NoWakeupLost
<1>1. IInv => NoWakeupLost
  BY DEF IInv, Shapes, AllCared, Cared, NoWakeupLost, Quiet, UpToDate, Seen, Told, InHand,
         Busy, Class, Secret
<1> QED
  BY <1>1, Caring, PTL
=============================================================================
