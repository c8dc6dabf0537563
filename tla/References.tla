------------------------------ MODULE References ------------------------------
(***************************************************************************)
(* What a Distribution refers to, by kind and name, and how the manager    *)
(* follows it: the class reader, the field indexes, the indexed watches    *)
(* and the AWS credentials of the class.                                   *)
(*                                                                         *)
(* Each informer has a cache of its own; it first takes a change in and    *)
(* calls its handler later, which looks Distributions up in a cache that   *)
(* is ahead of the event or behind it.  Credentials are read from the API  *)
(* server by every pass, and watched by nobody.                            *)
(*                                                                         *)
(* A pass is what DistributionController makes of it, seen from its reads: *)
(* what it does at AWS is one step here, and a deleted Distribution is     *)
(* gone at once.  A class has a CloudFront section and is worth its Auth;  *)
(* every Distribution has TLS and hosts.                                   *)
(***************************************************************************)
EXTENDS Naturals, FiniteSets

CONSTANTS
    Keys,         \* Distributions: records of a namespace ns and a name
    Specs,        \* their specs: a class reference, by kind and name, and a secret's name
    Auths,        \* Auth details of a class
    Certificates, \* contents of a TLS secret
    Watched,      \* classes and TLS secrets: records of kind, ns and name
    Grants,       \* secrets with AWS keys, ServiceAccounts: records of kind and ns
    NoRef,        \* AccessKeyRef == nil, JWTAuth == nil
    Nowhere,      \* the namespace of what has none; Namespace == nil
    Absent,       \* what is not there
    MaxChanges    \* how many times users, operators and crashes act

ASSUME ReferenceAssumption ==
    /\ \A s \in Specs : DOMAIN s = {"kind", "name", "secret"}
    /\ \A a \in Auths : DOMAIN a = {"key", "jwt"}
    /\ Absent \notin Specs \cup Auths \cup Certificates
    /\ Certificates # {}
    /\ MaxChanges \in Nat

VARIABLES
    distro,    \* the API server's Distributions
    resource,  \* the API server's classes and TLS secrets
    grant,     \* the API server's credential secrets and ServiceAccounts
    distroCache, resourceCache,
    events,    \* handlers yet to be called, by what has changed
    queue,
    pc, key, copy, auth, cert, session,   \* the pass
    applied,   \* the class and the certificate CloudFront was last given for a Distribution
    changes

apiVars   == <<distro, resource, grant>>
cacheVars == <<distroCache, resourceCache>>
passVars  == <<pc, key, copy, auth, cert, session>>
vars == <<apiVars, cacheVars, events, queue, passVars, applied, changes>>

Values(r) == IF r.kind = "Secret" THEN Certificates ELSE Auths

-----------------------------------------------------------------------------
(* Names                                                                    *)

\* GetDistributionClassSpec: the resource a class reference names.
ClassOf(k, s) == [kind |-> s.kind, name |-> s.name,
                  ns |-> IF s.kind = "ClusterDistributionClass" THEN Nowhere ELSE k.ns]

SecretOf(k, s) == [kind |-> "Secret", name |-> s.secret, ns |-> k.ns]

\* Any other kind is an error; the schema does not exclude it.
Readable(s) == s.kind \in {"ClusterDistributionClass", "DistributionClass"}

IndexBug(field, s) == IF field = "Secret" THEN {s.secret}    \* an index never set up
                      ELSE {s.name : f \in {"DistributionClass"} \cap {s.kind, field}}

\* The keys a Distribution has in the index of a field, named for a kind.
Index(field, s) == IF field = "Secret" THEN {s.secret}
                   ELSE {s.name : f \in {field} \cap {s.kind}}

\* BuildIndexedReferenceWatcher
ClusterScope(kind) == kind = "ClusterDistributionClass"

\* enqueue: the Distributions, in the cache, that the index finds for a resource.
Referring(r) == {k \in Keys : /\ distroCache[k] # Absent
                              /\ r.name \in Index(r.kind, distroCache[k])
                              /\ ClusterScope(r.kind) \/ k.ns = r.ns}

\* Every resource that may be referred to is known by name, whether it is there or not.
ASSUME NameAssumption ==
    /\ \A k \in Keys, s \in Specs : /\ SecretOf(k, s) \in Watched
                                    /\ Readable(s) => ClassOf(k, s) \in Watched
    /\ Keys \cap Watched = {}

-----------------------------------------------------------------------------
(* AWS credentials                                                          *)

\* Both kinds of reference, as CloudFrontProvider asks for them: it hands no
\* namespace over, so the reference must have one.
Granted(kind, ref, given) ==
    IF ref # Nowhere /\ grant[[kind |-> kind, ns |-> ref]] = "complete" THEN given ELSE "error"

CredentialsBug(a) ==
    CASE a.jwt # NoRef                  -> Granted("ServiceAccount", a.jwt, "token")
      [] a.key # NoRef /\ a.jwt = NoRef -> Granted("Secret", a.key, "static")
      [] OTHER                          -> "ambient"

\* NewSession: an access key goes before a ServiceAccount, and without either the
\* pod's own credentials are used.
Credentials(a) ==
    CASE a.key # NoRef                  -> Granted("Secret", a.key, "static")
      [] a.key = NoRef /\ a.jwt # NoRef -> Granted("ServiceAccount", a.jwt, "token")
      [] OTHER                          -> "ambient"

-----------------------------------------------------------------------------

SomeCertificate == CHOOSE c \in Certificates : TRUE

Resting == /\ pc' = "idle"
           /\ key' = Absent /\ copy' = Absent /\ auth' = Absent /\ cert' = Absent
           /\ session' = "none"

\* At first all use one kind of class, all classes are alike, and so are the secrets.
Init == /\ \E s \in {s \in Specs : Readable(s)} : distro = [k \in Keys |-> s]
        /\ \E a \in Auths :
             resource = [r \in Watched |-> IF r.kind = "Secret" THEN SomeCertificate ELSE a]
        /\ grant = [g \in Grants |-> "complete"]
        /\ distroCache = distro /\ resourceCache = resource
        /\ events = {}
        /\ queue = Keys
        /\ pc = "idle" /\ key = Absent /\ copy = Absent /\ auth = Absent /\ cert = Absent
        /\ session = "none"
        /\ applied = [k \in Keys |-> Absent]
        /\ changes = 0

-----------------------------------------------------------------------------
(* The worker                                                               *)

Take(k) == /\ pc = "idle"
           /\ k \in queue
           /\ queue' = queue \ {k}
           /\ UNCHANGED <<apiVars, cacheVars, events, applied, changes>>

Skip(k) == Take(k) /\ distroCache[k] = Absent /\ UNCHANGED passVars

Begin(k) == /\ Take(k)
            /\ distroCache[k] # Absent
            /\ pc' = "class" /\ key' = k /\ copy' = distroCache[k]
            /\ UNCHANGED <<auth, cert, session>>

\* What is not found ends the pass; any other error makes it start again.
ReadClass ==
    /\ pc = "class"
    /\ LET class == ClassOf(key, copy) IN
       IF Readable(copy) /\ resourceCache[class] # Absent
       THEN /\ auth' = resourceCache[class]
            /\ pc' = "secret"
            /\ UNCHANGED <<queue, key, copy, cert, session>>
       ELSE /\ Resting
            /\ queue' = queue \cup {k \in {key} : ~Readable(copy)}
    /\ UNCHANGED <<apiVars, cacheVars, events, applied, changes>>

\* Without its secret the pass ends, or goes on with the one the resolver holds.
ReadSecret ==
    /\ pc = "secret"
    /\ LET found == resourceCache[SecretOf(key, copy)] IN
       \/ /\ cert' \in (IF found # Absent THEN {found} ELSE Certificates)
          /\ pc' = "session"
          /\ UNCHANGED <<key, copy, auth, session>>
       \/ found = Absent /\ Resting
    /\ UNCHANGED <<apiVars, cacheVars, events, queue, applied, changes>>

OpenSession ==
    /\ pc = "session"
    /\ Credentials(auth) # "error"
    /\ session' = Credentials(auth)
    /\ pc' = "call"
    /\ UNCHANGED <<apiVars, cacheVars, events, queue, key, copy, auth, cert, applied, changes>>

\* The session's token is fetched by the first AWS call: without its ServiceAccount
\* the call fails, and the pass is repeated.
Call ==
    /\ pc = "call"
    /\ IF session = "token" /\ grant[[kind |-> "ServiceAccount", ns |-> auth.jwt]] = Absent
       THEN /\ queue' = queue \cup {key}
            /\ UNCHANGED applied
       ELSE /\ applied' = [applied EXCEPT ![key] = [class |-> auth, cert |-> cert]]
            /\ UNCHANGED queue
    /\ Resting
    /\ UNCHANGED <<apiVars, cacheVars, events, changes>>

\* A new process lists everything and enqueues it.
Restart == /\ Resting
           /\ distroCache' = distro /\ resourceCache' = resource
           /\ events' = {}
           /\ queue' = {k \in Keys : distro[k] # Absent}
           /\ UNCHANGED <<apiVars, applied>>

\* The error of NewSession is dropped and its nil session used.
Panic == /\ pc = "session"
         /\ Credentials(auth) = "error"
         /\ Restart
         /\ UNCHANGED changes

Work == ReadClass \/ ReadSecret \/ OpenSession \/ Call \/ Panic

-----------------------------------------------------------------------------
(* The informers                                                            *)

Learn(k) == /\ distroCache[k] # distro[k]
            /\ distroCache' = [distroCache EXCEPT ![k] = distro[k]]
            /\ events' = events \cup {k}
            /\ UNCHANGED <<apiVars, resourceCache, queue, passVars, applied, changes>>

LearnOf(r) == /\ resourceCache[r] # resource[r]
              /\ resourceCache' = [resourceCache EXCEPT ![r] = resource[r]]
              /\ events' = events \cup {r}
              /\ UNCHANGED <<apiVars, distroCache, queue, passVars, applied, changes>>

\* Create, Update, Delete and Generic all come to this.
Handle(e) == /\ e \in events
             /\ events' = events \ {e}
             /\ queue' = queue \cup (IF e \in Keys THEN {e} ELSE Referring(e))
             /\ UNCHANGED <<apiVars, cacheVars, passVars, applied, changes>>

-----------------------------------------------------------------------------
(* Users, operators and crashes                                             *)

Change == changes < MaxChanges /\ changes' = changes + 1

ApplyDistribution(k) ==
    /\ Change
    /\ \E s \in (Specs \cup {Absent}) \ {distro[k]} : distro' = [distro EXCEPT ![k] = s]
    /\ UNCHANGED <<resource, grant, cacheVars, events, queue, passVars, applied>>

ApplyResource(r) ==
    /\ Change
    /\ \E v \in (Values(r) \cup {Absent}) \ {resource[r]} :
         resource' = [resource EXCEPT ![r] = v]
    /\ UNCHANGED <<distro, grant, cacheVars, events, queue, passVars, applied>>

\* A partial one lacks a key of the secret, or the annotation with the role.
ApplyGrant(g) ==
    /\ Change
    /\ \E v \in {"complete", "partial", Absent} \ {grant[g]} : grant' = [grant EXCEPT ![g] = v]
    /\ UNCHANGED <<distro, resource, cacheVars, events, queue, passVars, applied>>

Crash == Change /\ Restart

Hear == (\E k \in Keys : Learn(k)) \/ (\E r \in Watched : LearnOf(r))
Wake == \E e \in Keys \cup Watched : Handle(e)

Next == \/ \E k \in Keys : Skip(k) \/ Begin(k) \/ ApplyDistribution(k)
        \/ Work \/ Hear \/ Wake
        \/ \E r \in Watched : ApplyResource(r)
        \/ \E g \in Grants : ApplyGrant(g)
        \/ Crash

Spec == Init /\ [][Next]_vars

\* The worker runs, the queue is fair to its keys, informers deliver, though nothing
\* is assumed of their order.
Fairness == /\ WF_vars(Work) /\ WF_vars(Hear) /\ WF_vars(Wake)
            /\ \A k \in Keys : SF_vars(Skip(k) \/ Begin(k))

FairSpec == Spec /\ Fairness

-----------------------------------------------------------------------------
(* Properties                                                               *)

Quiet == /\ pc = "idle" /\ queue = {} /\ events = {}
         /\ distroCache = distro /\ resourceCache = resource

\* CloudFront was last given what k's references now lead to, if they lead anywhere.
UpToDate(k) ==
    LET class  == resource[ClassOf(k, distro[k])]
        secret == resource[SecretOf(k, distro[k])]
    IN Readable(distro[k]) /\ class # Absent /\ secret # Absent
       => applied[k] = [class |-> class, cert |-> secret]

\* No wakeup is lost: whatever changed of a Distribution, its class or its secret, in
\* whichever order the informers told of it, once nothing is queued or on its way every
\* Distribution has been reconciled with what it now refers to.
NoWakeupLost == Quiet => \A k \in Keys : distro[k] # Absent => UpToDate(k)

\* What the code needs for a class: the object of its access key, else that of its
\* ServiceAccount, complete, and named with its namespace whatever the kind of the class.
\* The comments on NewSession and on NamespacedName promise that a namespaced class's own
\* is taken; without one the manager crashes until the reference is edited.
Provided(a) == IF a.key = NoRef
               THEN a.jwt # NoRef => /\ a.jwt # Nowhere
                                     /\ grant[[kind |-> "ServiceAccount", ns |-> a.jwt]] = "complete"
               ELSE a.key # Nowhere /\ grant[[kind |-> "Secret", ns |-> a.key]] = "complete"

\* Missing credentials crash the manager again and again, though nobody watches them
\* their repair ends it: once every class that is used has what the code needs, every
\* Distribution is reconciled with what it refers to.
RepairHeals ==
    <>[](\A k \in Keys :
           distro[k] # Absent /\ Readable(distro[k])
           => LET a == resource[ClassOf(k, distro[k])] IN a # Absent => Provided(a))
    => <>[](\A k \in Keys : distro[k] # Absent => UpToDate(k))
=============================================================================
