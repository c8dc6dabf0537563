-------------------------- MODULE CloudFrontProvider --------------------------
(***************************************************************************)
(* pkg/provider/cloudfront: what one pass of the controller does to AWS    *)
(* for one Distribution.  Every remote call is a step of its own, because  *)
(* AWS, the user and a crash may act between any two of them.  pc names    *)
(* the next call; "report" is the return to the controller.                *)
(*                                                                         *)
(* Two code paths share the steps, told apart by copy.deleting:            *)
(*   Reconcile:  describe | import, then load | create, then update        *)
(*   Delete:     load, disable | deleteCf, then deleteCert                 *)
(*                                                                         *)
(* Definitions named ...Bug are mutants: what a plausible mistake in the   *)
(* code would make of the definition after them.  No specification uses    *)
(* them; each shows that some property can fail.                           *)
(***************************************************************************)
EXTENDS Aws

CONSTANTS Hostless        \* configurations with an empty Spec.Hosts

ASSUME HostlessAssumption == Hostless \subseteq Configs

VARIABLES
    pc,        \* what the worker does next
    key,       \* the Distribution this pass is about: its UID
    copy,      \* the object as read from the cache when the pass began
    cls,       \* the class spec read when the pass began
    cert,      \* what the CertificateResolver returned
    status,    \* newStatus, the status being built
    etag,      \* the ETag got by load() still names the newest configuration
    failed     \* the provider returned an error

passVars == <<pc, key, copy, cls, cert, status, etag, failed>>

\* What the steps of the provider never touch.
given == <<key, copy, cls, cert>>

-----------------------------------------------------------------------------

Status == [ready : BOOLEAN, id : CfIds \cup {0}, arn : Arns \cup {0},
           ext : {"", "Unknown", "InProgress", "Deployed"}]

EmptyStatus == [ready |-> FALSE, id |-> 0, arn |-> 0, ext |-> ""]

\* generateDistributionConfig, up to the certificate and the enabled flag.
Desired(spec, class) == [config |-> spec.config, class |-> class]

ObservedBug(s, i, phase) == [s EXCEPT !.id = i, !.ext = phase, !.ready = TRUE]

\* setStatus
Observed(s, i, phase) ==
    [s EXCEPT !.id = i, !.ext = phase, !.ready = (phase = "Deployed")]

UpToDateBug(i) == FALSE     \* aliases compared in whatever order AWS lists them

\* Check()'s DeepEqual of the desired and the current state.  Without hosts the
\* desired alias list is nil and the current one an empty slice: never equal.
UpToDate(i) == /\ cf[i].config = Desired(copy.spec, cls)
               /\ cf[i].enabled
               /\ cf[i].arn = status.arn
               /\ copy.spec.config \notin Hostless

\* Return an error.  Only reconcileProviders takes Ready back because of it.
Fail(s) == /\ status' = [s EXCEPT !.ready = @ /\ copy.deleting]
           /\ failed' = TRUE
           /\ pc' = "report"

Goto(label, s) == /\ status' = s
                  /\ pc' = label
                  /\ UNCHANGED failed

-----------------------------------------------------------------------------
(* CertificateProvider                                                      *)

\* Reconcile of either provider: check what the status records, else create.
FirstCertStep(s) == IF s.arn = 0 THEN "import" ELSE "describe"
FirstCfStep      == IF copy.status.id = 0 THEN "create" ELSE "load"

Describe ==
    /\ pc = "describe"
    /\ \/ /\ Imported(status.arn)
          /\ cert.value \notin {"absent", "blank"}
          /\ Goto(IF acm[status.arn] = cert.value THEN FirstCfStep ELSE "import", status)
          /\ UNCHANGED chaos
       \/ /\ ~Imported(status.arn)
          /\ Goto("import", [status EXCEPT !.arn = 0])
          /\ UNCHANGED chaos
       \/ /\ Perturb("awsError")
          /\ Fail(status)
    /\ UNCHANGED <<awsVars, given, etag>>

ImportTargetBug(a) == IF status.arn = 0
                      THEN FreshArn(a) \/ acm[a] = cert.value   \* look it up by serial
                      ELSE a = status.arn /\ Imported(a)

\* ImportCertificate renews the certificate of the ARN it is given.
ImportTarget(a) == IF status.arn = 0 THEN FreshArn(a) ELSE a = status.arn /\ Imported(a)

Import ==
    /\ pc = "import"
    /\ cert.value # "absent"
    /\ \/ \E a \in Arns :
            /\ cert.value \in Serials
            /\ ImportTarget(a)
            /\ acm' = [acm EXCEPT ![a] = cert.value]
            /\ \/ Goto(FirstCfStep, [status EXCEPT !.arn = a]) /\ UNCHANGED chaos
               \/ Perturb("awsLost") /\ Fail(status)
       \/ /\ \/ /\ cert.value \notin Serials \/ ~\E a \in Arns : ImportTarget(a)
                /\ UNCHANGED chaos
             \/ Perturb("awsError")
          /\ Fail(status)
          /\ UNCHANGED acm
    /\ UNCHANGED <<cf, given, etag>>

\* ResourceInUse is the answer for a certificate some distribution still names;
\* an empty ARN does not pass the SDK's own validation.
DeleteCert ==
    /\ pc = "deleteCert"
    /\ \/ /\ Imported(status.arn) /\ ~InUse(status.arn)
          /\ acm' = [acm EXCEPT ![status.arn] = "gone"]
          /\ \/ Goto("report", [status EXCEPT !.arn = 0]) /\ UNCHANGED chaos
             \/ Perturb("awsLost") /\ Fail(status)
       \/ /\ status.arn # 0 /\ ~Imported(status.arn)
          /\ Goto("report", [status EXCEPT !.arn = 0])
          /\ UNCHANGED <<acm, chaos>>
       \/ /\ \/ /\ status.arn = 0 \/ InUse(status.arn)
                /\ UNCHANGED chaos
             \/ Perturb("awsError")
          /\ Fail(status)
          /\ UNCHANGED acm
    /\ UNCHANGED <<cf, given, etag>>

-----------------------------------------------------------------------------
(* DistributionProvider                                                     *)

AfterLoadBug(i) == CASE cf[i].enabled /\ (copy.deleting \/ ~UpToDate(i)) -> "disable"
                     [] ~cf[i].enabled /\ copy.deleting               -> "deleteCf"
                     [] OTHER                                         -> "report"
DisableAgainBug(i) == IF copy.deleting THEN "disable"
                      ELSE IF UpToDate(i) THEN "report" ELSE "update"

\* Where Check and Delete go once load() has found the distribution.
AfterLoad(i) ==
    IF copy.deleting
    THEN CASE cf[i].enabled                -> "disable"
           [] cf[i].phase = "InProgress"
              /\ ~cf[i].enabled            -> "report"
           [] OTHER                        -> "deleteCf"
    ELSE IF UpToDate(i) THEN "report" ELSE "update"

LoadFailedBug(s) == [s EXCEPT !.id = 0, !.ext = "Unknown"]   \* any error is NotFound

\* load() on an error that is not NoSuchDistribution.
LoadFailed(s) == [s EXCEPT !.ext = "Unknown"]

Load ==
    /\ pc = "load"
    /\ LET i == copy.status.id IN
       \/ /\ Live(i)
          /\ Goto(AfterLoad(i), Observed(status, i, cf[i].phase))
          /\ etag' = TRUE
          /\ UNCHANGED chaos
       \/ /\ ~Live(i)
          /\ Goto(IF copy.deleting THEN "deleteCert" ELSE "create",
                  [status EXCEPT !.id = 0, !.ext = "Unknown"])
          /\ UNCHANGED <<etag, chaos>>
       \/ /\ Perturb("awsError")
          /\ Fail(LoadFailed(status))
          /\ UNCHANGED etag
    /\ UNCHANGED <<awsVars, given>>

ClashesBug == {}     \* a new caller reference for every call

\* The distributions a CreateDistribution with the UID as caller reference runs into.
Clashes == Owned(key)

\* A taken caller reference is answered with DistributionAlreadyExists, whose
\* message holds the id; the pass then ends in an error, to be retried.
Create ==
    /\ pc = "create"
    /\ \/ \E i \in CfIds :
            /\ Clashes = {} /\ FreshCf(i) /\ Usable(status.arn)
            /\ cf' = [cf EXCEPT ![i] =
                        [phase |-> "InProgress", ref |-> key, enabled |-> TRUE,
                         config |-> Desired(copy.spec, cls), arn |-> status.arn]]
            /\ \/ Goto("report", Observed(status, i, "InProgress")) /\ UNCHANGED chaos
               \/ Perturb("awsLost") /\ Fail([status EXCEPT !.ext = "Unknown"])
       \/ \E i \in Clashes :
            /\ Fail([status EXCEPT !.id = i, !.ext = "Unknown"])
            /\ UNCHANGED <<cf, chaos>>
       \/ /\ \/ /\ ~Usable(status.arn) \/ ~\E i \in CfIds : FreshCf(i)
                /\ UNCHANGED chaos
             \/ Perturb("awsError")
          /\ Fail([status EXCEPT !.ext = "Unknown"])
          /\ UNCHANGED cf
    /\ UNCHANGED <<acm, given, etag>>

\* UpdateDistribution with IfMatch: AWS refuses a configuration based on an older one.
Put(config, enabled, arn) ==
    LET i == status.id IN
    /\ \/ /\ Live(i) /\ etag /\ Usable(arn)
          /\ cf' = [cf EXCEPT ![i] = [@ EXCEPT !.phase = "InProgress", !.enabled = enabled,
                                               !.config = config, !.arn = arn]]
          /\ \/ Goto("report", Observed(status, i, "InProgress")) /\ UNCHANGED chaos
             \/ Perturb("awsLost") /\ Fail(status)
       \/ /\ \/ ~(Live(i) /\ etag /\ Usable(arn)) /\ UNCHANGED chaos
             \/ Perturb("awsError")
          /\ Fail(status)
          /\ UNCHANGED cf
    /\ UNCHANGED <<acm, given, etag>>

Update == /\ pc = "update"
          /\ Put(Desired(copy.spec, cls), TRUE, status.arn)

\* Delete() sends back the configuration it loaded, disabled.
Disable == /\ pc = "disable"
           /\ Put(cf[status.id].config, FALSE, cf[status.id].arn)

\* AWS deletes only what is disabled, rolled out and of the given ETag.
DeleteCf ==
    /\ pc = "deleteCf"
    /\ LET i == status.id
           deletable == cf[i].phase = "Deployed" /\ ~cf[i].enabled /\ etag
       IN \/ /\ deletable
             /\ cf' = [cf EXCEPT ![i].phase = "gone"]
             /\ \/ Goto("deleteCert", [status EXCEPT !.id = 0]) /\ UNCHANGED chaos
                \/ Perturb("awsLost") /\ Fail(status)
          \/ /\ \/ ~deletable /\ UNCHANGED chaos
                \/ Perturb("awsError")
             /\ Fail(status)
             /\ UNCHANGED cf
    /\ UNCHANGED <<acm, given, etag>>

\* Dereferencing a nil certificate ends the process, whatever else it was doing:
\* Create() on no certificate at all, getSerial() on one that was not parsed.
ProviderPanics ==
    \/ pc = "import" /\ cert.value = "absent"
    \/ pc = "describe" /\ Imported(status.arn) /\ cert.value \in {"absent", "blank"}

ProviderStep == \/ Describe \/ Import \/ DeleteCert
                \/ Load \/ Create \/ Update \/ Disable \/ DeleteCf
=============================================================================
