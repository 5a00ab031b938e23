--------------------------- MODULE DSPAConditions ---------------------------
(***************************************************************************)
(* The status conditions of one DSPA.  Every reconcile starts from Unknown  *)
(* for all of them (NewDSPAStatus), fills in what it finds out on its way,  *)
(* derives CrReady (GetConditions), publishes CrReady as a gauge and writes *)
(* the lot over what the DSPA had (updateStatus).  What it found out may be *)
(* about a moment that has passed, and the conditions it carries over when  *)
(* managed-pipeline validation blocks it come from the copy of the DSPA it  *)
(* started with.                                                            *)
(*                                                                         *)
(* Finalizers, deletion and the writes of the spec are module               *)
(* DSPAReconciler's; here the DSPA is its conditions.                       *)
(***************************************************************************)
EXTENDS Naturals, Sequences, FiniteSets

CONSTANTS
    Components,     \* the conditions set after managed-pipeline validation,
                    \* in the order of Reconcile
    Worlds,         \* what may be true around the operator (see World)
    MaxChanges,     \* bound: changes of the surroundings
    MaxFaults,      \* bound: steps of Reconcile that fail
    MaxTime         \* bound on the clock

AllComponents == {"APIServerReady", "PersistenceAgentReady", "ScheduledWorkflowReady",
                  "WorkflowControllerReady", "MLMDProxyReady"}
ComponentTypes == {Components[i] : i \in 1..Len(Components)}
PrereqTypes == {"DatabaseAvailable", "ObjectStoreAvailable"}
Types == PrereqTypes \cup {"WebhookReady", "ManagedPipelineValid"} \cup ComponentTypes

\* What evaluateCondition can find out about a component: its Deployment may be
\* there, missing or unreadable, scaled down, available, failing to progress or
\* to create replicas; its pods fine, failed, in a crash loop or unreadable.
View == [found : {"yes", "no", "error"}, scaledDown : BOOLEAN, available : BOOLEAN,
         progressFailed : BOOLEAN, replicaFailure : BOOLEAN,
         pods : {"ok", "failed", "crashLoop", "error"}]

\* `params`: the version is unsupported, a parameter cannot be resolved, or all
\* is well; `up`: the prerequisites that answer; `webhook` and `manifest`: what
\* those two steps will find; `disabled`: components the operator is told not to
\* deploy (the workflow controller); `view`: each component's own Deployment and
\* pods in the caches.
World == [params : {"ok", "unsupported", "unresolved"}, up : SUBSET PrereqTypes,
          webhook : {"notApplicable", "ready", "notReady"},
          manifest : {"notApplicable", "valid", "permanent", "transient"},
          disabled : SUBSET (ComponentTypes \cap {"WorkflowControllerReady"}),
          view : [AllComponents -> View]]

ASSUME ConstantsOK ==
    /\ Components \in Seq(AllComponents)
    /\ Components # <<>>
    /\ Worlds \subseteq World
    /\ MaxChanges \in Nat /\ MaxFaults \in Nat /\ MaxTime \in Nat

VARIABLES
    obj,        \* the conditions of the DSPA in the API server
    cache,      \* those in the informer cache, at most one version behind: a
                \* write from an older one is a conflict
    queued,     \* the name is in the workqueue
    world,      \* what is true around the operator
    clock,
    pc,         \* where Reconcile is; a component's type when that is next
    mem,        \* those of the DSPA it started with
    began,      \* history: when it started
    status,     \* dspaStatus: the conditions found out so far
    override,   \* dspaStatus.dspaReady, "nil" or set by SetDSPANotReady
    requeue,    \* Reconcile will return an error or a RequeueAfter
    gauge,      \* the CrReady series: none, 0 or 1
    changes, faults     \* budgets used

local == <<pc, mem, began, status, override, requeue>>
vars == <<obj, cache, queued, world, clock, pc, mem, began, status,
          override, requeue, gauge, changes, faults>>

-----------------------------------------------------------------------------
(* Conditions. *)

Reasons == Types \cup
    {"Unknown", "NotApplicable", "FailingToDeploy", "UnsupportedVersion", "Deploying",
     "MinimumReplicasAvailable", "ComponentDeploymentNotFound",
     "ManagedPipelineInvalid", "ManagedPipelinesFetchError"}

\* As stored: the type may not be there yet.
Condition == [status : {"True", "False", "Unknown", "absent"},
              reason : Reasons \cup {"none"}, since : Nat]

NoCondition == [status |-> "absent", reason |-> "none", since |-> 0]

\* metav1.Condition{}, what evaluateCondition returns with an error.
EmptyCondition == [status |-> "", reason |-> "", since |-> 0]

BuildTrueCondition(type) == [status |-> "True", reason |-> type, since |-> clock]
BuildFalseCondition(reason) == [status |-> "False", reason |-> reason, since |-> clock]

\* Mutant: the initial conditions come without a reason.
BuildUnknownConditionNoReason == [status |-> "Unknown", reason |-> "", since |-> clock]

BuildUnknownCondition == [status |-> "Unknown", reason |-> "Unknown", since |-> clock]

isNonBlockingReason(reason) ==
    reason \in {"NotApplicable", "ManagedPipelinesFetchError"}

\* Mutant: only what has been found to be false counts.
BlockingFalse(c) == c.status = "False" /\ ~isNonBlockingReason(c.reason)

\* Whether condition c stands in the way of CrReady.
Blocking(c) == c.status \in {"False", "Unknown"} /\ ~isNonBlockingReason(c.reason)

\* The overall condition, unless SetDSPANotReady said otherwise.
CrReady ==
    IF override # "nil" THEN BuildFalseCondition(override)
    ELSE [status |-> IF \E t \in Types : Blocking(status[t]) THEN "False" ELSE "True",
          reason |-> "MinimumReplicasAvailable", since |-> clock]

\* Mutant: every write is a transition.
KeepTransitionTimeNever(c, prev) == c

\* Mutant: no write is.
KeepTransitionTimeAlways(c, prev) ==
    IF prev.status # "absent" THEN [c EXCEPT !.since = prev.since] ELSE c

\* Mutant: a condition whose status is that of the DSPA is kept as a whole.
KeepTransitionTimeAndReason(c, prev) == IF prev.status = c.status THEN prev ELSE c

\* A condition whose status is that of the DSPA keeps its LastTransitionTime.
KeepTransitionTime(c, prev) ==
    IF prev.status = c.status THEN [c EXCEPT !.since = prev.since] ELSE c

\* GetConditions of a dspaStatus whose DSPA has the conditions `prev`.
GetConditions(prev) ==
    [t \in Types \cup {"CrReady"} |->
        KeepTransitionTime(IF t = "CrReady" THEN CrReady ELSE status[t], prev[t])]

\* The component whose Deployment a condition is evaluated on, by the resource
\* name given to setStatus.  mlmdProxyDefaultResourceNamePrefix is that of the
\* scheduled workflow, so nothing ever looks at MLMD's own Deployment.
EvaluatedOn(t) == IF t = "MLMDProxyReady" THEN "ScheduledWorkflowReady" ELSE t

\* evaluateCondition, in the order of its returns.
EvaluateCondition(v) ==
    CASE v.found = "no" -> BuildFalseCondition("ComponentDeploymentNotFound")
      [] v.found = "error" -> EmptyCondition
      [] v.found = "yes" /\ v.scaledDown -> BuildFalseCondition("MinimumReplicasAvailable")
      [] v.found = "yes" /\ ~v.scaledDown /\ v.available ->
            BuildTrueCondition("MinimumReplicasAvailable")
      [] OTHER ->
            IF v.progressFailed \/ v.replicaFailure
            THEN BuildFalseCondition("FailingToDeploy")
            ELSE IF v.pods = "error" THEN EmptyCondition
            ELSE BuildFalseCondition(IF v.pods = "ok" THEN "Deploying"
                                                      ELSE "FailingToDeploy")

-----------------------------------------------------------------------------
Init ==
    /\ obj = [t \in Types \cup {"CrReady"} |-> NoCondition]
    /\ cache = obj /\ queued = TRUE
    /\ world \in Worlds /\ clock = 0
    /\ pc = "idle" /\ mem = obj /\ began = 0
    /\ status = [t \in Types |-> BuildUnknownCondition] /\ override = "nil"
    /\ requeue = FALSE /\ gauge = "none"
    /\ changes = 0 /\ faults = 0

\* Reconcile goes on at `step` with the conditions `s`.
Goto(step, s) ==
    /\ pc' = step /\ status' = s
    /\ UNCHANGED <<mem, began, override, requeue>>

\* It returns, `again` if with an error or a RequeueAfter.
Return(s, again) ==
    /\ pc' = "publish" /\ status' = s /\ requeue' = (requeue \/ again)
    /\ UNCHANGED <<mem, began, override>>

Set(t, c) == [status EXCEPT ![t] = c]

\* What a step of Reconcile leaves alone.
Quiet == UNCHANGED <<obj, cache, queued, world, clock, gauge, changes>>

\* A step that applies resources fails, with the conditions `s` so far.
FailingWith(s) ==
    /\ faults < MaxFaults /\ faults' = faults + 1
    /\ Return(s, TRUE)

\* ... and the condition t, if it has one, says so.
Failing(t) ==
    FailingWith(IF t = "none" THEN status
                ELSE Set(t, BuildFalseCondition("FailingToDeploy")))

-----------------------------------------------------------------------------
(* Reconcile, in the order of its statements. *)

Get ==
    /\ pc = "idle" /\ queued
    /\ queued' = FALSE
    /\ pc' = "params" /\ mem' = cache /\ began' = clock
    /\ status' = [t \in Types |-> BuildUnknownCondition]
    /\ override' = "nil" /\ requeue' = FALSE
    /\ UNCHANGED <<obj, cache, world, clock, gauge, changes, faults>>

\* An unsupported version is reported on all conditions but those of the
\* webhook, the managed pipelines and the workflow controller; a failing Update of
\* the finalizer on none; an unresolved parameter on the API server's.
Params ==
    /\ pc = "params"
    /\ LET reported == IF world.params = "unsupported"
                       THEN (PrereqTypes \cup ComponentTypes) \ {"WorkflowControllerReady"}
                       ELSE ComponentTypes \cap {"APIServerReady"}
           reason == IF world.params = "unsupported" THEN "UnsupportedVersion"
                                                     ELSE "FailingToDeploy"
       IN  \/ world.params # "unsupported" /\ Failing("none")
           \/ world.params = "ok" /\ Goto("deploy", status) /\ UNCHANGED faults
           \/ /\ world.params # "ok"
              /\ pc' = "publish" /\ override' = reason
              /\ status' = [t \in Types |-> IF t \in reported
                                            THEN BuildFalseCondition(reason)
                                            ELSE status[t]]
              /\ requeue' = (world.params = "unresolved")
              /\ UNCHANGED <<mem, began, faults>>
    /\ Quiet

\* ReconcileDatabase, then ReconcileStorage; each that succeeds sets its condition
\* for the time being.
Deploy ==
    /\ pc = "deploy"
    /\ LET Applied(c) == [Set("DatabaseAvailable", BuildTrueCondition("DatabaseAvailable"))
                             EXCEPT !["ObjectStoreAvailable"] = c]
       IN  \/ Failing("DatabaseAvailable")
           \/ FailingWith(Applied(BuildFalseCondition("FailingToDeploy")))
           \/ /\ Goto("health", Applied(BuildTrueCondition("ObjectStoreAvailable")))
              /\ UNCHANGED faults
    /\ Quiet

\* isDatabaseAccessible and isObjectStorageAccessible.
HealthCheck ==
    /\ pc = "health"
    /\ LET s == [t \in Types |->
                    IF t \notin PrereqTypes THEN status[t]
                    ELSE IF t \in world.up THEN BuildTrueCondition(t)
                    ELSE BuildFalseCondition("FailingToDeploy")]
       IN  IF world.up = PrereqTypes THEN Goto("common", s) ELSE Return(s, TRUE)
    /\ Quiet /\ UNCHANGED faults

\* A failure of ReconcileCommon is on no condition.
Common ==
    /\ pc = "common"
    /\ \/ Failing("none")
       \/ Goto("webhook", status) /\ UNCHANGED faults
    /\ Quiet

Webhook ==
    /\ pc = "webhook"
    /\ \/ world.webhook # "notApplicable" /\ Failing("WebhookReady")
       \/ /\ world.webhook = "notReady"
          /\ Return(Set("WebhookReady", BuildFalseCondition("MinimumReplicasAvailable")),
                    TRUE)
          /\ UNCHANGED faults
       \/ /\ world.webhook # "notReady"
          /\ Goto("managed",
                  Set("WebhookReady", IF world.webhook = "ready"
                                      THEN BuildTrueCondition("WebhookReady")
                                      ELSE BuildFalseCondition("NotApplicable")))
          /\ UNCHANGED faults
    /\ Quiet

\* preservePostValidationConditions: those the DSPA had when Reconcile read it.
PreservePostValidationConditions(s) ==
    [t \in Types |-> IF t \in ComponentTypes /\ mem[t].status # "absent"
                     THEN mem[t] ELSE s[t]]

\* Permanent failures block the rest, with no requeue; transient ones do not,
\* and ask for one.
ManagedPipelines ==
    /\ pc = "managed"
    /\ LET s == Set("ManagedPipelineValid",
                    CASE world.manifest = "valid" ->
                            BuildTrueCondition("ManagedPipelineValid")
                      [] world.manifest = "notApplicable" ->
                            BuildFalseCondition("NotApplicable")
                      [] world.manifest = "transient" ->
                            BuildFalseCondition("ManagedPipelinesFetchError")
                      [] world.manifest = "permanent" ->
                            BuildFalseCondition("ManagedPipelineInvalid"))
       IN  IF world.manifest = "permanent"
           THEN Return(PreservePostValidationConditions(s), FALSE)
           ELSE /\ pc' = Components[1] /\ status' = s
                /\ requeue' = (requeue \/ world.manifest = "transient")
                /\ UNCHANGED <<mem, began, override>>
    /\ Quiet /\ UNCHANGED faults

\* Component i is applied and then evaluated; a read that fails sets the empty
\* condition and is otherwise only logged.
Component(i) ==
    /\ pc = Components[i]
    /\ LET t == Components[i]
           c == IF t \in world.disabled THEN BuildFalseCondition("NotApplicable")
                                        ELSE EvaluateCondition(world.view[EvaluatedOn(t)])
       IN  \/ Failing(t)
           \/ Goto(IF i = Len(Components) THEN "publish" ELSE Components[i + 1],
                   Set(t, c))
              /\ UNCHANGED faults
    /\ Quiet

\* The deferred PublishMetrics.
PublishMetrics ==
    /\ pc = "publish"
    /\ gauge' = IF CrReady.status = "True" THEN "1" ELSE "0"
    /\ Goto("status", status)
    /\ UNCHANGED <<obj, cache, queued, world, clock, changes, faults>>

\* The API server's schema asks for a status and a reason.
Valid(conds) == \A t \in DOMAIN conds : conds[t] # EmptyCondition

\* updateStatus: read again, GetConditions, write; conflicts and invalid
\* conditions are logged and forgotten.  A stale read makes a conflict, so the
\* read and the write are one step; one that changes nothing stores nothing.
UpdateStatus ==
    /\ pc = "status"
    /\ obj' = IF cache = obj /\ Valid(GetConditions(cache)) THEN GetConditions(cache)
                                                            ELSE obj
    /\ queued' = (queued \/ requeue)
    /\ pc' = "idle" /\ requeue' = FALSE
    /\ UNCHANGED <<cache, world, clock, mem, began, status, override, gauge, changes,
                   faults>>

-----------------------------------------------------------------------------
(* The rest of the world. *)

\* The parts of a world that the DSPA's spec fixes.
SpecOf(w) == <<w.params = "unsupported", w.webhook = "notApplicable",
               w.manifest = "notApplicable", w.disabled>>

\* Of the rest, only the Deployments and pods are watched.
WorldChange ==
    /\ changes < MaxChanges /\ changes' = changes + 1
    /\ \E w \in Worlds \ {world} :
          /\ SpecOf(w) = SpecOf(world)
          /\ world' = w
          /\ queued' = (queued \/ w.view # world.view)
    /\ UNCHANGED <<obj, cache, clock, local, gauge, faults>>

\* The watch delivers the version the cache has not seen.
Deliver ==
    /\ cache # obj /\ cache' = obj
    /\ queued' = TRUE
    /\ UNCHANGED <<obj, world, clock, local, gauge, changes, faults>>

Resync ==
    /\ ~queued /\ queued' = TRUE
    /\ UNCHANGED <<obj, cache, world, clock, local, gauge, changes, faults>>

Tick ==
    /\ clock < MaxTime /\ clock' = clock + 1
    /\ UNCHANGED <<obj, cache, queued, world, local, gauge, changes, faults>>

Worker ==
    \/ Get \/ Params \/ Deploy \/ HealthCheck \/ Common \/ Webhook
    \/ ManagedPipelines \/ (\E i \in 1..Len(Components) : Component(i))
    \/ PublishMetrics \/ UpdateStatus

Next == Worker \/ WorldChange \/ Deliver \/ Resync \/ Tick

Spec == Init /\ [][Next]_vars

\* A worker that has work does it, the watch delivers, the resync comes round.
FairSpec == Spec /\ WF_vars(Worker) /\ WF_vars(Deliver) /\ WF_vars(Resync)

-----------------------------------------------------------------------------
Conditions == [Types \cup {"CrReady"} -> Condition]

\* The variables hold what the declarations say; what is stored fits the CRD's
\* schema.
TypeOK ==
    /\ obj \in Conditions /\ cache \in Conditions /\ mem \in Conditions
    /\ queued \in BOOLEAN /\ requeue \in BOOLEAN
    /\ world \in Worlds /\ clock \in Nat /\ began \in Nat
    /\ pc \in {"idle", "params", "deploy", "health", "common", "webhook", "managed",
               "publish", "status"} \cup ComponentTypes
    /\ status \in [Types -> Condition \cup {EmptyCondition}]
    /\ override \in {"nil", "UnsupportedVersion", "FailingToDeploy"}
    /\ gauge \in {"none", "0", "1"}
    /\ changes \in Nat /\ faults \in Nat

\* A DSPA that says CrReady=True has no condition beside it that is false,
\* unknown or missing, except for reasons that do not count: no early return, no
\* conditions carried over and no unreadable component can make it so
\* (GetConditions, updateStatus).
StoredReadyIsBacked ==
    obj["CrReady"].status = "True" =>
        \A t \in Types : \/ obj[t].status = "True"
                         \/ isNonBlockingReason(obj[t].reason)

\* The LastTransitionTime of a condition whose status stays the same stays the
\* same, whoever wrote it and whatever copy it was carried over from
\* (GetConditions).
StableSince ==
    [][\A t \in Types \cup {"CrReady"} :
          obj'[t].status = obj[t].status
              => obj'[t].since = obj[t].since]_vars

\* This reconcile is one that managed-pipeline validation has blocked.
Blocked == status["ManagedPipelineValid"].reason = "ManagedPipelineInvalid"

\* A condition whose status changes says it changed during the reconcile that
\* wrote it ("the last time the condition transitioned from one status to
\* another"), but for the conditions that a blocked reconcile carries over.
TransitionsAreNew ==
    [][\A t \in Types \cup {"CrReady"} :
          obj'[t].status # obj[t].status /\ ~(Blocked /\ t \in ComponentTypes)
              => obj'[t].since >= began]_vars

\* What component t's condition should say now.
Deserved(t) == EvaluateCondition(world.view[EvaluatedOn(t)])

\* A reconcile would meet nothing wrong before the components, and can read them.
Healthy == /\ world.params = "ok" /\ world.up = PrereqTypes /\ world.webhook # "notReady"
           /\ world.manifest # "permanent"
           /\ \A t \in ComponentTypes : Deserved(t) # EmptyCondition

\* When the surroundings come to rest, every component's stored condition comes to
\* be the one deserved by the Deployment that Reconcile names for it (for
\* MLMDProxyReady the scheduled workflow's, whatever becomes of MLMD's own), and
\* CrReady their conjunction, whatever failed and whatever stale copy was written
\* in between.
ConditionsConverge ==
    <>[](Healthy =>
            /\ \A t \in ComponentTypes \ world.disabled :
                  /\ obj[t].status = Deserved(t).status
                  /\ obj[t].reason = Deserved(t).reason
            /\ obj["CrReady"].status =
                  IF \A t \in ComponentTypes \ world.disabled :
                        Deserved(t).status = "True"
                  THEN "True" ELSE "False")

=============================================================================
