--------------------------- MODULE DSPAReconciler ---------------------------
(***************************************************************************)
(* One DataSciencePipelinesApplication (DSPA) name and everything that      *)
(* DSPAReconciler.Reconcile does to it.                                     *)
(*                                                                         *)
(* The API server keeps `obj`, the latest version of the DSPA; the          *)
(* operator's informer keeps `cache`, some earlier version, and `watch` is  *)
(* what the watch stream has not delivered yet.  Reconcile reads the cache, *)
(* works on its own copy `mem`, and writes back with optimistic concurrency *)
(* (the resourceVersion `rv`).  The workqueue never runs one name twice at  *)
(* once, so there is a single program counter; users, the garbage           *)
(* collector, the watch stream and operator crashes interleave with it at   *)
(* every step.                                                              *)
(*                                                                         *)
(* Two things the owner-reference garbage collector does not remove hang    *)
(* off the DSPA's finalizer: the cluster-scoped ClusterRoleBinding `crb`    *)
(* and the Prometheus series `metrics` of the operator process.             *)
(***************************************************************************)
EXTENDS Naturals

CONSTANTS
    FaultyCalls,    \* the API calls of Reconcile that may fail
    Problems,       \* the states of the surroundings that may occur (see env)
    Supported,      \* the values "is spec.dspVersion supported" may take
    MaxUserOps,     \* bound: creations, edits and deletions by users
    MaxFaults,      \* bound: failing API calls
    MaxCrashes,     \* bound: operator restarts
    MaxChanges      \* bound: changes of the surroundings

VARIABLES
    obj,        \* the DSPA as the API server has it
    cache,      \* the DSPA as the informer cache has it
    watch,      \* versions written after `cache`, not yet delivered
    queued,     \* the name is in the workqueue
    pc,         \* where the running Reconcile is, "idle" if none is running
    mem,        \* Reconcile's own copy of the DSPA
    ready,      \* the CrReady condition GetConditions would compute now
    requeue,    \* Reconcile will return an error or a RequeueAfter
    crb,        \* the DSPA's ClusterRoleBinding exists
    metrics,    \* this DSPA's CrReady gauge: no series, 0 or 1
    env,        \* what is presently wrong around the operator, if anything
    ops, faults, crashes, changes   \* budgets used

apiVars == <<obj, watch>>
localVars == <<pc, mem, ready, requeue>>
budgets == <<ops, faults, crashes, changes>>
vars == <<obj, cache, watch, queued, pc, mem, ready, requeue, crb, metrics,
          env, ops, faults, crashes, changes>>

Calls == {"get", "finalizer", "cleanup", "cleanupWebhook", "removeFinalizer",
          "database", "storage", "common", "webhook", "components", "status"}

\* What can be wrong: a parameter that cannot be resolved, a database or object
\* store that does not answer, a webhook that is not available yet, a managed
\* pipeline list that fails validation, a pipelines image that cannot be
\* fetched now, a component whose Deployment is not available.
AllProblems == {"none", "params", "prereqs", "webhook", "blocked", "fetch",
                "deploying"}

ASSUME ConstantsOK ==
    /\ FaultyCalls \subseteq Calls
    /\ Problems \subseteq AllProblems /\ "none" \in Problems
    /\ Supported \subseteq BOOLEAN
    /\ MaxUserOps \in Nat /\ MaxFaults \in Nat
    /\ MaxCrashes \in Nat /\ MaxChanges \in Nat

-----------------------------------------------------------------------------
(***************************************************************************)
(* The DSPA object.  `everFin` is history: this incarnation has carried the *)
(* operator's finalizer at some time.  `held` is a finalizer of somebody    *)
(* else (foreground deletion).  A removed object leaves a version with      *)
(* present = FALSE, the watch stream's DELETED event.                       *)
(***************************************************************************)
Version == [rv : Nat, present : BOOLEAN, uid : Nat, gen : Nat,
            deleting : BOOLEAN, fin : BOOLEAN, held : BOOLEAN,
            everFin : BOOLEAN, supported : BOOLEAN, db : BOOLEAN,
            cr : {"none", "True", "False"}, obsGen : Nat]

Nothing == [rv |-> 0, present |-> FALSE, uid |-> 0, gen |-> 0,
            deleting |-> FALSE, fin |-> FALSE, held |-> FALSE,
            everFin |-> FALSE, supported |-> TRUE, db |-> FALSE,
            cr |-> "none", obsGen |-> 0]

\* The version the API server stores when it accepts v.
Stored(v) == [v EXCEPT !.rv = obj.rv + 1]

Commit(v) ==
    /\ obj' = Stored(v)
    /\ watch' = watch \cup {Stored(v)}

\* An API call can be answered "ok", can fail before it took effect, or can
\* take effect and have its answer lost.  "rejected" is the answer to an Update
\* whose resourceVersion is not the stored one.
Outcomes(call) ==
    {"ok"} \cup (IF call \in FaultyCalls /\ faults < MaxFaults
                 THEN {"failed", "lost"} ELSE {})

UpdateOutcomes(call) ==
    IF mem.rv = obj.rv THEN Outcomes(call) ELSE {"rejected"}

CountFault(o) == faults' = IF o \in {"failed", "lost"} THEN faults + 1
                                                       ELSE faults

Goto(step) ==
    /\ pc' = step
    /\ UNCHANGED <<mem, ready, requeue>>

\* `return ctrl.Result{}, err` and `return ctrl.Result{RequeueAfter: ...}`:
\* the deferred functions run and the name goes back into the queue.
ReturnRequeue ==
    /\ pc' = "publish"
    /\ requeue' = TRUE
    /\ UNCHANGED <<mem, ready>>

\* `return ctrl.Result{}, nil`
Return ==
    /\ pc' = "publish"
    /\ UNCHANGED <<mem, ready, requeue>>

Init ==
    /\ obj = Nothing /\ cache = Nothing /\ watch = {}
    /\ queued = FALSE /\ pc = "idle" /\ mem = Nothing
    /\ ready = "False" /\ requeue = FALSE
    /\ crb = FALSE /\ metrics = "none" /\ env \in Problems
    /\ ops = 0 /\ faults = 0 /\ crashes = 0 /\ changes = 0

-----------------------------------------------------------------------------
(* Reconcile, in the order of its statements. *)

\* The workqueue hands the name to a worker; r.Get reads the cache.  NotFound
\* ends the call before any deferred function is installed, and so does another
\* error, which puts the name back.
GetDSPA ==
    /\ pc = "idle" /\ queued
    /\ \E o \in Outcomes("get") :
          /\ CountFault(o)
          /\ queued' = (o # "ok")
          /\ IF o = "ok" /\ cache.present
             THEN /\ pc' = "finalizer" /\ mem' = cache
                  /\ ready' = "False" /\ requeue' = FALSE
             ELSE UNCHANGED localVars
    /\ UNCHANGED <<obj, cache, watch, crb, metrics, env, ops, crashes, changes>>

\* Mutant: the check comes before the deferred functions are installed.
RejectUnsupportedSilently ==
    /\ pc = "finalizer" /\ ~mem.supported
    /\ pc' = "idle" /\ mem' = Nothing
    /\ UNCHANGED <<obj, cache, watch, queued, ready, requeue, crb, metrics, env,
                   budgets>>

\* An unsupported spec.dspVersion returns before the finalizer is looked at.
RejectUnsupported ==
    /\ pc = "finalizer" /\ ~mem.supported
    /\ Return
    /\ UNCHANGED <<obj, cache, watch, queued, crb, metrics, env, budgets>>

\* Mutant: an error of the Update is logged and forgotten.
EnsureFinalizerIgnoringErrors ==
    /\ pc = "finalizer" /\ mem.supported /\ ~mem.deleting
    /\ Goto("params")
    /\ IF ~mem.fin /\ mem.rv = obj.rv
       THEN Commit([mem EXCEPT !.fin = TRUE, !.everFin = TRUE])
       ELSE UNCHANGED apiVars
    /\ UNCHANGED <<cache, queued, crb, metrics, env, budgets>>

\* Not being deleted: make sure the finalizer is there before anything else.
EnsureFinalizer ==
    /\ pc = "finalizer" /\ mem.supported /\ ~mem.deleting
    /\ \/ /\ mem.fin
          /\ Goto("params")
          /\ UNCHANGED <<apiVars, faults>>
       \/ /\ ~mem.fin
          /\ \E o \in UpdateOutcomes("finalizer") :
                /\ CountFault(o)
                /\ LET v == [mem EXCEPT !.fin = TRUE, !.everFin = TRUE]
                   IN  /\ IF o \in {"ok", "lost"} THEN Commit(v)
                                                  ELSE UNCHANGED apiVars
                       /\ IF o = "ok"
                          THEN /\ pc' = "params" /\ mem' = Stored(v)
                               /\ UNCHANGED <<ready, requeue>>
                          ELSE ReturnRequeue
    /\ UNCHANGED <<cache, queued, crb, metrics, env, ops, crashes, changes>>

\* Being deleted and the finalizer already gone: nothing is left to do.
StopFinalized ==
    /\ pc = "finalizer" /\ mem.supported /\ mem.deleting /\ ~mem.fin
    /\ Return
    /\ UNCHANGED <<obj, cache, watch, queued, crb, metrics, env, budgets>>

\* Mutant: a failing clean-up does not keep the finalizer.
CleanUpResourcesOnce ==
    /\ pc = "finalizer" /\ mem.supported /\ mem.deleting /\ mem.fin
    /\ metrics' = "none"
    /\ Goto("cleanupWebhook")
    /\ \E o \in Outcomes("cleanup") :
          CountFault(o) /\ crb' = IF o = "failed" THEN crb ELSE FALSE
    /\ UNCHANGED <<obj, cache, watch, queued, env, ops, crashes, changes>>

\* Mutant: DeleteMetrics is not called.
CleanUpResourcesKeepingMetrics ==
    /\ pc = "finalizer" /\ mem.supported /\ mem.deleting /\ mem.fin
    /\ \E o \in Outcomes("cleanup") :
          /\ CountFault(o)
          /\ crb' = IF o = "failed" THEN crb ELSE FALSE
          /\ IF o = "ok" THEN Goto("cleanupWebhook") ELSE ReturnRequeue
    /\ UNCHANGED <<obj, cache, watch, queued, metrics, env, ops, crashes,
                   changes>>

\* DeleteMetrics, then the ClusterRoleBinding, which may fail.
CleanUpResources ==
    /\ pc = "finalizer" /\ mem.supported /\ mem.deleting /\ mem.fin
    /\ metrics' = "none"
    /\ \E o \in Outcomes("cleanup") :
          /\ CountFault(o)
          /\ crb' = IF o = "failed" THEN crb ELSE FALSE
          /\ IF o = "ok" THEN Goto("cleanupWebhook") ELSE ReturnRequeue
    /\ UNCHANGED <<obj, cache, watch, queued, env, ops, crashes, changes>>

\* Mutant: its failure returns no error, so nothing retries.
CleanUpWebhookOnce ==
    /\ pc = "cleanupWebhook"
    /\ \E o \in Outcomes("cleanupWebhook") :
          /\ CountFault(o)
          /\ IF o = "ok" THEN Goto("removeFinalizer") ELSE Return
    /\ UNCHANGED <<obj, cache, watch, queued, crb, metrics, env, ops, crashes,
                   changes>>

\* The shared webhook is module WebhookLifecycle's; here it succeeds or fails.
CleanUpWebhook ==
    /\ pc = "cleanupWebhook"
    /\ \E o \in Outcomes("cleanupWebhook") :
          /\ CountFault(o)
          /\ IF o = "ok" THEN Goto("removeFinalizer") ELSE ReturnRequeue
    /\ UNCHANGED <<obj, cache, watch, queued, crb, metrics, env, ops, crashes,
                   changes>>

\* The API server removes an object being deleted with its last finalizer.
WithoutFinalizer(v) == [v EXCEPT !.fin = FALSE, !.present = v.held]

RemoveFinalizer ==
    /\ pc = "removeFinalizer"
    /\ \E o \in UpdateOutcomes("removeFinalizer") :
          /\ CountFault(o)
          /\ IF o \in {"ok", "lost"} THEN Commit(WithoutFinalizer(mem))
                                     ELSE UNCHANGED apiVars
          /\ IF o = "ok" THEN Return ELSE ReturnRequeue
    /\ UNCHANGED <<cache, queued, crb, metrics, env, ops, crashes, changes>>

\* A parameter that cannot be resolved ends the reconcile with a requeue.
ExtractParams ==
    /\ pc = "params"
    /\ IF env = "params" THEN ReturnRequeue ELSE Goto("database")
    /\ UNCHANGED <<obj, cache, watch, queued, crb, metrics, env, budgets>>

\* Applies MariaDB; a spec that named no database gets the default written back
\* into the DSPA (an Update that raises the generation).
ReconcileDatabase ==
    /\ pc = "database"
    /\ \/ /\ mem.db
          /\ \E o \in Outcomes("database") :
                /\ CountFault(o)
                /\ IF o = "ok" THEN Goto("storage") ELSE ReturnRequeue
          /\ UNCHANGED apiVars
       \/ /\ ~mem.db
          /\ \E o \in UpdateOutcomes("database") :
                /\ CountFault(o)
                /\ LET v == [mem EXCEPT !.db = TRUE, !.gen = @ + 1]
                   IN  /\ IF o \in {"ok", "lost"} THEN Commit(v)
                                                  ELSE UNCHANGED apiVars
                       /\ IF o = "ok"
                          THEN /\ pc' = "storage" /\ mem' = Stored(v)
                               /\ UNCHANGED <<ready, requeue>>
                          ELSE ReturnRequeue
    /\ UNCHANGED <<cache, queued, crb, metrics, env, ops, crashes, changes>>

ReconcileStorage ==
    /\ pc = "storage"
    /\ \E o \in Outcomes("storage") :
          /\ CountFault(o)
          /\ IF o = "ok" THEN Goto("prereqs") ELSE ReturnRequeue
    /\ UNCHANGED <<obj, cache, watch, queued, crb, metrics, env, ops, crashes,
                   changes>>

\* Mutant: no RequeueAfter while the prerequisites are missing.
CheckPrereqsOnce ==
    /\ pc = "prereqs"
    /\ IF env = "prereqs" THEN Return ELSE Goto("common")
    /\ UNCHANGED <<obj, cache, watch, queued, crb, metrics, env, budgets>>

\* isDatabaseAccessible and isObjectStorageAccessible.
CheckPrereqs ==
    /\ pc = "prereqs"
    /\ IF env = "prereqs" THEN ReturnRequeue ELSE Goto("common")
    /\ UNCHANGED <<obj, cache, watch, queued, crb, metrics, env, budgets>>

\* Mutant: an error of ReconcileCommon does not end the reconcile.
ReconcileCommonIgnoringErrors ==
    /\ pc = "common"
    /\ Goto("webhook")
    /\ \E o \in Outcomes("common") :
          CountFault(o) /\ crb' = IF o = "failed" THEN crb ELSE TRUE
    /\ UNCHANGED <<obj, cache, watch, queued, metrics, env, ops, crashes,
                   changes>>

\* The ClusterRoleBinding is the last resource ReconcileCommon applies.
ReconcileCommon ==
    /\ pc = "common"
    /\ \E o \in Outcomes("common") :
          /\ CountFault(o)
          /\ crb' = IF o = "failed" THEN crb ELSE TRUE
          /\ IF o = "ok" THEN Goto("webhook") ELSE ReturnRequeue
    /\ UNCHANGED <<obj, cache, watch, queued, metrics, env, ops, crashes,
                   changes>>

\* Applied and checked for a kubernetes pipeline store, not applicable else.
ReconcileWebhook ==
    /\ pc = "webhook"
    /\ \E o \in Outcomes("webhook") :
          /\ CountFault(o)
          /\ IF o = "ok" /\ env # "webhook" THEN Goto("managed")
                                            ELSE ReturnRequeue
    /\ UNCHANGED <<obj, cache, watch, queued, crb, metrics, env, ops, crashes,
                   changes>>

\* A permanent failure ends the reconcile with no requeue, a transient one lets
\* it go on and asks for one.
ValidateManagedPipelines ==
    /\ pc = "managed"
    /\ IF env = "blocked"
       THEN Return
       ELSE /\ pc' = "components"
            /\ requeue' = (requeue \/ env = "fetch")
            /\ UNCHANGED <<mem, ready>>
    /\ UNCHANGED <<obj, cache, watch, queued, crb, metrics, env, budgets>>

\* API server, persistence agent, scheduled workflow, workflow controller and
\* MLMD, each applied and then evaluated; the first error returns.
ReconcileComponents ==
    /\ pc = "components"
    /\ \E o \in Outcomes("components") :
          /\ CountFault(o)
          /\ IF o = "ok"
             THEN /\ pc' = "publish"
                  /\ ready' = IF env = "deploying" THEN "False" ELSE "True"
                  /\ UNCHANGED <<mem, requeue>>
             ELSE ReturnRequeue
    /\ UNCHANGED <<obj, cache, watch, queued, crb, metrics, env, ops, crashes,
                   changes>>

\* Mutant: also for a DSPA that is being deleted.
PublishMetricsAlways ==
    /\ pc = "publish"
    /\ metrics' = IF ready = "True" THEN "1" ELSE "0"
    /\ Goto("status")
    /\ UNCHANGED <<obj, cache, watch, queued, crb, env, budgets>>

\* The first deferred function to run.
PublishMetrics ==
    /\ pc = "publish"
    /\ metrics' = IF mem.deleting THEN metrics
                  ELSE IF ready = "True" THEN "1" ELSE "0"
    /\ Goto("status")
    /\ UNCHANGED <<obj, cache, watch, queued, crb, env, budgets>>

\* Mutant: the conditions as NewDSPAStatus left them.
WithUnknownStatus(v) == [v EXCEPT !.cr = "Unknown", !.obsGen = v.gen]

\* The second one, updateStatus: the DSPA is read again from the cache over
\* Reconcile's copy, so ObservedGeneration is the generation of that second
\* read.  The write is accepted when the cache is up to date, and then the read
\* and the write can be taken as one step; a write that changes nothing leaves
\* the object as it is.  Its failure is logged and forgotten.
WithStatus(v) == [v EXCEPT !.cr = ready, !.obsGen = v.gen]

UpdateStatus ==
    /\ pc = "status"
    /\ pc' = "idle" /\ mem' = Nothing /\ ready' = "False" /\ requeue' = FALSE
    /\ queued' = (queued \/ requeue)
    /\ \E o \in Outcomes("status") :
          /\ CountFault(o)
          /\ IF /\ o \in {"ok", "lost"}
                /\ cache.present /\ ~cache.deleting /\ cache.rv = obj.rv
                /\ WithStatus(cache) # cache
             THEN Commit(WithStatus(cache))
             ELSE UNCHANGED apiVars
    /\ UNCHANGED <<cache, crb, metrics, env, ops, crashes, changes>>

-----------------------------------------------------------------------------
(* The rest of the world. *)

User ==
    /\ ops < MaxUserOps /\ ops' = ops + 1
    /\ UNCHANGED <<cache, queued, localVars, crb, metrics, env, faults,
                   crashes, changes>>

Create ==
    /\ ~obj.present
    /\ User
    /\ \E s \in Supported, d \in BOOLEAN :
          Commit([Nothing EXCEPT !.present = TRUE, !.uid = obj.uid + 1,
                                 !.gen = 1, !.supported = s, !.db = d])

Edit ==
    /\ obj.present
    /\ User
    /\ \E s \in Supported, d \in BOOLEAN :
          Commit([obj EXCEPT !.gen = @ + 1, !.supported = s, !.db = d])

\* `hold`: the deletion is a foreground one, which adds a finalizer of its own.
Delete ==
    /\ obj.present /\ ~obj.deleting
    /\ User
    /\ \E hold \in BOOLEAN :
          Commit([obj EXCEPT !.deleting = TRUE, !.held = hold, !.gen = @ + 1,
                             !.present = (obj.fin \/ hold)])

\* The garbage collector drops the foreground finalizer.
Release ==
    /\ obj.present /\ obj.deleting /\ obj.held
    /\ Commit([obj EXCEPT !.held = FALSE, !.present = obj.fin])
    /\ UNCHANGED <<cache, queued, localVars, crb, metrics, env, budgets>>

\* The watch delivers a later version, in order; a relist may skip some.
Deliver ==
    /\ \E v \in watch :
          /\ cache' = v
          /\ watch' = {w \in watch : w.rv > v.rv}
    /\ queued' = TRUE
    /\ UNCHANGED <<obj, localVars, crb, metrics, env, budgets>>

\* The informer's periodic resync re-announces what the cache has.
Resync ==
    /\ cache.present /\ ~queued
    /\ queued' = TRUE
    /\ UNCHANGED <<obj, cache, watch, localVars, crb, metrics, env, budgets>>

\* Only the Deployments and pods of components are watched.
EnvChange ==
    /\ changes < MaxChanges /\ changes' = changes + 1
    /\ \E p \in Problems \ {env} :
          /\ env' = p
          /\ queued' = (queued \/ (cache.present /\ "deploying" \in {env, p}))
    /\ UNCHANGED <<obj, cache, watch, localVars, crb, metrics, ops, faults,
                   crashes>>

\* The operator process dies and is started again: its memory is gone and the
\* informer lists the DSPAs afresh.
Crash ==
    /\ crashes < MaxCrashes /\ crashes' = crashes + 1
    /\ pc' = "idle" /\ mem' = Nothing /\ ready' = "False" /\ requeue' = FALSE
    /\ cache' = obj /\ watch' = {} /\ queued' = obj.present
    /\ metrics' = "none"
    /\ UNCHANGED <<obj, crb, env, ops, faults, changes>>

Worker ==
    \/ GetDSPA \/ RejectUnsupported \/ EnsureFinalizer \/ StopFinalized
    \/ CleanUpResources \/ CleanUpWebhook \/ RemoveFinalizer
    \/ ExtractParams \/ ReconcileDatabase \/ ReconcileStorage \/ CheckPrereqs
    \/ ReconcileCommon \/ ReconcileWebhook \/ ValidateManagedPipelines
    \/ ReconcileComponents \/ PublishMetrics \/ UpdateStatus

World ==
    \/ Create \/ Edit \/ Delete \/ Release
    \/ Deliver \/ Resync \/ EnvChange \/ Crash

Next == Worker \/ World

Spec == Init /\ [][Next]_vars

\* A worker that has work does it, the watch delivers, foreground deletion ends.
FairSpec == Spec /\ WF_vars(Worker) /\ WF_vars(Deliver) /\ WF_vars(Release)

\* ... and the periodic resync comes round.
ResyncSpec == FairSpec /\ WF_vars(Resync)

-----------------------------------------------------------------------------
Steps == {"idle", "finalizer", "cleanupWebhook", "removeFinalizer", "params",
          "database", "storage", "prereqs", "common", "webhook", "managed",
          "components", "publish", "status"}

\* The variables hold what the declarations say.
TypeOK ==
    /\ obj \in Version /\ cache \in Version /\ mem \in Version
    /\ watch \subseteq Version
    /\ queued \in BOOLEAN /\ requeue \in BOOLEAN /\ crb \in BOOLEAN
    /\ pc \in Steps
    /\ ready \in {"True", "False"}
    /\ metrics \in {"none", "0", "1"}
    /\ env \in AllProblems
    /\ ops \in Nat /\ faults \in Nat /\ crashes \in Nat /\ changes \in Nat

\* A ClusterRoleBinding never outlives the finalizer that guards it: whatever
\* users, crashes, stale reads and lost answers do, as long as it exists the
\* DSPA exists and still carries the finalizer, so a later reconcile will
\* remove it (ReconcileCommon, CleanUpCommon, the finalizer block).
NoOrphanedClusterRoleBinding == crb => obj.present /\ obj.fin

\* The gauge data_science_pipelines_application_ready is never 1 for a DSPA that
\* is gone or whose clean-up is over (PublishMetrics, DeleteMetrics).
ReadyMetricIsLive == metrics = "1" => obj.present /\ obj.fin

\* Once the finalizer of a DSPA that had one is gone, no series of it is left:
\* none was published after DeleteMetrics ran.
FinalizationClearsMetrics ==
    obj.everFin /\ ~(obj.present /\ obj.fin) => metrics = "none"

\* A DSPA that says CrReady=True and is not being deleted has its finalizer and
\* its ClusterRoleBinding; in particular a verdict reached about an earlier
\* DSPA of the same name is never written to its successor (updateStatus).
ReadyIsBackedByResources ==
    obj.present /\ ~obj.deleting /\ obj.cr = "True" => obj.fin /\ crb

\* What updateStatus writes as True was computed from this very DSPA, not from
\* a predecessor of the same name.
ReadyVerdictIsForThisDSPA ==
    [][obj'.cr = "True" /\ obj.cr # "True" => mem.uid = obj'.uid]_vars

Phase ==
    IF ~obj.present THEN "absent"
    ELSE IF obj.fin THEN (IF obj.deleting THEN "deleting" ELSE "guarded")
    ELSE IF obj.deleting THEN "released" ELSE "bare"

Lifecycle == INSTANCE DSPALifecycle
    WITH phase <- Phase, uid <- obj.uid, bound <- crb,
         announced <- (obj.present /\ obj.cr = "True")

\* Seen from outside, all that Reconcile, stale caches, retries, lost answers and
\* restarts do to a DSPA is a run of the simple life cycle of DSPALifecycle: one
\* finalizer, a binding only under it, readiness announced only of what is bound.
ImplementsLifecycle == Lifecycle!Spec

\* A deleted DSPA goes away in the end: every failure on the way is retried.
DeletionCompletes ==
    (obj.present /\ obj.deleting) ~> ~(obj.present /\ obj.deleting)

\* What the conditions should say in the end, given what is wrong.
Verdict == IF obj.supported /\ env \in {"none", "fetch"} THEN "True" ELSE "False"

\* Every failure that is over is got over without waiting for a resync: when
\* users leave a supported DSPA alone and nothing is wrong any more, it comes to
\* report CrReady=True for its current generation.
StatusRecovers ==
    <>[](obj.present /\ ~obj.deleting /\ obj.supported /\ env = "none"
            => obj.cr = "True" /\ obj.obsGen = obj.gen)

\* When users and surroundings leave it alone, a DSPA's status comes to tell
\* the truth about its current generation, good or bad, whatever failed before.
StatusConverges ==
    <>[](obj.present /\ ~obj.deleting
            => obj.cr = Verdict /\ obj.obsGen = obj.gen)

=============================================================================
