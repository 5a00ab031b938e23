# Verification of the Data Science Pipelines Operator

The Data Science Pipelines Operator (DSPO) is a Kubernetes operator. It
reconciles `DataSciencePipelinesApplication` objects (DSPAs): for each one it
deploys a database, a Kubeflow Pipelines API server and its companions, and it
keeps conditions in the DSPA's status that say how far it got. This directory
holds TLA+ models of its own logic, the TLC runs that check them and TLAPS
proofs of their safety properties. Paths below are relative to the repository.

## Inventory

| Component | State | Operations | Hard parts |
|---|---|---|---|
| DSPA reconciler, `controllers/dspipeline_controller.go` | the DSPA (finalizer, spec default, status), the cluster-scoped ClusterRoleBinding, the workqueue | `Reconcile`: add the finalizer, or clean up and remove it; extract parameters, apply, health checks, apply the rest, publish metrics, write the status | stale cache, conflicting writes, lost answers, deletion and recreation under one name, crashes, early returns that must be retried |
| Status conditions, `controllers/dspastatus/dspa_status.go` and the controller | nine conditions, CrReady, the CrReady gauge | `NewDSPAStatus`, setters, `evaluateCondition`, `preservePostValidationConditions`, `GetConditions`, `updateStatus` | verdicts about a moment that is over, conditions carried over from an old copy, unreadable components |
| Shared admission webhook, `controllers/webhook.go` | seven resources in the operator's namespace, used by all DSPAs with kubernetes pipeline storage | `ReconcileWebhook`, `checkWebhookStatus`, `CleanUpWebhookIfUnused`, `cleanupWebhookResources` | several DSPAs, several workers, resources changed one by one |
| MLflow endpoint cache, `retrieveMLflowEndpointCached` | a map from namespace to endpoint and expiry, under a read-write lock | look up, evict, query the cluster, store | the lock is released between the steps |
| Database health check, `controllers/database.go` | the MySQL driver's process-wide TLS registry | `isDatabaseAccessible`, `ConnectAndQueryDatabase` | concurrent checks share the name `custom` |
| Database and object store deployment, `database.go`, `storage.go` | Secret, Deployment, volume and services of a store, the pod running on them | `RetrieveOrCreateSecret`, `ReconcileDatabase`, `ReconcileStorage`, the health check | a generated password that lives only in a Secret, a successor of the same name, the garbage collector behind it |
| Manifest fetcher, `managed_pipelines_fetcher.go`, `managed_pipelines_validation.go` | names of managed pipelines per image digest, ten minutes, shared by all reconciles | `FetchPipelineNames`, `validateManagedPipelines` | lock released between steps, tags that move, whiteouts between layers, passing and permanent errors |
| Parameter extraction, `dspipeline_params.go`, `config/` | `dsp-trusted-ca`; otherwise none of its own | `ExtractParams` | reads Secrets, ConfigMaps, routes, services, the API server's availability and the MLflow cache |
| Component deployments, `apiserver.go`, `persistence_agent.go`, `scheduled_workflow.go`, `workflow_controller.go`, `mlmd.go` | applied resources, the API server's pods | one `Reconcile...` each | the order of what is applied, a feedback loop from availability over the configuration to a rollout, a certificate that may not come |
| Metrics, `metrics.go` | Prometheus series per DSPA | publish, delete | publication after deletion |
| Start-up and TLS profile, `main.go`, `tls_profile.go` | none | wiring | none |
| API types, templating, generated code | none | none | none |

Components interact through the API server (all writes), the informer cache
(typed reads; Secrets and ConfigMaps bypass it, `main.go:305`), the workqueue
(one worker per name; up to `MaxConcurrentReconciles` names at once, ten by
default, `controllers/config/defaults.go:177`) and four pieces of process
memory: the metrics, the MLflow cache, the manifest cache and the driver's TLS
registry.

What makes it correct:

- nothing the garbage collector does not own (ClusterRoleBinding, metrics)
  outlives the finalizer, and a deleted DSPA goes away;
- a status that says ready is about this DSPA and is backed by what it reports,
  and every wrong status is eventually corrected;
- a DSPA that needs the shared webhook has it, whatever happens to other DSPAs;
- caches and registries shared between reconciles do not mix up their users;
- the operator never changes the credentials under a running store, and a DSPA
  that is left alone gets a healthy one;
- a verdict on managed pipelines is about the image it was asked of, and is not
  final while it is due to a passing failure;
- configuration reaches the pods it is meant for, and rollouts come to an end.

PROJECT.json lists, under `hazards`, the lines where each of these can go wrong.

## Modules

**`DSPAReconciler`** - one DSPA name. `obj` is the stored version, `cache` an
earlier one, `watch` the versions in between; `mem` is Reconcile's copy; `crb`
and `metrics` are what hangs off the finalizer; `env` is what is presently wrong
around the operator. One action per call that changes state, in the order of
`Reconcile`, with `pc` between them. Every API call can succeed, fail before it
took effect, or take effect and lose its answer; an Update is rejected when its
resourceVersion is old. Users create, edit and delete; a foreign finalizer may
hold a deletion; the operator crashes at any step and starts with a fresh list.
`uid` tells incarnations of one name apart, `everFin` is history.

**`DSPALifecycle`** - what all this promises, without cache, queue, retries or
program counter: a DSPA is absent, bare, guarded by the finalizer, deleting or
released; it is bound (ClusterRoleBinding) only while guarded or deleting, and
announced ready only while guarded and bound. `DSPAReconciler` implements it
under the mapping `phase <- Phase, uid <- obj.uid, bound <- crb, announced <-`
the stored CrReady (`ImplementsLifecycle`).

**`DSPAConditions`** - the conditions of one DSPA and nothing else of it. `world`
is what the steps will meet (parameters, prerequisites, webhook, manifest, and
for each component what `evaluateCondition` can tell apart about its Deployment
and pods); `status` is the `dspaStatus` being filled in; conditions carry the
time of their transition. `EvaluatedOn` is the Deployment that Reconcile names for a
condition: for `MLMDProxyReady` it is the scheduled workflow's, so `world` has a view
of MLMD's own Deployment that nothing reads. The spec does not change here, and there
is no crash: both are `DSPAReconciler`'s. A status write from an old cache is a
conflict, so the cache is at most one version behind and needs no resourceVersion.

**`WebhookLifecycle`** - several DSPAs, a number of workers, the webhook's
resources `res` and the operator's cached view `seen` of them. `ApplyOrder` and
`CleanupOrder` are the orders of the templates and of `cleanupWebhookResources`;
the ClusterRole, its binding, the ServiceAccount and the Service are contiguous
in both and are one kind, `support`. `late` is history: the kubernetes DSPAs that
reached the cache in the middle of another one's clean-up and have not been
reconciled since it ended. All DSPAs have supported versions.

**`MLflowEndpointCache`** - threads inside `retrieveMLflowEndpointCached`, one
action per lock section, a clock, and advertisements that change behind it.

**`DatabaseHealthCheck`** - concurrent health checks and the registry entry
`custom`. TLS settings are reduced to the mode, whether the certificates parse
and the authority trusted; `SSL_CERT_FILE` is left out and `skip-verify` stands
for `preferred` as well.

**`ManifestFetcher`** - the reconciles of several DSPAs inside
`validateManagedPipelines`, one action per call of the registry and per lock
section of the cache. An image is a sequence of layers, oldest first, of those tar
entries that matter: a manifest, one that does not parse, a whiteout, one that
cannot be read. A digest is a hash of its content, so the image is its own digest.
Tags are pushed to without notice, the registry fails, entries expire. `default` is
the operator's `Images.PipelinesComponents`, which may be missing.
`extractManifestFromImage` is compared with `Visible`, the layers laid over each
other as a container runtime does.

**`ManagedCredentials`** - the store of one DSPA name, MariaDB (`NKeys` 1) or MinIO
(2). `secrets` are the generated Secret and one of the user's, `deployment` refers
to one of them, `pod` is what the running store was started with; everything the
operator applies carries the uid of its owner. Retrieval reads key by key, each
Apply can fail or lose its answer; users delete objects, create the DSPA again
and replace their Secret; the garbage collector and the kubelet follow at their
own pace. `cut` remembers that somebody other than the operator took the Secret
away from the running pod. All DSPAs have supported versions: for others Reconcile
returns before any of this, with no requeue, also when the DSPA is being deleted
(`dspipeline_controller.go:357`); that is `DSPAReconciler`'s and the run
`deletion_unsupported`'s.

**`APIServerRollout`** - from the spec to running pods. `op` holds what
`ExtractParams` has gathered; `Order` is the order of the calls of a Reconcile, and
there is one action per call. Before the API server come an unsupported version
(which ends the Reconcile for good), the trusted CA bundle, `Prerequisites` (database,
storage, health checks, common manifests, webhook: any of them may end the Reconcile,
with a requeue) and `ValidateManagedPipelines`, which ends it without a requeue when
the pipelines are invalid; `invalid` remembers that. The spec is its version, whether
there is a route, whether pods use TLS and whether the version is supported. MLMD waits
for a certificate only with TLS. `obj` is what has been applied, `pods` the API
server's pods with the template they belong to and the server configuration they
read when they started. `ahead` says that server-config was changed since the
Deployment was last applied; it makes a pod `behind` only if it reads an older
file than its hash promises. The settings of the spec that reach the pods are one
`version`. The cluster surges by one pod and replaces the old one once the new one
is ready.

The three are separate from `DSPAReconciler`, which has their steps as single
actions that succeed or fail: each relies on it for the queue (one reconcile of a
name at a time, another after every error) and the finalizer, and adds the state
behind a step.

`MC*` modules hold the sets that the configurations choose from, `*Proofs`
modules the theorems. In every model module, a definition named after another one
and commented "Mutant" is a wrong variant of it, used to see that a property
notices.

### Abstractions that matter

- An API call is atomic with respect to a crash (before, after, or after with the
  answer lost).
- `refreshDspa` and the status write of `updateStatus` are one step: a version
  that is stored between the two makes the write a conflict, which is logged and
  forgotten like any other failure.
- The CRD requires `objectStorage` and defaults `database`, so the paths of
  `ReconcileStorage` and `ReconcileDatabase` for their absence are only reached
  where the CRD allows it.
- Manifestival's reads are live, typed reads are cached.

## Runs

| Run | Result | Shows |
|---|---|---|
| `safety` | pass | finalizer, ClusterRoleBinding, metrics and CrReady=True stay consistent through three user operations, a failing call and a crash; the whole implements `DSPALifecycle` |
| `recovery` | pass | without help from a resync, a deleted DSPA goes away and a DSPA that nothing is wrong with becomes ready, after a failing call, a crash and a change of the surroundings |
| `resync` | pass | with the resync, a forgotten status write and an unwatched cause heal too |
| `deletion_unsupported` | violation | a DSPA edited to an unsupported version can never be deleted |
| `conditions` | pass | CrReady=True is backed by the conditions beside it, transition times are right, conditions converge to those of the Deployments they are evaluated on |
| `webhook` | pass | with two workers, a DSPA loses the webhook only if the cache learnt of it in the middle of another one's clean-up; the resync brings it back for good |
| `webhook_race` | violation | with two workers, a clean-up takes the webhook away from a DSPA that appeared after its list |
| `mlflow_cache` | pass | no answer is older than its lifetime, no valid entry is dropped |
| `db_race` | violation | of two concurrent health checks, one passes under the TLS settings of the other |
| `manifest_fetcher` | pass | verdicts are about the image that was resolved, the scan of the layers finds what a container sees, passing failures heal, verdicts catch up with pushed tags |
| `credentials` | pass | credentials do not change under a running store, what a settled DSPA runs on is its own, none of a supported version is forgotten, a DSPA that is left alone gets healthy, a deleted one leaves nothing |
| `apiserver_rollout` | pass | no pod is behind its hash, a quiet operator has applied all of a supported spec whose managed pipelines it did not find invalid, the loop over the MLflow plugin comes to rest, a missing certificate holds up MLMD alone |

The three violations are disagreements between the code and its own message, test
and comment, which PROJECT.json quotes:

- `deletion_unsupported`: the unsupported version is looked at before the finalizer
  (`dspipeline_controller.go:357`).
- `webhook_race`, with two workers of the ten the operator has by default: a clean-up
  lists the DSPAs once (`dspipeline_controller.go:670`), another worker applies the
  webhook for a DSPA that appeared since, and the clean-up goes on to delete it.
  `webhook` shows that this is the only way to lose the webhook, and that a resync
  repairs it.
- `db_race`, with two workers: both checks register their TLS settings under the name
  `custom` (`database.go:152`), and one passes under the settings of the other. What
  is left is proved: a check never goes in the clear whose settings ask for TLS, and
  all is well where all DSPAs have the same certificates.

Other departures that modelling showed, and that no run is spent on:

*Status*:

- `MLMDProxyReady` says how the scheduled workflow's Deployment is, not MLMD's: the
  prefix of the resource name it is evaluated on is `ds-pipeline-scheduledworkflow-`
  (`mlmd.go:27`, `dspipeline_params.go:747`, `dspipeline_controller.go:532`), where the
  sample status says "Component [ds-pipeline-metadata-envoy] is minimally available."
  (`config/samples/dspa-all-fields/dspa_all_fields.yaml:221`). So CrReady becomes True
  with MLMD down. `EvaluatedOn` models it; the worlds of `conditions` have an MLMD
  Deployment that is missing while everything looked at is fine.
- `updateStatus` sets ObservedGeneration from the refreshed DSPA, so an edit
  during a reconcile is reported as observed before it is
  (`dspa_status.go:268`; the CRD says "represents the .metadata.generation that
  the condition was set based upon").
- A reconcile blocked by its managed pipelines carries conditions over from its
  own copy of the DSPA, which may be older than those it overwrites
  (`dspipeline_controller.go:569`). They converge later.
- When a Deployment or its pods cannot be read, `evaluateCondition` returns an
  empty condition, which is neither False nor Unknown: the CrReady gauge goes to
  1, and the status write is refused by the CRD's schema
  (`dspipeline_controller.go:708`, `dspa_status.go:219`). `StoredReadyIsBacked`
  holds because of that refusal.

*Returns that ask for no requeue*:

- An unsupported version (`dspipeline_controller.go:357`) and managed pipelines found
  invalid (`dspipeline_controller.go:481`) end a Reconcile quietly with edits
  unapplied, the former before anything, the latter after database, storage, common
  manifests and webhook. An event or the resync brings such a DSPA back.
  `QuietIsApplied` is about the other cases.

*Things left behind or removed*:

- The webhook's templates are applied in the order of their file names, so the
  MutatingWebhookConfiguration, whose failurePolicy is Fail, exists before the
  ServiceAccount and the Service of its server; a crash in between leaves it so until
  a later reconcile has applied the rest (`webhook.go:47`). Only `WebhookConverges`
  says anything about it.
- `dsp-trusted-ca` stays as it is when no CA is left to put into it
  (`dspipeline_params.go:1002`).
- A DSPA that is gone before it got the finalizer leaves its metric series behind
  (`dspipeline_controller.go:343`).
- Two kubernetes DSPAs deleted together count each other as users, and the
  webhook stays (`dspipeline_controller.go:670`).
- Two DSPAs whose namespace and name join to the same ClusterRoleBinding name
  share it, and the deletion of one takes it from the other (`common.go:34`).
- The two keys of the MinIO Secret are read by separate Gets
  (`dspipeline_params.go:303`). If the Secret is removed in between, an old and a
  new half are written together while the pod keeps the old pair; like a store
  whose Secret somebody deletes, it is unreachable until its pod restarts. This
  is the excuse `cut` of `StoreBecomesHealthy`.

*Configuration*:

- `managedPipelines.image` may be left out: "when omitted, empty (\"\"), or
  whitespace-only, DSPO uses operator config Images.PipelinesComponents"
  (`api/v1/dspipeline_types.go:94`). `ExtractParams` does so in its own copy, but
  `validateManagedPipelines` fetches the image of the DSPA itself
  (`dspipeline_controller.go:598`), and an empty reference is a permanent error:
  as soon as pipelines are listed, the API server is not deployed. The model keeps
  the two apart as `InitImage` and `Reference`, and the run has DSPAs that list
  pipelines without an image, with and without a default.
- sample-config is applied after the Deployment whose hash covers it
  (`apiserver.go:210`), so a pod started in between reads the old one.
- The database's extra parameters are part of server-config and not of the hash
  (`apiserver.go:173`), so a change of them alone rolls nothing out.
- A setting changed and changed back between the writes of server-config and of
  the Deployment leaves the Deployment as it was; a pod that was started meanwhile
  keeps the configuration nobody asked for. It is not `behind` but ahead.
- A whiteout of the directory, `.wh.app`, is not recognised by `isWhiteoutFor`
  (`managed_pipelines_fetcher.go:242`); the model's whiteouts are those it knows.

### Bounds

`MaxUserOps` 3 lets a DSPA be created, deleted and recreated, or created, edited
and deleted, while a reconcile of the first incarnation is still running; the
liveness runs use 2. One failing call at any of the ten places, with a lost
answer as one of its forms, meets every retry. One crash happens at any step.
`MaxChanges` 1 is a change of the surroundings at any moment, including the
middle of a reconcile. In `recovery` the problems are those that end a reconcile
in different ways (a requeue by the health check, one by the webhook, a watched
Deployment); `resync` has them all. `conditions` has three components, one
that is evaluated on its own Deployment, one that can be disabled, and MLMD, which is
evaluated on another's, and one tick
of the clock, enough to tell an old time from a new one. Two DSPAs are enough for
every race over the webhook that a list of "other DSPAs" can lose; `webhook` has
two workers, three user operations, a failing call, a crash and a lagging cache of the
Deployment. The safety part was also run with four operations and two lagging kinds
(5.0 million states), and is proved for all.

`manifest_fetcher` has two DSPAs, an allowed and a denied tag, a lifetime and a
clock of one tick, and two events: a push and an edit, or a failing call, between
any two steps of both reconciles. The images of the state machine are the four
that lead to different verdicts; the scan is compared on every image of at most
three layers of at most two entries. `credentials` uses MinIO's two keys, of which
MariaDB's one is a special case, two DSPAs of one name in succession, and three
events; deletion and the garbage collector are not counted among them.
`apiserver_rollout` starts from the defaults (route and TLS on) and has two events of
any kind: an edit while a call fails, a crash in the middle of a rollout, an MLflow
instance that comes and goes, a manifest that makes the managed pipelines invalid.

Where a property is proved as well, the bounds hide nothing.

Deadlock checking is off where the system may rest, i.e. where every DSPA is gone
and the budgets are used up.

### Fairness

`WF(Worker)`: a reconcile that has started goes on and a queued name is taken
(controller-runtime's workers; calls have timeouts). `WF(Deliver)`: the watch
delivers. `WF(Release)`: foreground deletion ends. `WF(Resync)`, only where
stated: the informer's resync, ten hours by default. With several names
`SF(Get(d))`: the workqueue is first come, first served. `WF(CollectGarbage)`,
`WF(StartPod)`, `WF(CreatePod)`, `WF(PodGetsReady)`, `WF(ObserveAvailable)`: the
cluster does its part. In `manifest_fetcher` the specification assumes the workers
only; `VerdictCatchesUp` has the resync as its premise, because no event tells of a
push. In `apiserver_rollout` the resync is assumed, because nothing tells of an
MLflow instance or a ConfigMap that the spec names; certificates may never be
issued. Users, faults, crashes and changes have no fairness.

## Proofs

The theorems hold for all values of the constants: any number of user operations,
faults, crashes, changes, DSPAs, threads, namespaces, components and worlds.

- `DSPAReconcilerProofs`: `TypeCorrect`, `ClusterRoleBindingGuarded`,
  `ReadyMetricSound`, `MetricsFinalized`, `ReadyBacked`, `ReadyVerdictIdentity`.
  None of the properties is inductive. The strengthening says how old a version
  may be that Reconcile reads, or may still read (`VersionsOrdered`,
  `ReadableHarmless`, `ReadableOlder`), and what its copy implies about the stored
  object at each step. The argument: the finalizer is removed only by a reconcile
  whose copy is the stored version; that copy came from the cache, so the cache is
  up to date at that moment and no older version, in which the DSPA was not being
  deleted, can be read again to recreate the ClusterRoleBinding.
- The same module: `Refinement`, `Spec => ImplementsLifecycle`, step by step from
  the same inductive invariant: each action that touches the finalizer, the
  binding or the status maps to one action of `DSPALifecycle`, all others leave the
  mapped variables alone. The invariant is needed where a decision was taken on a
  copy: Bind while the stored DSPA may be deleting, Finalize only with the
  binding gone, Announce only of the version whose binding was applied.
- `DSPAConditionsProofs`: `ConditionsTypeCorrect`, `StoredReadyBacked`,
  `TransitionTimesStable`, `TransitionTimesNew`. `StoredReadyIsBacked` needs `FoundOut`: what Reconcile
  holds is never an absent condition, because
  `preservePostValidationConditions` skips the types its copy does not have, and
  the schema keeps the empty condition out of what is stored. `TransitionsAreNew`
  needs `Recently`: the clock never runs behind the start of the running reconcile,
  and what that reconcile stamps is no older than its start.
- `WebhookLifecycleProofs`: `WebhookTypeCorrect` for any number of workers; it
  needs `LeftOK`, that what a reconcile has left is the end of one of the two
  orders. `WebhookServedUnlessLate`, also for any number of workers: while one
  reconcile cleans up, every other DSPA the cache has as a live user is late
  (`CleanupOK`), since the list came from that cache; one that is neither late nor
  queued finds in place what its reconcile has applied (`ServedOK`).
- `MLflowEndpointCacheProofs`: `CacheTypeCorrect`, `AnswersFresh`,
  `DropsOnlyExpired`.
- `DatabaseHealthCheckProofs`: `ChecksTypeCorrect`; `ChecksKeepTLS`, for any number of
  concurrent checks: what is registered, held or resolved was made from the settings of
  some DSPA that uses TLS. `UniformChecksSound`: where these settings make one
  configuration (`Uniform`), `PassedUnderOwnConfig` follows. `Uniform` is an assumption
  of that theorem, and without it `db_race` is the counterexample.
- `ManagedCredentialsProofs`: `CredentialsTypeCorrect`; `StoreKeepsItsSecret` from
  `ReadIsCurrent`: the keys a reconcile has read so far are those of the generated
  Secret if there is one, since only a reconcile writes it, so writing it again
  changes nothing. `ReadyStoreIsOwned` from `OwnerInv`: a reconcile that no event
  has overtaken is about the DSPA as it is (`OpIsCurrent`), and what it has applied
  up to its step is there and its own (`AppliedIsOwned`), because whoever takes
  something away puts the name back into the queue. From the same invariant
  `NothingForgotten`, and `LeftoversCollected`: when a DSPA is gone no reconcile
  runs for it and every object it left has a dead owner. `HealthCheckGetsIn` from
  both and `AppliedIsRead`: what was read, applied and given to the pod are the
  same credentials, so the operator does not lock itself out of its store.
- `APIServerRolloutProofs`: `RolloutTypeCorrect`; `PodsNeverBehind`, since files and
  template agree unless the files are newer (`FilesAreNotBehind`) and the
  Deployment is applied with the parameters of the server config that has just been
  written (`AppliedInOrder`). `QuietOperatorIsDone` from `Done`, which says what
  each step of `Order` that is over has left, as long as no event is waiting; it holds
  with every return of Reconcile in the model, the two that ask for no requeue included,
  and the exceptions that these make are in the statement.
- `ManifestFetcherProofs`: `FetcherTypeCorrect`; `VerdictsAreDeserved` from
  `CacheIsRight` and `JobsAreRight`: names in the cache, or about to be put there,
  are those the scan of that very image finds. `EditsAreJudged`: a DSPA whose name
  is not queued is being judged, or has been, by its spec as it is. `ScanIsRight`: for
  every image the scan agrees with what a container sees. It is an induction over
  the layers, done without an induction rule: the scan of the oldest n layers, as a
  function of n, satisfies the recursive definition in `Visible`
  (`ScanIsLayered`), and a function that does so and is another would differ at a
  least n (`LayeredIsScan`); the least of a set of numbers comes from the
  well-foundedness of `<` (`Least`), the newest layer with something to say
  from `Greatest`.

`LeftoversCollected`, `NothingForgotten`, `QuietOperatorIsDone` and
`EditsAreJudged` are what the liveness properties rest on besides fairness: where
the operator rests, there is nothing left for it to do.

What the proofs assume of the constants is in the named assumptions of the
modules, which TLC evaluates: bounds are natural numbers, `None` and `Missing` are
not among the values they stand apart from, the registry's images are images.

Only model-checked: all liveness properties (`DeletionCompletes`,
`StatusRecovers`, `StatusConverges`, `ConditionsConverge`, `WebhookConverges`,
`FetchErrorsHeal`, `VerdictCatchesUp`, `StoreBecomesHealthy`,
`NothingIsLeftBehind`, `RolloutSettles`, `ComponentsSettle`), since TLAPS does not
prove liveness under fairness here. Every invariant and every action property of
the passing runs is proved.

## Not modelled

- `main.go` and `tls_profile.go`: flags, wiring, and a process that ends when the
  cluster's TLS profile changes; a restart is a crash of the models.
- API types, deep copies, the text of templates, messages and logs, image and
  resource defaults, ports, the compiled pipeline spec patch: data without control.
- The S3 client, SQL and TLS handshakes: their answers are inputs.
- Components with `deploy: false`: the code skips them. For MLMD it does not come to
  that: `SetupMLMD` makes `ExtractParams` fail (`dspipeline_params.go:567`), so the
  skip at `mlmd.go:36` is not reached. Kubernetes objects below the level of "applied",
  "available" and "owned by".
- In `Metrics`, gauges other than CrReady, which are published and deleted with it.

## Plan

Done: all modules above, and the proofs of every invariant, every action property
and the refinement.

Left: the safety halves of the remaining liveness properties as invariants with
theorems: in `DSPAReconciler` that a quiet operator has nothing left to do for a
DSPA (`StatusRecovers`), in `DSPAConditions` that the conditions last written by
a reconcile that nothing overtook are those the Deployments deserve.
