-------------------------- MODULE APIServerRollout --------------------------
(***************************************************************************)
(* From a DSPA's spec to running pods: ExtractParams gathers what the API    *)
(* server needs from the cluster, database, object store, webhook and the    *)
(* managed pipelines are seen to, ReconcileAPIServer and the reconcilers     *)
(* after it apply their templates one by one, and the Deployment controller  *)
(* replaces the API server's pod whenever its template changes.  The MLflow  *)
(* plugin makes this a loop: it is configured only once the API server is    *)
(* available, and configuring it rolls the API server out anew.             *)
(*                                                                         *)
(* Two returns of Reconcile ask for no requeue though nothing was applied:   *)
(* that for an unsupported version and that for managed pipelines found      *)
(* invalid.                                                                *)
(*                                                                         *)
(* The configuration files are mounted with subPath, so a pod reads them     *)
(* when it starts and never again; the configHash annotation of the template *)
(* is what makes it start.                                                  *)
(***************************************************************************)
EXTENDS Naturals, Sequences

CONSTANTS
    MaxEvents,      \* bound: edits, changes around, failing calls, crashes, lost pods
    None            \* no such object

VARIABLES
    spec,       \* the DSPA: a version of its settings, spec.apiServer.enableRoute,
                \* spec.podToPodTLS, and whether spec.dspVersion is supported
    mlflow,     \* an MLflow instance has an endpoint
    globalCA,   \* odh-trusted-ca-bundle exists
    named,      \* the ConfigMaps the spec names and the service CA exist
    manifest,   \* the managed pipelines listed are in the image's manifest
    management, \* managementState of the Argo controllers in the operator's config
    obj,        \* the objects the operator applies
    invalid,    \* the last Reconcile to ask found the managed pipelines invalid
    cert,       \* the certificate for the MLMD gRPC service has been issued
    ahead,      \* the server config has changed since the Deployment was applied
    pods,       \* pods of the API server
    available,  \* the Deployment's Available condition, as the operator sees it
    queued, op, \* the workqueue and the running Reconcile
    events

world == <<mlflow, globalCA, named, manifest, management, cert>>
vars == <<spec, world, obj, invalid, ahead, pods, available, queued, op, events>>

Versions == 0..MaxEvents

\* The base URL in the plugin's configuration; "none" is no plugin.
Plugins == {"none", "service", "route"}

\* What configHash stands for in the pod template, and what is in the files.
Configs == [version : Versions, plugin : Plugins]

ASSUME BoundsAssumption == MaxEvents \in Nat /\ None \notin Configs

NoParams == [version |-> 0, plugin |-> "none"]
Idle == [pc |-> "idle", params |-> NoParams, route |-> FALSE, tls |-> FALSE, trust |-> {}]

NoObjects == [trusted |-> {}, server |-> None, template |-> None, grant |-> FALSE,
              service |-> FALSE, route |-> FALSE, sample |-> None, agent |-> None,
              scheduled |-> None, workflow |-> None, grpc |-> None, mlmd |-> None]

\* Mutant: server-config comes where GetTemplatesInDir lists it.
OrderAsListed ==
    <<"trust", "prereqs", "managed", "deployment", "roles", "server", "service", "route",
      "sample", "agent", "scheduled", "workflow", "grpc", "mlmd">>

\* Mutant: MLMD before the others.
OrderMLMDFirst ==
    <<"trust", "prereqs", "managed", "server", "deployment", "roles", "service", "route",
      "sample", "grpc", "mlmd", "agent", "scheduled", "workflow">>

\* The order of the calls in a Reconcile.
Order ==
    <<"trust", "prereqs", "managed", "server", "deployment", "roles", "service", "route",
      "sample", "agent", "scheduled", "workflow", "grpc", "mlmd">>

-----------------------------------------------------------------------------
(* ExtractParams *)

\* The step of this name is done; the next one follows, or the end.
Advance ==
    LET i == CHOOSE j \in DOMAIN Order : Order[j] = op.pc
    IN  op' = IF i = Len(Order) THEN Idle ELSE [op EXCEPT !.pc = Order[i + 1]]

\* Mutant: a failed reconcile waits for the next event.
FailOnce == op' = Idle /\ UNCHANGED queued

\* Errors go back to the workqueue.
Fail == op' = Idle /\ queued' = TRUE

Event == events < MaxEvents /\ events' = events + 1

\* The Available condition alone: a rollout that is under way still counts.
IsAPIServerDeploymentReady == available

\* The address for links into the API server: its route, or else its service.
BaseURL == IF obj.route THEN "route" ELSE IF obj.service THEN "service" ELSE "none"

\* Mutant: the plugin is configured without a base URL.
PluginWithoutURL ==
    IF ~IsAPIServerDeploymentReady \/ ~mlflow THEN "none"
    ELSE IF BaseURL = "none" THEN "" ELSE BaseURL

\* Mutant: a rollout under way counts as not ready.
PluginWhenRolledOut ==
    IF ~IsAPIServerDeploymentReady \/ ~mlflow \/ \E p \in pods : p.template # obj.template
    THEN "none" ELSE BaseURL

\* Only for an API server that is available, with an endpoint, and with a URL.
APIServerPluginsJson ==
    IF ~IsAPIServerDeploymentReady \/ ~mlflow THEN "none" ELSE BaseURL

\* What is copied out of the spec, or defaulted, and needs nothing of the cluster.
FromSpec(plugin) == [version |-> spec.version, plugin |-> plugin]

\* Where a lookup fails: of the endpoint or the service, the plugin is left out;
\* of the route, the service is used in its place.
PluginsAfterFailure ==
    {"none"} \cup
    (IF APIServerPluginsJson = "route" /\ obj.service THEN {"service"} ELSE {})

\* What dsp-trusted-ca is made of: the global bundle if any, and with TLS between
\* pods the service CA.
Bundle == (IF globalCA THEN {"global"} ELSE {}) \cup (IF spec.tls THEN {"service"} ELSE {})

\* The version comes first, before the finalizer even: nothing is looked at and
\* nothing asks for another try.
UnsupportedVersion ==
    /\ op.pc = "idle" /\ queued /\ ~spec.supported
    /\ queued' = FALSE
    /\ UNCHANGED <<spec, world, obj, invalid, ahead, pods, available, op, events>>

\* A failing lookup for the plugin is no error.  A ConfigMap that the spec names
\* and does not exist is; so is an MLMD that is not to be deployed (SetupMLMD).
ExtractParams ==
    /\ op.pc = "idle" /\ queued /\ spec.supported
    /\ \/ /\ ~named /\ Fail /\ UNCHANGED events
       \/ /\ named /\ queued' = FALSE
          /\ \E plugin \in {APIServerPluginsJson} \cup PluginsAfterFailure :
                /\ IF plugin = APIServerPluginsJson THEN UNCHANGED events ELSE Event
                /\ op' = [pc |-> Order[1],
                          params |-> FromSpec(plugin),
                          route |-> spec.route, tls |-> spec.tls,
                          trust |-> Bundle]
    /\ UNCHANGED <<spec, world, obj, invalid, ahead, pods, available>>

\* The answer of a call: done, done and the answer lost, or failed.
Call(effect) ==
    \/ effect /\ Advance /\ UNCHANGED <<queued, events>>
    \/ effect /\ Event /\ Fail
    \/ UNCHANGED <<obj, ahead>> /\ Event /\ Fail

Apply(step, field, value) ==
    /\ op.pc = step
    /\ Call(obj' = [obj EXCEPT ![field] = value] /\ UNCHANGED ahead)
    /\ UNCHANGED <<spec, world, invalid, pods, available>>

\* dsp-trusted-ca is created, or updated if it exists; with no CA to put into it,
\* it stays as it is.
WriteTrustedCA ==
    \/ op.trust # {} /\ Apply("trust", "trusted", op.trust)
    \/ /\ op.trust = {} /\ op.pc = "trust" /\ Advance
       /\ UNCHANGED <<spec, world, obj, invalid, ahead, pods, available, queued, events>>

-----------------------------------------------------------------------------
(* What comes before the API server. *)

\* ReconcileDatabase, ReconcileStorage, the two health checks, ReconcileCommon, and
\* the webhook: each may end the Reconcile, and each time with a requeue.
Prerequisites ==
    /\ op.pc = "prereqs"
    /\ \/ Advance /\ UNCHANGED <<queued, events>>
       \/ Event /\ Fail
    /\ UNCHANGED <<spec, world, obj, invalid, ahead, pods, available>>

\* An invalid list ends the Reconcile and asks for no requeue.  A manifest that
\* cannot be fetched lets it go on, and asks for another when it is over.
ValidateManagedPipelines ==
    /\ op.pc = "managed"
    /\ \/ /\ ~manifest /\ op' = Idle /\ invalid' = TRUE
          /\ UNCHANGED <<queued, events>>
       \/ /\ manifest /\ Advance /\ invalid' = FALSE
          /\ UNCHANGED <<queued, events>>
       \/ /\ Event /\ Advance /\ queued' = TRUE /\ invalid' = FALSE
    /\ UNCHANGED <<spec, world, obj, ahead, pods, available>>

-----------------------------------------------------------------------------
(* ReconcileAPIServer *)

ApplyServerConfig ==
    /\ op.pc = "server"
    /\ Call(/\ obj' = [obj EXCEPT !.server = op.params]
            /\ ahead' = (ahead \/ obj.server # op.params))
    /\ UNCHANGED <<spec, world, invalid, pods, available>>

ApplyDeployment ==
    /\ op.pc = "deployment"
    /\ Call(/\ obj' = [obj EXCEPT !.template = op.params]
            /\ ahead' = FALSE)
    /\ UNCHANGED <<spec, world, invalid, pods, available>>

\* GrantMlflowWorkloadRBAC
ApplyRoles == Apply("roles", "grant", op.params.plugin # "none")

ApplyService == Apply("service", "service", TRUE)

\* Applied if enabled, otherwise deleted.
ApplyRoute == Apply("route", "route", op.route)

ApplySampleConfig == Apply("sample", "sample", op.params.version)

-----------------------------------------------------------------------------
(* The other components. *)

ReconcilePersistenceAgent == Apply("agent", "agent", op.params.version)

ReconcileScheduledWorkflow == Apply("scheduled", "scheduled", op.params.version)

ReconcileWorkflowController ==
    \/ management = "Managed" /\ Apply("workflow", "workflow", op.params.version)
    \/ management = "Removed" /\ Apply("workflow", "workflow", None)
    \/ /\ management = "Invalid" /\ op.pc = "workflow"
       /\ Fail
       /\ UNCHANGED <<spec, world, obj, invalid, ahead, pods, available, events>>

\* The service comes first: OpenShift issues its certificate, if the service asks for
\* one.
ApplyGRPCService == Apply("grpc", "grpc", op.tls)

\* Needs the certificate for TLS between pods.
ApplyMLMD ==
    \/ (cert \/ ~op.tls) /\ Apply("mlmd", "mlmd", op.params.version)
    \/ /\ ~cert /\ op.tls /\ op.pc = "mlmd"
       /\ Fail
       /\ UNCHANGED <<spec, world, obj, invalid, ahead, pods, available, events>>

Reconcile ==
    \/ UnsupportedVersion \/ ExtractParams \/ WriteTrustedCA \/ Prerequisites
    \/ ValidateManagedPipelines
    \/ ApplyServerConfig \/ ApplyDeployment \/ ApplyRoles \/ ApplyService \/ ApplyRoute
    \/ ApplySampleConfig \/ ReconcilePersistenceAgent \/ ReconcileScheduledWorkflow
    \/ ReconcileWorkflowController \/ ApplyGRPCService \/ ApplyMLMD

-----------------------------------------------------------------------------
(* The cluster. *)

\* The Deployment controller surges by one pod, which mounts the files as they
\* are now; a pod of an older template that never got ready is dropped.
CreatePod ==
    /\ obj.template # None /\ obj.server # None /\ obj.sample # None
    /\ \A p \in pods : p.template # obj.template
    /\ pods' = {p \in pods : p.ready} \cup
               {[template |-> obj.template, server |-> obj.server, ready |-> FALSE,
                 behind |-> ~ahead /\ obj.server # obj.template]}
    /\ UNCHANGED <<spec, world, obj, invalid, ahead, available, queued, op, events>>

\* Once the new pod is ready the old one goes.
PodGetsReady ==
    /\ \E p \in pods : /\ ~p.ready /\ p.template = obj.template
                       /\ pods' = {[p EXCEPT !.ready = TRUE]}
    /\ UNCHANGED <<spec, world, obj, invalid, ahead, available, queued, op, events>>

PodDies ==
    /\ Event
    /\ \E p \in pods : pods' = pods \ {p}
    /\ UNCHANGED <<spec, world, obj, invalid, ahead, available, queued, op>>

\* The Deployment is owned, so its status wakes the operator up.
ObserveAvailable ==
    /\ available # \E p \in pods : p.ready
    /\ available' = ~available /\ queued' = TRUE
    /\ UNCHANGED <<spec, world, obj, invalid, ahead, pods, op, events>>

IssueCert ==
    /\ obj.grpc = TRUE /\ ~cert /\ cert' = TRUE
    /\ UNCHANGED <<spec, mlflow, globalCA, named, manifest, management, obj, invalid, ahead,
                   pods, available, queued, op, events>>

Edited(f, b) == [spec EXCEPT !.version = spec.version + 1, ![f] = b]

\* Of the settings the model tells apart, at most one at a time.
Edit ==
    /\ Event
    /\ \E f \in {"route", "tls", "supported"}, b \in BOOLEAN : spec' = Edited(f, b)
    /\ queued' = TRUE
    /\ UNCHANGED <<world, obj, invalid, ahead, pods, available, op>>

\* Of these only the global CA bundle is watched.
WorldChange ==
    /\ Event
    /\ \/ mlflow' = ~mlflow /\ UNCHANGED <<globalCA, named, manifest, queued>>
       \/ globalCA' = ~globalCA /\ queued' = TRUE /\ UNCHANGED <<mlflow, named, manifest>>
       \/ named' = ~named /\ UNCHANGED <<mlflow, globalCA, manifest, queued>>
       \/ manifest' = ~manifest /\ UNCHANGED <<mlflow, globalCA, named, queued>>
    /\ UNCHANGED <<spec, management, cert, obj, invalid, ahead, pods, available, op>>

\* Somebody deletes the route or the service; both are owned.
UserDeletes ==
    /\ Event
    /\ \E o \in {"route", "service"} : obj[o] /\ obj' = [obj EXCEPT ![o] = FALSE]
    /\ queued' = TRUE
    /\ UNCHANGED <<spec, world, invalid, ahead, pods, available, op>>

Crash ==
    /\ Event
    /\ op' = Idle /\ queued' = TRUE
    /\ UNCHANGED <<spec, world, obj, invalid, ahead, pods, available>>

\* One that comes while Reconcile runs takes effect after it.
Resync ==
    /\ ~queued /\ op.pc = "idle" /\ queued' = TRUE
    /\ UNCHANGED <<spec, world, obj, invalid, ahead, pods, available, op, events>>

\* Route and TLS between pods are on unless the spec says otherwise.
Init ==
    /\ spec = [version |-> 0, route |-> TRUE, tls |-> TRUE, supported |-> TRUE]
    /\ mlflow = TRUE /\ globalCA = FALSE /\ named = TRUE /\ manifest = TRUE /\ cert = FALSE
    /\ management \in {"Managed", "Removed", "Invalid"}
    /\ obj = NoObjects /\ invalid = FALSE /\ ahead = FALSE /\ pods = {} /\ available = FALSE
    /\ queued = TRUE /\ op = Idle /\ events = 0

Next ==
    \/ Reconcile \/ CreatePod \/ PodGetsReady \/ PodDies \/ ObserveAvailable
    \/ IssueCert \/ Edit \/ WorldChange \/ UserDeletes \/ Crash \/ Resync

Spec == Init /\ [][Next]_vars

\* Workers and cluster go on, and the informer resyncs; certificates may never come.
FairSpec ==
    /\ Spec
    /\ WF_vars(Reconcile) /\ WF_vars(CreatePod) /\ WF_vars(PodGetsReady)
    /\ WF_vars(ObserveAvailable) /\ WF_vars(Resync)

-----------------------------------------------------------------------------
Optional(S) == S \cup {None}

\* The variables hold what the declarations say.
TypeOK ==
    /\ spec \in [version : Versions, route : BOOLEAN, tls : BOOLEAN, supported : BOOLEAN]
    /\ mlflow \in BOOLEAN /\ globalCA \in BOOLEAN /\ named \in BOOLEAN
    /\ manifest \in BOOLEAN /\ invalid \in BOOLEAN
    /\ management \in {"Managed", "Removed", "Invalid"}
    /\ obj \in [trusted : SUBSET {"service", "global"}, server : Optional(Configs),
                template : Optional(Configs), grant : BOOLEAN, service : BOOLEAN,
                route : BOOLEAN, sample : Optional(Versions), agent : Optional(Versions),
                scheduled : Optional(Versions), workflow : Optional(Versions),
                grpc : Optional(BOOLEAN), mlmd : Optional(Versions)]
    /\ cert \in BOOLEAN /\ ahead \in BOOLEAN
    /\ pods \subseteq [template : Configs, server : Configs, ready : BOOLEAN,
                       behind : BOOLEAN]
    /\ available \in BOOLEAN /\ queued \in BOOLEAN
    /\ op \in [pc : {"idle"} \cup {Order[i] : i \in DOMAIN Order}, params : Configs,
               route : BOOLEAN, tls : BOOLEAN, trust : SUBSET {"service", "global"}]
    /\ events \in Nat

\* No pod is started by a new configHash and reads the server configuration from
\* before it: it would keep that until something else restarts it.  Through
\* faults, crashes and pods dying at any time, a pod's server configuration is
\* that of its template or newer (server-config is applied before the Deployment).
PodsAreNotBehind == \A p \in pods : ~p.behind

\* A supported DSPA that the operator is through with, its queue empty, has the CA
\* bundle as it is, and all components are those of the spec as it is: files and
\* template agree, and no edit, crash, failed call or deleted object, at whatever
\* step it came, has left a component behind.  The one exception is a DSPA whose
\* managed pipelines were found invalid the last time they were looked at (the
\* order of Reconcile, its early returns, and which of them ask for a requeue).
QuietIsApplied ==
    op.pc = "idle" /\ ~queued /\ spec.supported =>
        /\ Bundle # {} => obj.trusted = Bundle
        /\ ~invalid =>
            /\ obj.server # None /\ obj.server.version = spec.version
            /\ obj.template = obj.server
            /\ obj.grant = (obj.template.plugin # "none")
            /\ obj.service /\ obj.grpc = spec.tls /\ obj.route = spec.route
            /\ {obj.sample, obj.agent, obj.scheduled, obj.mlmd} = {spec.version}
            /\ \/ management = "Managed" /\ obj.workflow = spec.version
               \/ management = "Removed" /\ obj.workflow = None

\* What the Deployment ought to look like.
Wanted == [version |-> spec.version,
           plugin |-> IF ~mlflow THEN "none" ELSE IF spec.route THEN "route" ELSE "service"]

\* Nothing that only a user can put right keeps Reconcile from the API server.
Unobstructed == named /\ manifest /\ spec.supported

\* The loop through availability, plugin, hash and rollout comes to rest, once the
\* prerequisites stop failing and the managed pipelines are valid: on the template
\* the spec and the surroundings ask for, a ready pod of it, the grant that goes
\* with the plugin and the right CA bundle, whatever flapped before
\* (IsAPIServerDeploymentReady, APIServerPluginsJson, APIServerConfigHash).
RolloutSettles ==
    <>[](Unobstructed =>
          /\ obj.template = Wanted
          /\ \E p \in pods : p.ready /\ p.template = Wanted
          /\ obj.grant = (Wanted.plugin # "none")
          /\ Bundle # {} => obj.trusted = Bundle)

\* A certificate that never comes holds up MLMD and nothing else; MLMD follows once
\* it is there or is not needed, unless the Argo controllers are misconfigured (the
\* order of the reconcilers, ReconcileMLMD's early exit).
ComponentsSettle ==
    <>[](Unobstructed =>
          /\ {obj.sample, obj.agent, obj.scheduled} = {spec.version}
          /\ management = "Managed" => obj.workflow = spec.version
          /\ management = "Removed" => obj.workflow = None
          /\ (cert \/ ~spec.tls) /\ management # "Invalid" => obj.mlmd = spec.version)

=============================================================================
