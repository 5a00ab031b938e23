----------------------- MODULE APIServerRolloutProofs -----------------------
(***************************************************************************)
(* Proofs about the API server's rollout, for any number of edits, changes   *)
(* around, failing calls, crashes and lost pods.                            *)
(*                                                                         *)
(* A pod is behind if it is started by a template newer than the files it    *)
(* reads.  That cannot be: the Deployment is applied right after the server  *)
(* config and with the same parameters, so that the two agree until the      *)
(* server config is written again, which makes it the newer of the two.      *)
(***************************************************************************)
EXTENDS APIServerRollout, TLAPS

\* The DSPA is edited once per event at most.
WithinBounds == spec.version <= events /\ events <= MaxEvents

\* The files and the template agree, unless the files are newer.
FilesAreNotBehind == ~ahead /\ obj.template # None => obj.server = obj.template

\* The Deployment is applied with the parameters the server config was.
AppliedInOrder == op.pc = "deployment" => obj.server = op.params

RolloutInv ==
    /\ TypeOK /\ WithinBounds
    /\ FilesAreNotBehind /\ AppliedInOrder /\ PodsAreNotBehind

-----------------------------------------------------------------------------
(* Types. *)

Steps == {"trust", "prereqs", "managed", "server", "deployment", "roles", "service",
          "route", "sample", "agent", "scheduled", "workflow", "grpc", "mlmd"}
Dspa == [version : Versions, route : BOOLEAN, tls : BOOLEAN, supported : BOOLEAN]
Sets == SUBSET {"service", "global"}
Op == [pc : {"idle"} \cup Steps, params : Configs, route : BOOLEAN, tls : BOOLEAN,
       trust : Sets]
Obj == [trusted : Sets, server : Optional(Configs), template : Optional(Configs),
        grant : BOOLEAN, service : BOOLEAN, route : BOOLEAN,
        sample : Optional(Versions), agent : Optional(Versions),
        scheduled : Optional(Versions), workflow : Optional(Versions),
        grpc : Optional(BOOLEAN), mlmd : Optional(Versions)]
Pod == [template : Configs, server : Configs, ready : BOOLEAN, behind : BOOLEAN]

LEMMA OrderIs ==
    /\ DOMAIN Order = 1..14 /\ Len(Order) = 14
    /\ Order[1] = "trust" /\ Order[2] = "prereqs" /\ Order[3] = "managed"
    /\ Order[4] = "server" /\ Order[5] = "deployment"
    /\ Order[6] = "roles" /\ Order[7] = "service" /\ Order[8] = "route"
    /\ Order[9] = "sample" /\ Order[10] = "agent" /\ Order[11] = "scheduled"
    /\ Order[12] = "workflow" /\ Order[13] = "grpc" /\ Order[14] = "mlmd"
BY DEF Order

LEMMA StepsOfOrder == {Order[i] : i \in DOMAIN Order} = Steps
<1>1. \A i \in DOMAIN Order : Order[i] \in Steps
  BY OrderIs DEF Steps
<1>2. \A s \in Steps : \E i \in DOMAIN Order : Order[i] = s
  BY OrderIs DEF Steps
<1> QED BY <1>1, <1>2

LEMMA TypeParts ==
    TypeOK <=>
      /\ spec \in Dspa
      /\ mlflow \in BOOLEAN /\ globalCA \in BOOLEAN /\ named \in BOOLEAN
      /\ manifest \in BOOLEAN /\ invalid \in BOOLEAN
      /\ management \in {"Managed", "Removed", "Invalid"}
      /\ obj \in Obj /\ cert \in BOOLEAN /\ ahead \in BOOLEAN /\ pods \subseteq Pod
      /\ available \in BOOLEAN /\ queued \in BOOLEAN /\ op \in Op /\ events \in Nat
BY StepsOfOrder DEF TypeOK, Dspa, Obj, Op, Sets, Pod

\* And after a step that changes neither the spec nor what is around.
LEMMA TypeFrame ==
    ASSUME TypeOK, UNCHANGED <<spec, world>>, obj' \in Obj, invalid' \in BOOLEAN,
           ahead' \in BOOLEAN, pods' \subseteq Pod, available' \in BOOLEAN, queued' \in BOOLEAN,
           op' \in Op, events' \in Nat
    PROVE  TypeOK'
BY StepsOfOrder DEF TypeOK, Dspa, Obj, Op, Sets, Pod, world

LEMMA IdleType == Idle \in Op /\ Idle.pc = "idle" /\ NoParams \in Configs
<1>1. NoParams \in Configs
  BY BoundsAssumption DEF NoParams, Configs, Versions, Plugins
<1> QED BY <1>1 DEF Idle, Op, Sets

\* The step after this one: the Deployment comes after the server config only.
LEMMA AdvanceStep ==
    ASSUME op \in Op, op.pc # "idle", Advance
    PROVE  /\ op' \in Op
           /\ op'.pc = "deployment" => op.pc = "server" /\ op'.params = op.params
<1> DEFINE i == CHOOSE j \in DOMAIN Order : Order[j] = op.pc
<1>1. \E j \in DOMAIN Order : Order[j] = op.pc
  BY StepsOfOrder DEF Op
<1>2. i \in 1..14 /\ Order[i] = op.pc
  BY <1>1, OrderIs
<1>3. op' = IF i = 14 THEN Idle ELSE [op EXCEPT !.pc = Order[i + 1]]
  BY OrderIs DEF Advance
<1> HIDE DEF i
<1>4. CASE i = 14
  BY <1>3, <1>4, IdleType
<1>5. CASE i # 14
  <2>1. i + 1 \in 1..14 /\ Order[i + 1] \in Steps
    BY <1>2, <1>5, OrderIs, StepsOfOrder
  <2>2. op' \in Op /\ op'.pc = Order[i + 1] /\ op'.params = op.params
    BY <1>3, <1>5, <2>1 DEF Op
  <2>3. Order[i + 1] = "deployment" => i = 4
    BY <1>2, <1>5, <2>1, OrderIs
  <2> QED BY <1>2, <2>2, <2>3, OrderIs
<1> QED BY <1>4, <1>5

\* The answer of a call: Reconcile goes on, or starts over.
LEMMA CallStep ==
    ASSUME RolloutInv, op.pc # "idle",
           \/ Advance /\ UNCHANGED <<queued, events>>
           \/ Event /\ Fail
    PROVE  /\ op' \in Op /\ queued' \in BOOLEAN /\ events' \in Nat
           /\ events <= events' /\ events' <= MaxEvents
           /\ op'.pc = "deployment" => op.pc = "server" /\ op'.params = op.params
<1>0. op \in Op /\ queued \in BOOLEAN /\ events \in Nat /\ events <= MaxEvents
  BY TypeParts DEF RolloutInv, WithinBounds
<1>1. CASE Advance /\ UNCHANGED <<queued, events>>
  BY <1>0, <1>1, AdvanceStep
<1>2. CASE Event /\ Fail
  <2>1. op' \in Op /\ op'.pc = "idle" /\ queued' = TRUE
    BY <1>2, IdleType DEF Fail
  <2>2. events' \in Nat /\ events <= events' /\ events' <= MaxEvents
    BY <1>0, <1>2, BoundsAssumption DEF Event
  <2> QED BY <2>1, <2>2
<1> QED BY <1>1, <1>2

\* An object other than the server config and the Deployment: neither the files nor
\* the template change.
LEMMA ApplyStep ==
    ASSUME RolloutInv, NEW step, NEW field, NEW value, step \in Steps,
           step \notin {"server", "deployment"}, Apply(step, field, value),
           [obj EXCEPT ![field] = value] \in Obj, field \notin {"server", "template"}
    PROVE  RolloutInv'
<1>0. op.pc = step /\ UNCHANGED <<spec, world, invalid, pods, available, ahead>>
      /\ (obj' = [obj EXCEPT ![field] = value] \/ obj' = obj)
      /\ \/ Advance /\ UNCHANGED <<queued, events>>
         \/ Event /\ Fail
  BY DEF Apply, Call
<1>1. op.pc # "idle"
  BY <1>0 DEF Steps
<1>2. /\ op' \in Op /\ queued' \in BOOLEAN /\ events' \in Nat
      /\ events <= events' /\ events' <= MaxEvents /\ op'.pc # "deployment"
  BY <1>0, <1>1, CallStep
<1>3. obj' \in Obj /\ obj'.server = obj.server /\ obj'.template = obj.template
  <2>1. obj \in Obj
    BY TypeParts DEF RolloutInv
  <2>2. CASE obj' = obj
    BY <2>1, <2>2
  <2>3. CASE obj' = [obj EXCEPT ![field] = value]
    BY <2>1, <2>3 DEF Obj
  <2> QED BY <1>0, <2>2, <2>3
<1>4. TypeOK'
  BY <1>0, <1>2, <1>3, TypeParts, TypeFrame DEF RolloutInv
<1>5. WithinBounds'
  <2>1. spec.version \in Nat /\ events \in Nat /\ spec.version <= events /\ MaxEvents \in Nat
    BY BoundsAssumption, TypeParts DEF RolloutInv, WithinBounds, Versions, Dspa
  <2> QED BY <1>0, <1>2, <2>1 DEF WithinBounds
<1>6. FilesAreNotBehind' /\ AppliedInOrder' /\ PodsAreNotBehind'
  BY <1>0, <1>2, <1>3 DEF RolloutInv, FilesAreNotBehind, AppliedInOrder, PodsAreNotBehind
<1> QED BY <1>4, <1>5, <1>6 DEF RolloutInv

\* Neither the files, nor the template, nor a pod's, nor the parameters change.
LEMMA Unmoved ==
    ASSUME RolloutInv, obj'.server = obj.server, obj'.template = obj.template,
           ahead' = ahead, op' = op \/ op'.pc = "idle", \A p \in pods' : ~p.behind
    PROVE  FilesAreNotBehind' /\ AppliedInOrder' /\ PodsAreNotBehind'
BY DEF RolloutInv, FilesAreNotBehind, AppliedInOrder, PodsAreNotBehind

LEMMA RolloutInit == Init => RolloutInv
<1> SUFFICES ASSUME Init PROVE RolloutInv
  OBVIOUS
<1>1. spec.version = 0 /\ spec \in Dspa
  BY BoundsAssumption DEF Init, Dspa, Versions
<1>2. obj \in Obj /\ obj.template = None
  BY DEF Init, NoObjects, Obj, Sets, Optional
<1>3. op \in Op /\ op.pc = "idle"
  BY IdleType DEF Init
<1>4. TypeOK
  BY <1>1, <1>2, <1>3, TypeParts DEF Init
<1>5. WithinBounds
  BY <1>1, BoundsAssumption DEF Init, WithinBounds
<1> QED BY <1>2, <1>3, <1>4, <1>5
        DEF Init, RolloutInv, FilesAreNotBehind, AppliedInOrder, PodsAreNotBehind

LEMMA RolloutStep == RolloutInv /\ [Next]_vars => RolloutInv'
<1> SUFFICES ASSUME RolloutInv, [Next]_vars PROVE RolloutInv'
  OBVIOUS
<1>0. TypeOK /\ WithinBounds /\ FilesAreNotBehind /\ AppliedInOrder /\ PodsAreNotBehind
  BY DEF RolloutInv
<1>t. /\ spec \in Dspa /\ obj \in Obj /\ op \in Op
      /\ pods \subseteq Pod /\ events \in Nat /\ available \in BOOLEAN
      /\ ahead \in BOOLEAN /\ queued \in BOOLEAN
      /\ invalid \in BOOLEAN
      /\ op.params \in Configs /\ op.route \in BOOLEAN /\ op.tls \in BOOLEAN
      /\ op.trust \in Sets
      /\ op.params.version \in Versions
  <2>1. op \in Op
    BY <1>0, TypeParts
  <2>2. op.params \in Configs
    BY <2>1 DEF Op
  <2> QED BY <1>0, <2>1, <2>2, TypeParts DEF Op, Configs
<1>v. spec.version \in Nat /\ MaxEvents \in Nat /\ spec.version <= events /\ events <= MaxEvents
  BY <1>0, <1>t, BoundsAssumption DEF WithinBounds, Versions, Dspa
<1>e. Event => events' \in Nat /\ events <= events' /\ events' <= MaxEvents /\ events' = events + 1
  BY <1>t, <1>v DEF Event
<1>1. CASE ExtractParams
  <2>1. UNCHANGED <<spec, world, obj, invalid, ahead, pods, available>>
    BY <1>1 DEF ExtractParams
  <2>2. op' \in Op /\ op'.pc # "deployment" /\ queued' \in BOOLEAN
        /\ events' \in Nat /\ events <= events' /\ events' <= MaxEvents
    <3>1. CASE Fail /\ UNCHANGED events
      BY <1>t, <1>v, <3>1, IdleType DEF Fail
    <3>2. CASE \E plugin \in {APIServerPluginsJson} \cup PluginsAfterFailure :
                /\ queued' = FALSE
                /\ IF plugin = APIServerPluginsJson THEN UNCHANGED events ELSE Event
                /\ op' = [pc |-> Order[1], params |-> FromSpec(plugin),
                          route |-> spec.route, tls |-> spec.tls,
                          trust |-> Bundle]
      <4>1. PICK plugin \in {APIServerPluginsJson} \cup PluginsAfterFailure :
                /\ queued' = FALSE
                /\ IF plugin = APIServerPluginsJson THEN UNCHANGED events ELSE Event
                /\ op' = [pc |-> Order[1], params |-> FromSpec(plugin),
                          route |-> spec.route, tls |-> spec.tls,
                          trust |-> Bundle]
        BY <3>2
      <4>2. plugin \in Plugins
        BY DEF APIServerPluginsJson, PluginsAfterFailure, BaseURL, Plugins
      <4>3. FromSpec(plugin) \in Configs
        BY <1>t, <4>2 DEF FromSpec, Configs, Dspa
      <4>4. op' \in Op /\ op'.pc = "trust"
        BY <1>t, <4>1, <4>3, OrderIs DEF Op, Sets, Steps, Bundle, Dspa
      <4>5. events' \in Nat /\ events <= events' /\ events' <= MaxEvents
        BY <1>t, <1>v, <1>e, <4>1
      <4> QED BY <4>1, <4>4, <4>5
    <3> QED BY <1>1, <3>1, <3>2 DEF ExtractParams
  <2>3. TypeOK'
    BY <1>0, <1>t, <2>1, <2>2, TypeFrame
  <2>4. WithinBounds'
    BY <1>t, <1>v, <2>1, <2>2 DEF WithinBounds
  <2>5. FilesAreNotBehind' /\ AppliedInOrder' /\ PodsAreNotBehind'
    BY <1>0, <2>1, <2>2 DEF FilesAreNotBehind, AppliedInOrder, PodsAreNotBehind
  <2> QED BY <2>3, <2>4, <2>5 DEF RolloutInv
<1>m. ASSUME op.pc \in {"trust", "prereqs", "managed"},
             UNCHANGED <<spec, world, obj, ahead, pods, available>>,
             invalid' \in BOOLEAN,
             \/ Advance /\ UNCHANGED events /\ queued' \in BOOLEAN
             \/ Advance /\ Event /\ queued' \in BOOLEAN
             \/ op' = Idle /\ Event /\ queued' \in BOOLEAN
             \/ op' = Idle /\ UNCHANGED events /\ queued' \in BOOLEAN
      PROVE  RolloutInv'
  <2>1. op' \in Op /\ op'.pc # "deployment"
    BY <1>m, <1>t, AdvanceStep, IdleType
  <2>2. events' \in Nat /\ events <= events' /\ events' <= MaxEvents /\ queued' \in BOOLEAN
    BY <1>m, <1>t, <1>v, <1>e
  <2>3. TypeOK'
    BY <1>0, <1>m, <1>t, <2>1, <2>2, TypeFrame
  <2>4. WithinBounds'
    BY <1>m, <1>t, <1>v, <2>2 DEF WithinBounds
  <2>5. FilesAreNotBehind' /\ AppliedInOrder' /\ PodsAreNotBehind'
    BY <1>0, <1>m, <2>1 DEF FilesAreNotBehind, AppliedInOrder, PodsAreNotBehind
  <2> QED BY <2>3, <2>4, <2>5 DEF RolloutInv
<1>2. CASE WriteTrustedCA
  <2>1. [obj EXCEPT !["trusted"] = op.trust] \in Obj
    BY <1>t DEF Obj
  <2>2. CASE Apply("trust", "trusted", op.trust)
    BY <2>1, <2>2, ApplyStep DEF Steps
  <2>3. CASE /\ op.pc = "trust" /\ Advance
             /\ UNCHANGED <<spec, world, obj, invalid, ahead, pods, available, queued, events>>
    BY <1>m, <1>t, <2>3
  <2> QED BY <1>2, <2>2, <2>3 DEF WriteTrustedCA
<1>p. CASE Prerequisites
  BY <1>m, <1>p, <1>t DEF Prerequisites, Fail
<1>q. CASE ValidateManagedPipelines
  BY <1>m, <1>q, <1>t DEF ValidateManagedPipelines
<1>3. CASE ApplyServerConfig
  <2>1. op.pc = "server" /\ UNCHANGED <<spec, world, invalid, pods, available>>
        /\ \/ Advance /\ UNCHANGED <<queued, events>>
           \/ Event /\ Fail
    BY <1>3 DEF ApplyServerConfig, Call
  <2>2. /\ op' \in Op /\ queued' \in BOOLEAN /\ events' \in Nat
        /\ events <= events' /\ events' <= MaxEvents
        /\ op'.pc = "deployment" => op'.params = op.params
    BY <2>1, CallStep
  <2>3. WithinBounds'
    BY <1>t, <1>v, <2>1, <2>2 DEF WithinBounds
  <2>4. CASE UNCHANGED <<obj, ahead>> /\ Event /\ Fail
    <3>1. op'.pc = "idle"
      BY <2>4, IdleType DEF Fail
    <3>2. TypeOK'
      BY <1>0, <1>t, <2>1, <2>2, <2>4, TypeFrame
    <3>3. FilesAreNotBehind' /\ AppliedInOrder' /\ PodsAreNotBehind'
      BY <1>0, <2>1, <2>4, <3>1, Unmoved DEF PodsAreNotBehind
    <3> QED BY <2>3, <3>2, <3>3 DEF RolloutInv
  <2>5. CASE /\ obj' = [obj EXCEPT !.server = op.params]
             /\ ahead' = (ahead \/ obj.server # op.params)
    <3>1. /\ obj' \in Obj /\ obj'.server = op.params /\ obj'.template = obj.template
      BY <1>t, <2>5 DEF Obj, Optional
    <3>2. ahead' \in BOOLEAN /\ (~ahead' => ~ahead /\ obj.server = op.params)
      BY <2>5
    <3>3. TypeOK'
      BY <1>0, <1>t, <2>1, <2>2, <3>1, <3>2, TypeFrame
    <3>4. FilesAreNotBehind'
      BY <1>0, <3>1, <3>2 DEF FilesAreNotBehind
    <3>5. AppliedInOrder' /\ PodsAreNotBehind'
      BY <1>0, <2>1, <2>2, <3>1 DEF AppliedInOrder, PodsAreNotBehind
    <3> QED BY <2>3, <3>3, <3>4, <3>5 DEF RolloutInv
  <2> QED BY <1>3, <2>4, <2>5 DEF ApplyServerConfig, Call
<1>4. CASE ApplyDeployment
  <2>1. op.pc = "deployment" /\ UNCHANGED <<spec, world, invalid, pods, available>>
        /\ \/ Advance /\ UNCHANGED <<queued, events>>
           \/ Event /\ Fail
    BY <1>4 DEF ApplyDeployment, Call
  <2>2. /\ op' \in Op /\ queued' \in BOOLEAN /\ events' \in Nat
        /\ events <= events' /\ events' <= MaxEvents /\ op'.pc # "deployment"
    BY <2>1, CallStep
  <2>3. WithinBounds'
    BY <1>t, <1>v, <2>1, <2>2 DEF WithinBounds
  <2>4. obj' \in Obj /\ ahead' \in BOOLEAN /\ FilesAreNotBehind'
    <3>1. CASE UNCHANGED <<obj, ahead>>
      BY <1>0, <1>t, <3>1 DEF FilesAreNotBehind
    <3>2. CASE obj' = [obj EXCEPT !.template = op.params] /\ ahead' = FALSE
      <4>1. obj' \in Obj /\ obj'.template = op.params /\ obj'.server = obj.server
        BY <1>t, <3>2 DEF Obj, Optional
      <4> QED BY <1>0, <2>1, <3>2, <4>1 DEF AppliedInOrder, FilesAreNotBehind
    <3> QED BY <1>4, <3>1, <3>2 DEF ApplyDeployment, Call
  <2>5. TypeOK'
    BY <1>0, <1>t, <2>1, <2>2, <2>4, TypeFrame
  <2> QED BY <1>0, <2>1, <2>2, <2>3, <2>4, <2>5
          DEF RolloutInv, AppliedInOrder, PodsAreNotBehind
<1>5. CASE ApplyRoles
  <2>1. [obj EXCEPT !["grant"] = (op.params.plugin # "none")] \in Obj
    BY <1>t DEF Obj
  <2> QED BY <1>5, <2>1, ApplyStep DEF ApplyRoles, Steps
<1>6. CASE ApplyService
  <2>1. PICK yes \in BOOLEAN : yes = TRUE
    OBVIOUS
  <2>2. Apply("service", "service", yes)
    BY <1>6, <2>1 DEF ApplyService, Apply
  <2>3. [obj EXCEPT !["service"] = yes] \in Obj
    BY <1>t DEF Obj
  <2> QED BY <2>2, <2>3, ApplyStep DEF Steps
<1>7. CASE ApplyRoute
  <2>1. [obj EXCEPT !["route"] = op.route] \in Obj
    BY <1>t DEF Obj
  <2> QED BY <1>7, <2>1, ApplyStep DEF ApplyRoute, Steps
<1>8. CASE ApplySampleConfig
  <2>1. [obj EXCEPT !["sample"] = op.params.version] \in Obj
    BY <1>t DEF Obj, Optional
  <2> QED BY <1>8, <2>1, ApplyStep DEF ApplySampleConfig, Steps
<1>9. CASE ReconcilePersistenceAgent
  <2>1. [obj EXCEPT !["agent"] = op.params.version] \in Obj
    BY <1>t DEF Obj, Optional
  <2> QED BY <1>9, <2>1, ApplyStep DEF ReconcilePersistenceAgent, Steps
<1>10. CASE ReconcileScheduledWorkflow
  <2>1. [obj EXCEPT !["scheduled"] = op.params.version] \in Obj
    BY <1>t DEF Obj, Optional
  <2> QED BY <1>10, <2>1, ApplyStep DEF ReconcileScheduledWorkflow, Steps
<1>11. ASSUME Fail, UNCHANGED <<spec, world, obj, invalid, ahead, pods, available, events>>
       PROVE  RolloutInv'
  <2>1. op' \in Op /\ op'.pc = "idle" /\ queued' \in BOOLEAN
    BY <1>11, IdleType DEF Fail
  <2>2. TypeOK'
    BY <1>0, <1>11, <1>t, <2>1, TypeFrame
  <2>3. FilesAreNotBehind' /\ AppliedInOrder' /\ PodsAreNotBehind'
    BY <1>0, <1>11, <2>1, Unmoved DEF PodsAreNotBehind
  <2> QED BY <1>0, <1>11, <2>2, <2>3 DEF RolloutInv, WithinBounds
<1>12. CASE ReconcileWorkflowController
  <2>1. ASSUME NEW v \in Optional(Versions), Apply("workflow", "workflow", v)
        PROVE  RolloutInv'
    <3>1. [obj EXCEPT !["workflow"] = v] \in Obj
      BY <1>t, <2>1 DEF Obj
    <3> QED BY <2>1, <3>1, ApplyStep DEF Steps
  <2>2. CASE Apply("workflow", "workflow", op.params.version)
    BY <1>t, <2>1, <2>2 DEF Optional
  <2>3. CASE Apply("workflow", "workflow", None)
    BY <2>1, <2>3 DEF Optional
  <2> QED BY <1>11, <1>12, <2>2, <2>3 DEF ReconcileWorkflowController
<1>13. CASE ApplyGRPCService
  <2>1. [obj EXCEPT !["grpc"] = op.tls] \in Obj
    BY <1>t DEF Obj, Optional
  <2> QED BY <1>13, <2>1, ApplyStep DEF ApplyGRPCService, Steps
<1>14. CASE ApplyMLMD
  <2>1. [obj EXCEPT !["mlmd"] = op.params.version] \in Obj
    BY <1>t DEF Obj, Optional
  <2> QED BY <1>11, <1>14, <2>1, ApplyStep DEF ApplyMLMD, Steps
<1>15. ASSUME UNCHANGED <<spec, world, obj, invalid, ahead, op>>, pods' \subseteq Pod,
              \A p \in pods' : ~p.behind, available' \in BOOLEAN, queued' \in BOOLEAN,
              events' \in Nat, events <= events', events' <= MaxEvents
       PROVE  RolloutInv'
  <2>1. TypeOK'
    BY <1>0, <1>15, <1>t, TypeFrame
  <2>2. FilesAreNotBehind' /\ AppliedInOrder' /\ PodsAreNotBehind'
    BY <1>0, <1>15, Unmoved
  <2>3. WithinBounds'
    BY <1>15, <1>t, <1>v DEF WithinBounds
  <2> QED BY <2>1, <2>2, <2>3 DEF RolloutInv
<1>16. CASE CreatePod
  <2> DEFINE new == [template |-> obj.template, server |-> obj.server, ready |-> FALSE,
                     behind |-> ~ahead /\ obj.server # obj.template]
  <2>1. /\ UNCHANGED <<spec, world, obj, invalid, ahead, op, available, queued, events>>
        /\ pods' = {p \in pods : p.ready} \cup {new}
        /\ obj.template # None /\ obj.server # None
    BY <1>16 DEF CreatePod
  <2>2. obj.template \in Configs /\ obj.server \in Configs
    BY <1>t, <2>1 DEF Obj, Optional
  <2>3. new \in Pod
    BY <2>2 DEF Pod
  <2>4. ~new.behind
    BY <1>0, <2>1 DEF FilesAreNotBehind
  <2> HIDE DEF new
  <2>5. pods' \subseteq Pod /\ \A p \in pods' : ~p.behind
    BY <1>0, <1>t, <2>1, <2>3, <2>4 DEF PodsAreNotBehind
  <2> QED BY <1>15, <1>t, <1>v, <2>1, <2>5
<1>17. CASE PodGetsReady
  <2>1. PICK p \in pods : pods' = {[p EXCEPT !.ready = TRUE]}
    BY <1>17 DEF PodGetsReady
  <2>2. p \in Pod /\ ~p.behind
    BY <1>0, <1>t DEF PodsAreNotBehind
  <2>3. [p EXCEPT !.ready = TRUE] \in Pod /\ ~[p EXCEPT !.ready = TRUE].behind
    BY <2>2 DEF Pod
  <2>4. pods' \subseteq Pod /\ \A q \in pods' : ~q.behind
    BY <2>1, <2>3
  <2> QED BY <1>15, <1>17, <1>t, <1>v, <2>4 DEF PodGetsReady
<1>18. CASE PodDies
  <2>1. pods' \subseteq pods
    BY <1>18 DEF PodDies
  <2>2. pods' \subseteq Pod /\ \A q \in pods' : ~q.behind
    BY <1>0, <1>t, <2>1 DEF PodsAreNotBehind
  <2> QED BY <1>15, <1>18, <1>e, <1>t, <2>2 DEF PodDies
<1>19. CASE UnsupportedVersion \/ ObserveAvailable \/ Resync \/ UNCHANGED vars
  <2>1. UNCHANGED <<spec, world, obj, invalid, ahead, op, pods, events>>
        /\ available' \in BOOLEAN /\ queued' \in BOOLEAN
    BY <1>19, <1>t DEF UnsupportedVersion, ObserveAvailable, Resync, vars
  <2> QED BY <1>0, <1>15, <1>t, <1>v, <2>1 DEF PodsAreNotBehind
<1>20. ASSUME UNCHANGED <<invalid, ahead, pods, available, op>>,
              mlflow' \in BOOLEAN, globalCA' \in BOOLEAN, named' \in BOOLEAN,
              manifest' \in BOOLEAN,
              management' = management, cert' \in BOOLEAN, queued' \in BOOLEAN,
              events' \in Nat, spec' \in Dspa,
              spec'.version <= events', events' <= MaxEvents,
              obj' \in Obj, obj'.server = obj.server, obj'.template = obj.template
       PROVE  RolloutInv'
  <2>1. TypeOK'
    BY <1>0, <1>20, <1>t, StepsOfOrder DEF TypeOK, Dspa, Obj, Op, Sets, Pod
  <2>2. FilesAreNotBehind' /\ AppliedInOrder' /\ PodsAreNotBehind'
    BY <1>0, <1>20, Unmoved DEF PodsAreNotBehind
  <2> QED BY <1>20, <2>1, <2>2 DEF RolloutInv, WithinBounds
<1>w. /\ mlflow \in BOOLEAN /\ globalCA \in BOOLEAN /\ named \in BOOLEAN
      /\ manifest \in BOOLEAN /\ cert \in BOOLEAN
  BY <1>0, TypeParts
<1>21. CASE IssueCert
  BY <1>20, <1>21, <1>t, <1>v, <1>w DEF IssueCert
<1>22. CASE Edit
  <2>1. PICK f \in {"route", "tls", "supported"}, b \in BOOLEAN : spec' = Edited(f, b)
    BY <1>22 DEF Edit
  <2>2. events' = events + 1 /\ events' <= MaxEvents /\ events' \in Nat
    BY <1>22, <1>e DEF Edit
  <2>3. spec.version + 1 \in Versions /\ spec.version + 1 <= events'
    BY <1>t, <1>v, <2>2 DEF Versions
  <2>4. spec'.version = spec.version + 1 /\ spec' \in Dspa
    BY <1>t, <2>1, <2>3 DEF Dspa, Edited
  <2>5. UNCHANGED <<invalid, ahead, pods, available, op, obj, mlflow, globalCA, named,
                    manifest, management, cert>>
        /\ queued' = TRUE
    BY <1>22 DEF Edit, world
  <2> QED BY <1>20, <1>t, <1>w, <2>2, <2>3, <2>4, <2>5
<1>23. CASE WorldChange
  <2>1. events' \in Nat /\ events <= events' /\ events' <= MaxEvents
    BY <1>23, <1>e DEF WorldChange
  <2>2. UNCHANGED <<spec, management, cert, obj, invalid, ahead, pods, available, op>>
    BY <1>23 DEF WorldChange
  <2>3. mlflow' \in BOOLEAN /\ globalCA' \in BOOLEAN /\ named' \in BOOLEAN
        /\ manifest' \in BOOLEAN /\ queued' \in BOOLEAN
    BY <1>23, <1>t, <1>w DEF WorldChange
  <2>4. spec'.version <= events'
    BY <1>t, <1>v, <2>1, <2>2
  <2> QED BY <1>20, <1>t, <1>w, <2>1, <2>2, <2>3, <2>4
<1>24. CASE UserDeletes
  <2>1. events' \in Nat /\ events <= events' /\ events' <= MaxEvents
    BY <1>24, <1>e DEF UserDeletes
  <2>2. UNCHANGED <<spec, mlflow, globalCA, named, manifest, management, cert, invalid,
                    ahead, pods, available, op>>
        /\ queued' = TRUE
    BY <1>24 DEF UserDeletes, world
  <2>3. obj' \in Obj /\ obj'.server = obj.server /\ obj'.template = obj.template
    <3>1. PICK o \in {"route", "service"} : obj' = [obj EXCEPT ![o] = FALSE]
      BY <1>24 DEF UserDeletes
    <3> QED BY <1>t, <3>1 DEF Obj
  <2>4. spec'.version <= events'
    BY <1>t, <1>v, <2>1, <2>2
  <2> QED BY <1>20, <1>t, <1>w, <2>1, <2>2, <2>3, <2>4
<1>25. CASE Crash
  <2>1. UNCHANGED <<spec, world, obj, invalid, ahead, pods, available>> /\ queued' = TRUE
        /\ op' \in Op /\ op'.pc = "idle"
    BY <1>25, IdleType DEF Crash
  <2>2. events' \in Nat /\ events <= events' /\ events' <= MaxEvents
    BY <1>25, <1>e DEF Crash
  <2>3. TypeOK'
    BY <1>0, <1>t, <2>1, <2>2, TypeFrame
  <2>4. WithinBounds'
    BY <1>t, <1>v, <2>1, <2>2 DEF WithinBounds
  <2>5. FilesAreNotBehind' /\ AppliedInOrder' /\ PodsAreNotBehind'
    BY <1>0, <2>1, Unmoved DEF PodsAreNotBehind
  <2> QED BY <2>3, <2>4, <2>5 DEF RolloutInv
<1> QED
  BY <1>1, <1>2, <1>p, <1>q, <1>3, <1>4, <1>5, <1>6, <1>7, <1>8, <1>9, <1>10, <1>12,
     <1>13, <1>14, <1>16, <1>17, <1>18, <1>19, <1>21, <1>22, <1>23, <1>24, <1>25 DEF Next, Reconcile

\* The type invariant holds for every bound on the events.
THEOREM RolloutTypeCorrect == Spec => []TypeOK
<1>1. RolloutInv => TypeOK
  BY DEF RolloutInv
<1> QED BY <1>1, RolloutInit, RolloutStep, PTL DEF Spec

\* No pod of the API server is ever started by a new configHash with the server
\* configuration from before it, whatever fails, crashes or dies in between
\* (ReconcileAPIServer applies server-config first).
THEOREM PodsNeverBehind == Spec => []PodsAreNotBehind
<1>1. RolloutInv => PodsAreNotBehind
  BY DEF RolloutInv
<1> QED BY <1>1, RolloutInit, RolloutStep, PTL DEF Spec

-----------------------------------------------------------------------------
(* A quiet operator has applied everything. *)

\* The first n steps of the order are done: a Reconcile that ends with the managed
\* pipelines invalid has come as far as that.
Past(n) ==
    \/ op.pc = "idle" /\ (n <= 3 \/ ~invalid)
    \/ \E i \in 1..14 : n < i /\ Order[i] = op.pc

\* The running Reconcile has the spec and the CA bundle as they are.
OpIsCurrent ==
    op.pc # "idle" =>
        /\ op.params.version = spec.version /\ op.route = spec.route
        /\ op.tls = spec.tls /\ op.trust = Bundle

Served == obj.service

\* What each step that is done has left.
Done ==
    /\ Past(1) => (Bundle # {} => obj.trusted = Bundle)
    /\ Past(4) => /\ obj.server # None /\ obj.server.version = spec.version
                  /\ op.pc # "idle" => obj.server = op.params
    /\ Past(5) => obj.template = obj.server
    /\ Past(6) => obj.grant = (obj.server.plugin # "none")
    /\ Past(7) => Served
    /\ Past(8) => obj.route = spec.route
    /\ Past(9) => obj.sample = spec.version
    /\ Past(10) => obj.agent = spec.version
    /\ Past(11) => obj.scheduled = spec.version
    /\ Past(12) => \/ management = "Managed" /\ obj.workflow = spec.version
                   \/ management = "Removed" /\ obj.workflow = None
    /\ Past(13) => obj.grpc = spec.tls
    /\ Past(14) => obj.mlmd = spec.version

\* As long as no event is waiting and the version is supported.
QuietInv == ~queued /\ spec.supported => OpIsCurrent /\ Done

LEMMA QuietInit == Init => QuietInv
BY DEF Init, QuietInv

\* The k-th step is done: no other one has become so.
LEMMA AdvancePast ==
    ASSUME op \in Op, NEW k \in 1..14, op.pc = Order[k], Advance
    PROVE  /\ \A n \in 1..14 : Past(n)' /\ n # k => Past(n)
           /\ k <= 4 => op'.pc # "idle"
           /\ op'.pc # "idle" => /\ op'.params = op.params /\ op'.route = op.route
                                 /\ op'.tls = op.tls /\ op'.trust = op.trust
<1> DEFINE i == CHOOSE j \in DOMAIN Order : Order[j] = op.pc
<1>1. i \in 1..14 /\ Order[i] = op.pc
  BY OrderIs
<1>2. op' = IF i = 14 THEN Idle ELSE [op EXCEPT !.pc = Order[i + 1]]
  BY OrderIs DEF Advance
<1> HIDE DEF i
<1>3. \A a, b \in 1..14 : Order[a] = Order[b] => a = b
  BY OrderIs
<1>4. i = k
  BY <1>1, <1>3
<1>5. CASE k = 14
  <2>1. op' = Idle
    BY <1>2, <1>4, <1>5
  <2>2. \A n \in 1..14 : n # k => n < k
    BY <1>5
  <2> QED BY <2>1, <2>2, <1>5, IdleType DEF Past
<1>6. CASE k # 14
  <2>1. k + 1 \in 1..14
    BY <1>6
  <2>2. /\ op'.pc = Order[k + 1] /\ op'.params = op.params /\ op'.route = op.route
        /\ op'.tls = op.tls /\ op'.trust = op.trust
    BY <1>2, <1>4, <1>6, <2>1 DEF Op
  <2>3. Order[k + 1] # "idle"
    BY <2>1, OrderIs
  <2>4. ASSUME NEW n \in 1..14, Past(n)', n # k PROVE Past(n)
    <3>1. PICK j \in 1..14 : n < j /\ Order[j] = op'.pc
      BY <2>2, <2>3, <2>4 DEF Past
    <3>2. j = k + 1
      BY <1>3, <2>1, <2>2, <3>1
    <3>3. n < k
      BY <2>4, <3>1, <3>2
    <3> QED BY <3>3 DEF Past
  <2> QED BY <2>2, <2>3, <2>4
<1> QED BY <1>5, <1>6

\* A call of the k-th step that was answered, and what it did to the object.
LEMMA DoneStep ==
    ASSUME RolloutInv, QuietInv, ~queued, spec.supported, NEW k \in 1..14,
           op.pc = Order[k], Advance, UNCHANGED <<spec, world>>,
           k # 1 => obj'.trusted = obj.trusted, k # 4 => obj'.server = obj.server,
           k # 5 => obj'.template = obj.template, k # 6 => obj'.grant = obj.grant,
           k # 7 => obj'.service = obj.service, k # 8 => obj'.route = obj.route,
           k # 9 => obj'.sample = obj.sample, k # 10 => obj'.agent = obj.agent,
           k # 11 => obj'.scheduled = obj.scheduled, k # 12 => obj'.workflow = obj.workflow,
           k # 13 => obj'.grpc = obj.grpc, k # 14 => obj'.mlmd = obj.mlmd,
           k = 1 => (op.trust # {} => obj'.trusted = op.trust),
           k = 4 => obj'.server = op.params, k = 5 => obj'.template = op.params,
           k = 6 => obj'.grant = (op.params.plugin # "none"),
           k = 7 => Served', k = 8 => obj'.route = op.route,
           k = 9 => obj'.sample = op.params.version, k = 10 => obj'.agent = op.params.version,
           k = 11 => obj'.scheduled = op.params.version,
           k = 12 => \/ management = "Managed" /\ obj'.workflow = op.params.version
                     \/ management = "Removed" /\ obj'.workflow = None,
           k = 13 => obj'.grpc = op.tls, k = 14 => obj'.mlmd = op.params.version
    PROVE  QuietInv'
<1>0. op \in Op /\ op.pc # "idle" /\ op.params # None
  BY TypeParts, OrderIs, BoundsAssumption DEF RolloutInv, Op
<1>1. OpIsCurrent /\ Done
  BY DEF QuietInv
<1>2. /\ op.params.version = spec.version /\ op.route = spec.route
      /\ op.tls = spec.tls /\ op.trust = Bundle
  BY <1>0, <1>1 DEF OpIsCurrent
<1>3. /\ \A n \in 1..14 : Past(n)' /\ n # k => Past(n)
      /\ k <= 4 => op'.pc # "idle"
      /\ op'.pc # "idle" => /\ op'.params = op.params /\ op'.route = op.route
                            /\ op'.tls = op.tls /\ op'.trust = op.trust
  BY <1>0, AdvancePast
<1>4. spec' = spec /\ management' = management /\ Bundle' = Bundle
  BY DEF world, Bundle
<1>5. OpIsCurrent'
  BY <1>2, <1>3, <1>4 DEF OpIsCurrent
<1>6. k > 4 => obj.server = op.params /\ obj.server.version = spec.version
  <2> SUFFICES ASSUME k > 4 PROVE Past(4)
    BY <1>0, <1>1 DEF Done
  <2> QED BY DEF Past
<1>7. Past(1)' => (Bundle' # {} => obj'.trusted = Bundle')
  <2>1. CASE k = 1
    BY <1>2, <1>4, <2>1
  <2>2. CASE k # 1
    BY <1>1, <1>3, <1>4, <2>2 DEF Done
  <2> QED BY <2>1, <2>2
<1>8. Past(4)' => /\ obj'.server # None /\ obj'.server.version = spec'.version
                  /\ op'.pc # "idle" => obj'.server = op'.params
  <2>1. CASE k = 4
    BY <1>0, <1>2, <1>3, <1>4, <2>1
  <2>2. CASE k # 4
    BY <1>0, <1>1, <1>3, <1>4, <2>2 DEF Done
  <2> QED BY <2>1, <2>2
<1>9. Past(5)' => obj'.template = obj'.server
  <2>1. CASE k = 5
    BY <1>6, <2>1
  <2>2. CASE k # 5 /\ k # 4
    BY <1>1, <1>3, <2>2 DEF Done
  <2>3. CASE k = 4
    <3>1. ~Past(5)
      BY <1>0, <2>3, OrderIs DEF Past
    <3> QED BY <1>3, <2>3, <3>1
  <2> QED BY <2>1, <2>2, <2>3
<1>10. Past(6)' => obj'.grant = (obj'.server.plugin # "none")
  <2>1. CASE k = 6
    BY <1>6, <2>1
  <2>2. CASE k # 6 /\ k # 4
    BY <1>1, <1>3, <2>2 DEF Done
  <2>3. CASE k = 4
    <3>1. ~Past(6)
      BY <1>0, <2>3, OrderIs DEF Past
    <3> QED BY <1>3, <2>3, <3>1
  <2> QED BY <2>1, <2>2, <2>3
<1>11. /\ Past(7)' => Served'
       /\ Past(8)' => obj'.route = spec'.route
       /\ Past(9)' => obj'.sample = spec'.version
       /\ Past(10)' => obj'.agent = spec'.version
       /\ Past(11)' => obj'.scheduled = spec'.version
  <2>1. Past(7)' => Served'
    BY <1>1, <1>3 DEF Done, Served
  <2>2. Past(8)' => obj'.route = spec'.route
    BY <1>1, <1>2, <1>3, <1>4 DEF Done
  <2>3. Past(9)' => obj'.sample = spec'.version
    BY <1>1, <1>2, <1>3, <1>4 DEF Done
  <2>4. Past(10)' => obj'.agent = spec'.version
    BY <1>1, <1>2, <1>3, <1>4 DEF Done
  <2>5. Past(11)' => obj'.scheduled = spec'.version
    BY <1>1, <1>2, <1>3, <1>4 DEF Done
  <2> QED BY <2>1, <2>2, <2>3, <2>4, <2>5
<1>12. /\ Past(12)' => \/ management' = "Managed" /\ obj'.workflow = spec'.version
                       \/ management' = "Removed" /\ obj'.workflow = None
       /\ Past(13)' => obj'.grpc = spec'.tls
       /\ Past(14)' => obj'.mlmd = spec'.version
  <2>1. Past(12)' => \/ management' = "Managed" /\ obj'.workflow = spec'.version
                     \/ management' = "Removed" /\ obj'.workflow = None
    BY <1>1, <1>2, <1>3, <1>4 DEF Done
  <2>2. Past(13)' => obj'.grpc = spec'.tls
    BY <1>1, <1>2, <1>3, <1>4 DEF Done
  <2>3. Past(14)' => obj'.mlmd = spec'.version
    BY <1>1, <1>2, <1>3, <1>4 DEF Done
  <2> QED BY <2>1, <2>2, <2>3
<1> QED BY <1>5, <1>7, <1>8, <1>9, <1>10, <1>11, <1>12 DEF QuietInv, Done

\* Everything that does not put the name into the queue and is not a step of
\* Reconcile leaves alone what has been applied.
LEMMA DoneFrame ==
    ASSUME QuietInv, UNCHANGED <<spec, globalCA, management, obj, invalid, op, queued>>
    PROVE  QuietInv'
BY DEF QuietInv, OpIsCurrent, Done, Served, Past, Bundle

LEMMA QuietStep == RolloutInv /\ QuietInv /\ [Next]_vars => QuietInv'
<1> SUFFICES ASSUME RolloutInv, QuietInv, [Next]_vars, ~queued', spec'.supported
             PROVE  QuietInv'
  BY DEF QuietInv
<1>t. obj \in Obj /\ op \in Op /\ queued \in BOOLEAN
  BY TypeParts DEF RolloutInv
<1>a. ASSUME NEW k \in 1..14, NEW field, NEW value, Apply(Order[k], field, value)
      PROVE  /\ op.pc = Order[k] /\ ~queued /\ Advance /\ UNCHANGED <<spec, world>>
             /\ obj' = [obj EXCEPT ![field] = value]
  BY <1>a DEF Apply, Call, Fail
<1>1. CASE ExtractParams
  <2>1. UNCHANGED <<spec, world, obj>> /\ ~Fail
    BY <1>1 DEF ExtractParams, Fail
  <2>2. PICK plugin \in {APIServerPluginsJson} \cup PluginsAfterFailure :
            op' = [pc |-> Order[1], params |-> FromSpec(plugin), route |-> spec.route,
                   tls |-> spec.tls, trust |-> Bundle]
    BY <1>1, <2>1 DEF ExtractParams
  <2>3. op'.pc = "trust" /\ op'.params.version = spec.version /\ op'.route = spec.route
        /\ op'.tls = spec.tls /\ op'.trust = Bundle
    BY <2>2, OrderIs DEF FromSpec
  <2>4. spec' = spec /\ Bundle' = Bundle
    BY <2>1 DEF world, Bundle
  <2>5. \A n \in 1..14 : ~Past(n)'
    BY <2>3, OrderIs DEF Past
  <2>6. OpIsCurrent'
    BY <2>3, <2>4 DEF OpIsCurrent
  <2>7. Done'
    BY <2>5 DEF Done
  <2> QED BY <2>6, <2>7 DEF QuietInv
<1>s. spec' = spec => spec.supported
  OBVIOUS
<1>2. CASE WriteTrustedCA
  <2>1. CASE Apply(Order[1], "trusted", op.trust)
    <3>1. op.pc = Order[1] /\ ~queued /\ Advance /\ UNCHANGED <<spec, world>>
          /\ obj' = [obj EXCEPT !["trusted"] = op.trust]
      BY <1>a, <2>1
    <3> QED BY <1>s, <1>t, <3>1, DoneStep DEF Obj
  <2>2. CASE /\ op.trust = {} /\ op.pc = Order[1] /\ Advance
             /\ UNCHANGED <<spec, world, obj, queued>>
    BY <1>s, <1>t, <2>2, DoneStep
  <2> QED BY <1>2, <2>1, <2>2, OrderIs DEF WriteTrustedCA
<1>p. CASE Prerequisites
  <2>1. op.pc = Order[2] /\ ~queued /\ Advance /\ UNCHANGED <<spec, world, obj>>
    BY <1>p, OrderIs DEF Prerequisites, Fail
  <2> QED BY <1>s, <1>t, <2>1, DoneStep
<1>q. CASE ValidateManagedPipelines
  <2>1. op.pc = Order[3] /\ ~queued /\ UNCHANGED <<spec, world, obj>>
        /\ (Advance \/ (op' = Idle /\ invalid' = TRUE))
    BY <1>q, OrderIs DEF ValidateManagedPipelines
  <2>2. CASE Advance
    BY <1>s, <1>t, <2>1, <2>2, DoneStep
  <2>3. CASE op' = Idle /\ invalid' = TRUE
    <3>1. op'.pc = "idle" /\ OpIsCurrent'
      BY <2>3, IdleType DEF OpIsCurrent
    <3>2. \A n \in 4..14 : ~Past(n)'
      BY <2>3, <3>1, OrderIs DEF Past
    <3>3. Past(1) /\ Done
      BY <1>s, <2>1 DEF Past, QuietInv
    <3>4. Bundle' = Bundle /\ obj' = obj
      BY <2>1 DEF world, Bundle
    <3>5. Done'
      BY <3>2, <3>3, <3>4 DEF Done
    <3> QED BY <3>1, <3>5 DEF QuietInv
  <2> QED BY <2>1, <2>2, <2>3
<1>3. CASE ApplyServerConfig
  <2>1. op.pc = Order[4] /\ ~queued /\ Advance /\ UNCHANGED <<spec, world>>
        /\ obj' = [obj EXCEPT !["server"] = op.params]
    BY <1>3, OrderIs DEF ApplyServerConfig, Call, Fail
  <2> QED BY <1>s, <1>t, <2>1, DoneStep DEF Obj
<1>4. CASE ApplyDeployment
  <2>1. op.pc = Order[5] /\ ~queued /\ Advance /\ UNCHANGED <<spec, world>>
        /\ obj' = [obj EXCEPT !["template"] = op.params]
    BY <1>4, OrderIs DEF ApplyDeployment, Call, Fail
  <2> QED BY <1>s, <1>t, <2>1, DoneStep DEF Obj
<1>5. CASE ApplyRoles
  <2>1. op.pc = Order[6] /\ ~queued /\ Advance /\ UNCHANGED <<spec, world>>
        /\ obj' = [obj EXCEPT !["grant"] = (op.params.plugin # "none")]
    BY <1>5, OrderIs DEF ApplyRoles, Apply, Call, Fail
  <2> QED BY <1>s, <1>t, <2>1, DoneStep DEF Obj
<1>6. CASE ApplyService
  <2>1. op.pc = Order[7] /\ ~queued /\ Advance /\ UNCHANGED <<spec, world>>
        /\ obj' = [obj EXCEPT !["service"] = TRUE]
    BY <1>6, OrderIs DEF ApplyService, Apply, Call, Fail
  <2>2. Served'
    BY <1>t, <2>1 DEF Obj, Served
  <2>3. /\ obj'.trusted = obj.trusted /\ obj'.server = obj.server
        /\ obj'.template = obj.template /\ obj'.grant = obj.grant /\ obj'.route = obj.route
        /\ obj'.sample = obj.sample /\ obj'.agent = obj.agent
        /\ obj'.scheduled = obj.scheduled /\ obj'.workflow = obj.workflow
        /\ obj'.grpc = obj.grpc /\ obj'.mlmd = obj.mlmd
    BY <1>t, <2>1 DEF Obj
  <2>4. op.pc = Order[7] /\ ~queued /\ Advance /\ UNCHANGED <<spec, world>>
    BY <2>1
  <2> QED BY <1>s, <2>2, <2>3, <2>4, DoneStep
<1>7. CASE ApplyRoute
  <2>1. op.pc = Order[8] /\ ~queued /\ Advance /\ UNCHANGED <<spec, world>>
        /\ obj' = [obj EXCEPT !["route"] = op.route]
    BY <1>7, OrderIs DEF ApplyRoute, Apply, Call, Fail
  <2> QED BY <1>s, <1>t, <2>1, DoneStep DEF Obj
<1>8. CASE ApplySampleConfig
  <2>1. op.pc = Order[9] /\ ~queued /\ Advance /\ UNCHANGED <<spec, world>>
        /\ obj' = [obj EXCEPT !["sample"] = op.params.version]
    BY <1>8, OrderIs DEF ApplySampleConfig, Apply, Call, Fail
  <2> QED BY <1>s, <1>t, <2>1, DoneStep DEF Obj
<1>9. CASE ReconcilePersistenceAgent
  <2>1. op.pc = Order[10] /\ ~queued /\ Advance /\ UNCHANGED <<spec, world>>
        /\ obj' = [obj EXCEPT !["agent"] = op.params.version]
    BY <1>9, OrderIs DEF ReconcilePersistenceAgent, Apply, Call, Fail
  <2> QED BY <1>s, <1>t, <2>1, DoneStep DEF Obj
<1>10. CASE ReconcileScheduledWorkflow
  <2>1. op.pc = Order[11] /\ ~queued /\ Advance /\ UNCHANGED <<spec, world>>
        /\ obj' = [obj EXCEPT !["scheduled"] = op.params.version]
    BY <1>10, OrderIs DEF ReconcileScheduledWorkflow, Apply, Call, Fail
  <2> QED BY <1>s, <1>t, <2>1, DoneStep DEF Obj
<1>11. CASE ReconcileWorkflowController
  <2>1. op.pc = Order[12] /\ ~queued /\ Advance /\ UNCHANGED <<spec, world>>
        /\ \/ management = "Managed" /\ obj' = [obj EXCEPT !["workflow"] = op.params.version]
           \/ management = "Removed" /\ obj' = [obj EXCEPT !["workflow"] = None]
    BY <1>11, OrderIs DEF ReconcileWorkflowController, Apply, Call, Fail
  <2> QED BY <1>s, <1>t, <2>1, DoneStep DEF Obj
<1>12. CASE ApplyGRPCService
  <2>1. op.pc = Order[13] /\ ~queued /\ Advance /\ UNCHANGED <<spec, world>>
        /\ obj' = [obj EXCEPT !["grpc"] = op.tls]
    BY <1>12, OrderIs DEF ApplyGRPCService, Apply, Call, Fail
  <2> QED BY <1>s, <1>t, <2>1, DoneStep DEF Obj
<1>13. CASE ApplyMLMD
  <2>1. op.pc = Order[14] /\ ~queued /\ Advance /\ UNCHANGED <<spec, world>>
        /\ obj' = [obj EXCEPT !["mlmd"] = op.params.version]
    BY <1>13, OrderIs DEF ApplyMLMD, Apply, Call, Fail
  <2> QED BY <1>s, <1>t, <2>1, DoneStep DEF Obj
<1>14. CASE CreatePod \/ PodGetsReady \/ PodDies \/ IssueCert \/ UNCHANGED vars
  <2>1. UNCHANGED <<spec, globalCA, management, obj, invalid, op, queued>>
    BY <1>14 DEF CreatePod, PodGetsReady, PodDies, IssueCert, vars, world
  <2> QED BY <2>1, DoneFrame
<1>15. CASE WorldChange
  <2>1. UNCHANGED <<spec, globalCA, management, obj, invalid, op, queued>>
    BY <1>15 DEF WorldChange
  <2> QED BY <2>1, DoneFrame
<1>u. CASE UnsupportedVersion
  BY <1>u DEF UnsupportedVersion
<1>16. CASE ObserveAvailable \/ Edit \/ UserDeletes \/ Crash \/ Resync
  BY <1>16 DEF ObserveAvailable, Edit, UserDeletes, Crash, Resync
<1> QED
  BY <1>1, <1>2, <1>p, <1>q, <1>3, <1>4, <1>5, <1>6, <1>7, <1>8, <1>9, <1>10, <1>11, <1>12,
     <1>13, <1>14, <1>15, <1>u, <1>16 DEF Next, Reconcile

\* With an empty queue and no Reconcile running, the CA bundle of a supported DSPA is
\* that of its surroundings and all that the operator applies is that of the spec as
\* it is, whatever failed, crashed, was edited or deleted at any step before, unless
\* the managed pipelines were found invalid: the safety half of RolloutSettles and
\* ComponentsSettle (the order of Reconcile, its early returns and requeues).
THEOREM QuietOperatorIsDone == Spec => []QuietIsApplied
<1>1. QuietInv => QuietIsApplied
  <2> SUFFICES ASSUME QuietInv, op.pc = "idle", ~queued, spec.supported
               PROVE  /\ Bundle # {} => obj.trusted = Bundle
                      /\ ~invalid =>
                          /\ obj.server # None /\ obj.server.version = spec.version
                          /\ obj.template = obj.server
                          /\ obj.grant = (obj.template.plugin # "none")
                          /\ obj.service /\ obj.grpc = spec.tls /\ obj.route = spec.route
                          /\ {obj.sample, obj.agent, obj.scheduled, obj.mlmd} = {spec.version}
                          /\ \/ management = "Managed" /\ obj.workflow = spec.version
                             \/ management = "Removed" /\ obj.workflow = None
    BY DEF QuietIsApplied
  <2>1. Done /\ Past(1) /\ (~invalid => \A n \in 1..14 : Past(n))
    BY DEF QuietInv, Past
  <2> QED BY <2>1 DEF Done, Served
<1> QED BY <1>1, RolloutInit, RolloutStep, QuietInit, QuietStep, PTL DEF Spec

=============================================================================
