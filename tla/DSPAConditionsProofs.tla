------------------------ MODULE DSPAConditionsProofs ------------------------
(***************************************************************************)
(* What a stored set of conditions may say, for any surroundings, any number *)
(* of changes and faults and any clock.                                      *)
(***************************************************************************)
EXTENDS DSPAConditions, TLAPS

\* A condition that a step of Reconcile sets.
Found == [status : {"True", "False", "Unknown"}, reason : Reasons \cup {"none"},
          since : Nat]

\* What Reconcile holds is never "absent": preservePostValidationConditions
\* skips the types its copy of the DSPA does not have.
FoundOut == status \in [Types -> Found \cup {EmptyCondition}]

IInv == TypeOK /\ FoundOut /\ StoredReadyIsBacked

\* A condition that is found is one that can be stored, and is not the empty one.
LEMMA FoundIsStorable ==
    \A c \in Found : c \in Condition /\ c # EmptyCondition /\ c.status # "absent"
<1> SUFFICES ASSUME NEW c \in Found
             PROVE  c \in Condition /\ c # EmptyCondition /\ c.status # "absent"
  OBVIOUS
<1>1. c.status \in {"True", "False", "Unknown"}
  BY DEF Found
<1>2. EmptyCondition.status = ""
  BY DEF EmptyCondition
<1>3. c \in Condition
  BY DEF Found, Condition
<1> QED BY <1>1, <1>2, <1>3

\* The constructors of dspa_status.go make such conditions.
LEMMA Built ==
    ASSUME clock \in Nat
    PROVE  /\ \A r \in Reasons : BuildTrueCondition(r) \in Found
           /\ \A r \in Reasons : BuildFalseCondition(r) \in Found
           /\ BuildUnknownCondition \in Found
BY DEF BuildTrueCondition, BuildFalseCondition, BuildUnknownCondition, Found, Reasons

\* evaluateCondition returns one, or the empty condition.
LEMMA Evaluated ==
    ASSUME clock \in Nat, NEW v \in View
    PROVE  EvaluateCondition(v) \in Found \cup {EmptyCondition}
<1>1. {"ComponentDeploymentNotFound", "MinimumReplicasAvailable", "FailingToDeploy",
       "Deploying"} \subseteq Reasons
  BY DEF Reasons
<1>2. v.found \in {"yes", "no", "error"}
  BY DEF View
<1>3. CASE v.found = "no"
  BY <1>1, <1>3, Built DEF EvaluateCondition
<1>4. CASE v.found = "error"
  BY <1>4 DEF EvaluateCondition
<1>5. CASE v.found = "yes" /\ v.scaledDown
  BY <1>1, <1>5, Built DEF EvaluateCondition
<1>6. CASE v.found = "yes" /\ ~v.scaledDown /\ v.available
  BY <1>1, <1>6, Built DEF EvaluateCondition
<1>7. CASE v.found = "yes" /\ ~v.scaledDown /\ ~v.available
  BY <1>1, <1>7, Built DEF EvaluateCondition
<1> QED BY <1>2, <1>3, <1>4, <1>5, <1>6, <1>7

\* CrReady is a condition, and true only if nothing blocks it.
LEMMA CrReadyType ==
    ASSUME TypeOK
    PROVE  /\ CrReady \in Found
           /\ CrReady.status = "True" => \A t \in Types : ~Blocking(status[t])
<1>1. clock \in Nat /\ override \in {"nil", "UnsupportedVersion", "FailingToDeploy"}
  BY DEF TypeOK
<1>2. CASE override # "nil"
  BY <1>1, <1>2 DEF CrReady, BuildFalseCondition, Found, Reasons
<1>3. CASE override = "nil"
  BY <1>1, <1>3 DEF CrReady, Found, Reasons
<1> QED BY <1>2, <1>3

\* Keeping the LastTransitionTime changes neither status nor reason, gives two
\* conditions of the same status the same time, and leaves that of a new status.
LEMMA Kept ==
    ASSUME NEW c \in Found, NEW prev \in Condition
    PROVE  LET k == KeepTransitionTime(c, prev)
           IN  /\ k \in Found
               /\ k.status = c.status /\ k.reason = c.reason
               /\ k.status = prev.status => k.since = prev.since
               /\ k.status # prev.status => k.since = c.since
BY DEF KeepTransitionTime, Found, Condition

\* What updateStatus writes, when the schema accepts it.
LEMMA Written ==
    ASSUME TypeOK, FoundOut, NEW prev \in Conditions, Valid(GetConditions(prev))
    PROVE  LET g == GetConditions(prev)
           IN  /\ g \in Conditions
               /\ \A t \in Types : /\ g[t].status = status[t].status
                                   /\ g[t].reason = status[t].reason
                                   /\ status[t] \in Found
               /\ g["CrReady"].status = CrReady.status
               /\ \A t \in Types \cup {"CrReady"} :
                     g[t].status = prev[t].status => g[t].since = prev[t].since
               /\ \A t \in Types :
                     g[t].status # prev[t].status => g[t].since = status[t].since
               /\ g["CrReady"].status # prev["CrReady"].status
                     => g["CrReady"].since = CrReady.since
<1> DEFINE all == Types \cup {"CrReady"}
           g == GetConditions(prev)
           c(t) == IF t = "CrReady" THEN CrReady ELSE status[t]
<1>0. "CrReady" \notin Types
  BY ConstantsOK DEF Types, PrereqTypes, ComponentTypes, AllComponents
<1>1. g = [t \in all |-> KeepTransitionTime(c(t), prev[t])]
  BY DEF GetConditions
<1>2. \A t \in all : prev[t] \in Condition /\ prev[t].status # ""
  <2>1. \A t \in all : prev[t] \in Condition
    BY DEF Conditions
  <2> QED BY <2>1 DEF Condition
<1>3. ASSUME NEW t \in all PROVE c(t) \in Found
  <2>1. CASE t = "CrReady"
    BY <2>1, CrReadyType
  <2>2. CASE t # "CrReady" /\ status[t] = EmptyCondition
    <3>1. EmptyCondition.status = ""
      BY DEF EmptyCondition
    <3>2. KeepTransitionTime(status[t], prev[t]) = EmptyCondition
      BY <1>2, <2>2, <3>1 DEF KeepTransitionTime
    <3>3. g[t] = EmptyCondition
      BY <1>1, <2>2, <3>2
    <3> QED BY <1>1, <3>3 DEF Valid
  <2>3. CASE t # "CrReady" /\ status[t] # EmptyCondition
    BY <2>3 DEF FoundOut
  <2> QED BY <2>1, <2>2, <2>3
<1>7. \A t \in all : g[t] = KeepTransitionTime(c(t), prev[t])
  BY <1>1
<1> HIDE DEF c, g
<1>4. ASSUME NEW t \in all
      PROVE  /\ g[t] \in Found
             /\ g[t].status = c(t).status /\ g[t].reason = c(t).reason
             /\ g[t].status = prev[t].status => g[t].since = prev[t].since
             /\ g[t].status # prev[t].status => g[t].since = c(t).since
  <2>1. c(t) \in Found
    BY <1>3
  <2>2. prev[t] \in Condition
    BY <1>2
  <2> QED BY <1>7, <2>1, <2>2, Kept
<1>5. g \in Conditions
  BY <1>1, <1>4, FoundIsStorable DEF Conditions
<1>6. /\ all = Types \cup {"CrReady"} /\ g = GetConditions(prev)
      /\ \A t \in Types : c(t) = status[t]
      /\ c("CrReady") = CrReady
  BY <1>0 DEF c, g
<1> QED BY <1>3, <1>4, <1>5, <1>6

-----------------------------------------------------------------------------
\* The invariant holds initially.
LEMMA InitIInv == Init => IInv
<1> SUFFICES ASSUME Init PROVE IInv
  OBVIOUS
<1>1. NoCondition \in Condition
  BY DEF NoCondition, Condition
<1>2. BuildUnknownCondition \in Found
  BY Built DEF Init
<1>3. FoundOut
  BY <1>2 DEF Init, FoundOut
<1>4. obj \in Conditions
  BY <1>1 DEF Init, Conditions
<1>5. status \in [Types -> Condition \cup {EmptyCondition}]
  BY <1>3, FoundIsStorable DEF FoundOut
<1>6. TypeOK
  BY <1>4, <1>5 DEF Init, TypeOK
<1>7. StoredReadyIsBacked
  BY DEF Init, StoredReadyIsBacked, NoCondition
<1> QED BY <1>3, <1>6, <1>7 DEF IInv

Steps == {"idle", "params", "deploy", "health", "common", "webhook", "managed",
          "publish", "status"} \cup ComponentTypes

\* A step that writes nothing keeps the invariant if the conditions it holds are
\* found out.
LEMMA QuietStep ==
    ASSUME IInv, UNCHANGED <<obj, cache, queued, world, clock, mem, began>>,
           pc' \in Steps, status' \in [Types -> Found \cup {EmptyCondition}],
           override' \in {"nil", "UnsupportedVersion", "FailingToDeploy"},
           requeue' \in BOOLEAN, gauge' \in {"none", "0", "1"},
           changes' \in Nat, faults' \in Nat
    PROVE  IInv'
<1>1. FoundOut'
  BY DEF FoundOut
<1>2. status' \in [Types -> Condition \cup {EmptyCondition}]
  BY FoundIsStorable
<1>3. TypeOK'
  BY <1>2 DEF IInv, TypeOK, Steps
<1>4. StoredReadyIsBacked'
  BY DEF IInv, StoredReadyIsBacked
<1> QED BY <1>1, <1>3, <1>4 DEF IInv

\* So does a step that fails with such conditions.
LEMMA FailingWithStep ==
    ASSUME IInv, NEW s \in [Types -> Found \cup {EmptyCondition}], FailingWith(s), Quiet
    PROVE  IInv'
BY QuietStep DEF FailingWith, Return, Quiet, IInv, TypeOK, Steps

\* ... in particular one that says so on one condition, or on none.
LEMMA FailingStep ==
    ASSUME IInv, NEW t \in Types \cup {"none"}, Failing(t), Quiet
    PROVE  IInv'
<1>1. BuildFalseCondition("FailingToDeploy") \in Found
  BY Built DEF IInv, TypeOK, Reasons
<1> DEFINE s == IF t = "none" THEN status
                ELSE Set(t, BuildFalseCondition("FailingToDeploy"))
<1>2. s \in [Types -> Found \cup {EmptyCondition}]
  BY <1>1 DEF Set, IInv, FoundOut
<1>3. FailingWith(s)
  BY DEF Failing
<1> HIDE DEF s
<1> QED BY <1>2, <1>3, FailingWithStep

\* And one that goes on or returns with conditions that are found out.
LEMMA OnwardStep ==
    ASSUME IInv, Quiet, UNCHANGED faults,
           NEW s \in [Types -> Found \cup {EmptyCondition}], NEW p \in Steps,
           NEW b \in BOOLEAN, Goto(p, s) \/ Return(s, b)
    PROVE  IInv'
BY QuietStep DEF Goto, Return, Quiet, IInv, TypeOK, Steps

\* The reasons the steps below use are reasons.
LEMMA ReasonNames ==
    /\ Types \subseteq Reasons
    /\ {"FailingToDeploy", "UnsupportedVersion", "MinimumReplicasAvailable",
        "NotApplicable", "ManagedPipelineInvalid", "ManagedPipelinesFetchError"}
          \subseteq Reasons
    /\ {"DatabaseAvailable", "ObjectStoreAvailable", "WebhookReady",
        "ManagedPipelineValid"} \subseteq Types
BY DEF Reasons, Types, PrereqTypes

\* Components are named by the types they set, and by the steps that set them.
LEMMA ComponentNames ==
    /\ Len(Components) \in Nat
    /\ 1 <= Len(Components)
    /\ \A i \in 1..Len(Components) : Components[i] \in ComponentTypes
    /\ ComponentTypes \subseteq Types /\ ComponentTypes \subseteq Steps
<1>1. Len(Components) \in Nat /\ Len(Components) # 0
  BY ConstantsOK
<1>2. \A i \in 1..Len(Components) : Components[i] \in ComponentTypes
  BY DEF ComponentTypes
<1>3. ComponentTypes \subseteq Types /\ ComponentTypes \subseteq Steps
  BY DEF Types, Steps
<1> QED BY <1>1, <1>2, <1>3

\* Whatever Deployment a condition is evaluated on is one the caches have a view of.
LEMMA EvaluatedType ==
    ASSUME NEW w \in World, NEW t \in ComponentTypes
    PROVE  w.view[EvaluatedOn(t)] \in View
<1>1. t \in AllComponents
  BY ConstantsOK DEF ComponentTypes
<1>2. EvaluatedOn(t) \in AllComponents
  BY <1>1 DEF EvaluatedOn, AllComponents
<1> QED BY <1>2 DEF World

\* A stored condition that is there is like one that was found.
LEMMA CarriedOver ==
    ASSUME NEW c \in Condition, c.status # "absent"
    PROVE  c \in Found
BY DEF Found, Condition

\* Every step keeps the invariant.
LEMMA NextIInv == IInv /\ [Next]_vars => IInv'
<1> SUFFICES ASSUME IInv, [Next]_vars PROVE IInv'
  OBVIOUS
<1>0. clock \in Nat /\ world \in Worlds /\ faults \in Nat /\ changes \in Nat
  BY DEF IInv, TypeOK
<1>a. world \in World
  BY <1>0, ConstantsOK
<1>b. status \in [Types -> Found \cup {EmptyCondition}]
  BY DEF IInv, FoundOut
<1>c. /\ \A r \in Reasons : BuildTrueCondition(r) \in Found
      /\ \A r \in Reasons : BuildFalseCondition(r) \in Found
      /\ BuildUnknownCondition \in Found
  BY <1>0, Built
<1>1. CASE Get
  <2>1. status' \in [Types -> Found \cup {EmptyCondition}]
    BY <1>1, <1>c DEF Get
  <2>2. FoundOut'
    BY <2>1 DEF FoundOut
  <2>3. status' \in [Types -> Condition \cup {EmptyCondition}]
    BY <2>1, FoundIsStorable
  <2>4. TypeOK'
    BY <1>1, <2>3 DEF Get, IInv, TypeOK
  <2>5. StoredReadyIsBacked'
    BY <1>1 DEF Get, IInv, StoredReadyIsBacked
  <2> QED BY <2>2, <2>4, <2>5 DEF IInv
<1>2. CASE Params
  <2>0. CASE Failing("none")
    BY <1>2, <2>0, FailingStep DEF Params
  <2>1. CASE world.params = "ok" /\ Goto("deploy", status) /\ UNCHANGED faults
    BY <1>2, <1>b, <2>1, OnwardStep DEF Params, Steps
  <2>2. CASE world.params # "ok" /\ ~Failing("none")
    <3>1. /\ override' \in {"UnsupportedVersion", "FailingToDeploy"}
          /\ pc' = "publish" /\ requeue' \in BOOLEAN
          /\ UNCHANGED <<mem, began, faults>> /\ Quiet
      BY <1>2, <2>2 DEF Params
    <3>2. \E reported \in SUBSET Types :
             status' = [t \in Types |-> IF t \in reported
                                         THEN BuildFalseCondition(override')
                                         ELSE status[t]]
      <4> DEFINE R == IF world.params = "unsupported"
                      THEN (PrereqTypes \cup ComponentTypes) \ {"WorkflowControllerReady"}
                      ELSE ComponentTypes \cap {"APIServerReady"}
      <4>1. R \in SUBSET Types
        BY DEF Types
      <4>2. status' = [t \in Types |-> IF t \in R THEN BuildFalseCondition(override')
                                                  ELSE status[t]]
        BY <1>2, <2>2 DEF Params
      <4> QED BY <4>1, <4>2
    <3>3. BuildFalseCondition(override') \in Found
      BY <1>c, <3>1, ReasonNames
    <3>4. status' \in [Types -> Found \cup {EmptyCondition}]
      BY <1>b, <3>2, <3>3
    <3> QED BY <3>1, <3>4, QuietStep DEF Quiet, Steps, IInv, TypeOK
  <2> QED BY <1>2, <2>0, <2>1, <2>2 DEF Params
<1>3. CASE Deploy
  <2> DEFINE A(c) == [Set("DatabaseAvailable", BuildTrueCondition("DatabaseAvailable"))
                         EXCEPT !["ObjectStoreAvailable"] = c]
             failed == BuildFalseCondition("FailingToDeploy")
             applied == BuildTrueCondition("ObjectStoreAvailable")
  <2>1. ASSUME NEW c \in Found PROVE A(c) \in [Types -> Found \cup {EmptyCondition}]
    BY <1>b, <1>c, ReasonNames DEF Set
  <2>2. failed \in Found /\ applied \in Found
    BY <1>c, ReasonNames
  <2>3. \/ Failing("DatabaseAvailable") \/ FailingWith(A(failed))
        \/ Goto("health", A(applied)) /\ UNCHANGED faults
    BY <1>3 DEF Deploy
  <2>4. Quiet
    BY <1>3 DEF Deploy
  <2> HIDE DEF A, failed, applied
  <2>5. CASE Failing("DatabaseAvailable")
    BY <2>4, <2>5, FailingStep, ReasonNames
  <2>6. CASE FailingWith(A(failed))
    BY <2>1, <2>2, <2>4, <2>6, FailingWithStep
  <2>7. CASE Goto("health", A(applied)) /\ UNCHANGED faults
    BY <2>1, <2>2, <2>4, <2>7, OnwardStep DEF Steps
  <2> QED BY <2>3, <2>5, <2>6, <2>7
<1>4. CASE HealthCheck
  <2> DEFINE s == [t \in Types |->
                    IF t \notin PrereqTypes THEN status[t]
                    ELSE IF t \in world.up THEN BuildTrueCondition(t)
                    ELSE BuildFalseCondition("FailingToDeploy")]
  <2>1. s \in [Types -> Found \cup {EmptyCondition}]
    BY <1>b, <1>c, ReasonNames
  <2>2. Goto("common", s) \/ Return(s, TRUE)
    BY <1>4 DEF HealthCheck
  <2> HIDE DEF s
  <2>3. Quiet /\ UNCHANGED faults
    BY <1>4 DEF HealthCheck
  <2> QED BY <2>1, <2>2, <2>3, OnwardStep DEF Steps
<1>5. CASE Common
  <2>1. CASE Failing("none")
    BY <1>5, <2>1, FailingStep DEF Common
  <2>2. CASE Goto("webhook", status) /\ UNCHANGED faults
    BY <1>5, <1>b, <2>2, OnwardStep DEF Common, Steps
  <2> QED BY <1>5, <2>1, <2>2 DEF Common
<1>6. CASE Webhook
  <2>1. CASE Failing("WebhookReady")
    BY <1>6, <2>1, FailingStep, ReasonNames DEF Webhook
  <2>2. ASSUME NEW c \in Found PROVE Set("WebhookReady", c)
                                        \in [Types -> Found \cup {EmptyCondition}]
    BY <1>b, <2>2 DEF Set
  <2>3. CASE /\ Return(Set("WebhookReady",
                           BuildFalseCondition("MinimumReplicasAvailable")), TRUE)
             /\ UNCHANGED faults
    BY <1>6, <1>c, <2>2, <2>3, OnwardStep, ReasonNames DEF Webhook, Steps
  <2>4. CASE /\ Goto("managed",
                     Set("WebhookReady", IF world.webhook = "ready"
                                         THEN BuildTrueCondition("WebhookReady")
                                         ELSE BuildFalseCondition("NotApplicable")))
             /\ UNCHANGED faults
    <3> DEFINE c == IF world.webhook = "ready" THEN BuildTrueCondition("WebhookReady")
                                            ELSE BuildFalseCondition("NotApplicable")
    <3>1. c \in Found
      BY <1>c, ReasonNames
    <3>2. Goto("managed", Set("WebhookReady", c)) /\ UNCHANGED faults /\ Quiet
      BY <1>6, <2>4 DEF Webhook
    <3> HIDE DEF c
    <3> QED BY <2>2, <3>1, <3>2, OnwardStep DEF Steps
  <2> QED BY <1>6, <2>1, <2>3, <2>4 DEF Webhook
<1>7. CASE ManagedPipelines
  <2> DEFINE c == CASE world.manifest = "valid" ->
                            BuildTrueCondition("ManagedPipelineValid")
                      [] world.manifest = "notApplicable" ->
                            BuildFalseCondition("NotApplicable")
                      [] world.manifest = "transient" ->
                            BuildFalseCondition("ManagedPipelinesFetchError")
                      [] world.manifest = "permanent" ->
                            BuildFalseCondition("ManagedPipelineInvalid")
             s == Set("ManagedPipelineValid", c)
  <2>1. world.manifest \in {"notApplicable", "valid", "permanent", "transient"}
    BY <1>a DEF World
  <2>2. c \in Found
    BY <1>c, <2>1, ReasonNames
  <2> HIDE DEF c
  <2>3. s \in [Types -> Found \cup {EmptyCondition}]
    BY <1>b, <2>2 DEF Set
  <2>4. Quiet /\ UNCHANGED faults
    BY <1>7 DEF ManagedPipelines
  <2>5. CASE world.manifest = "permanent"
    <3>1. Return(PreservePostValidationConditions(s), FALSE)
      BY <1>7, <2>5 DEF ManagedPipelines, c
    <3> HIDE DEF s
    <3>2. ASSUME NEW t \in Types, mem[t].status # "absent" PROVE mem[t] \in Found
      <4>1. mem[t] \in Condition
        BY DEF IInv, TypeOK, Conditions
      <4> QED BY <3>2, <4>1, CarriedOver
    <3>3. PreservePostValidationConditions(s) \in [Types -> Found \cup {EmptyCondition}]
      BY <2>3, <3>2 DEF PreservePostValidationConditions
    <3> QED BY <2>4, <3>1, <3>3, OnwardStep DEF Steps
  <2>6. CASE world.manifest # "permanent"
    <3>1. /\ pc' = Components[1] /\ status' = s /\ requeue' \in BOOLEAN
          /\ UNCHANGED <<mem, began, override>>
      BY <1>7, <2>6 DEF ManagedPipelines, c
    <3> HIDE DEF s
    <3>2. pc' \in Steps
      BY <3>1, ComponentNames
    <3> QED BY <2>3, <2>4, <3>1, <3>2, QuietStep DEF Quiet, IInv, TypeOK
  <2> QED BY <2>5, <2>6
<1>8. ASSUME NEW i \in 1..Len(Components), Component(i) PROVE IInv'
  <2> DEFINE t == Components[i]
             c == IF t \in world.disabled THEN BuildFalseCondition("NotApplicable")
                                          ELSE EvaluateCondition(world.view[EvaluatedOn(t)])
             p == IF i = Len(Components) THEN "publish" ELSE Components[i + 1]
  <2>1. t \in Types /\ t \in ComponentTypes
    BY ComponentNames
  <2>2. world.view[EvaluatedOn(t)] \in View
    BY <1>a, <2>1, EvaluatedType
  <2>3. c \in Found \cup {EmptyCondition}
    BY <1>0, <1>c, <2>2, Evaluated, ReasonNames
  <2>4. p \in Steps
    BY ComponentNames DEF Steps
  <2>5. Failing(t) \/ (Goto(p, Set(t, c)) /\ UNCHANGED faults)
    BY <1>8 DEF Component
  <2>6. Quiet
    BY <1>8 DEF Component
  <2> HIDE DEF t, c, p
  <2>7. Set(t, c) \in [Types -> Found \cup {EmptyCondition}]
    BY <1>b, <2>3 DEF Set
  <2> QED BY <2>1, <2>4, <2>5, <2>6, <2>7, FailingStep, OnwardStep
<1>9. CASE PublishMetrics
  BY <1>9, <1>b, QuietStep DEF PublishMetrics, Goto, Steps, IInv, TypeOK
<1>10. CASE UpdateStatus
  <2>1. FoundOut'
    BY <1>10 DEF UpdateStatus, IInv, FoundOut
  <2>2. CASE obj' = obj
    <3>1. TypeOK'
      BY <1>10, <2>2 DEF UpdateStatus, IInv, TypeOK
    <3>2. StoredReadyIsBacked'
      BY <2>2 DEF IInv, StoredReadyIsBacked
    <3> QED BY <2>1, <3>1, <3>2 DEF IInv
  <2>3. CASE obj' # obj
    <3>1. obj' = GetConditions(cache) /\ Valid(GetConditions(cache))
      BY <1>10, <2>3 DEF UpdateStatus
    <3>2. cache \in Conditions /\ TypeOK /\ FoundOut
      BY DEF IInv, TypeOK
    <3>3. obj' \in Conditions
      BY <3>1, <3>2, Written
    <3>4. TypeOK'
      BY <1>10, <3>3 DEF UpdateStatus, IInv, TypeOK
    <3>5. StoredReadyIsBacked'
      <4> SUFFICES ASSUME obj'["CrReady"].status = "True", NEW t \in Types
                   PROVE  \/ obj'[t].status = "True"
                          \/ isNonBlockingReason(obj'[t].reason)
        BY DEF StoredReadyIsBacked, isNonBlockingReason
      <4>1. CrReady.status = "True"
        BY <3>1, <3>2, Written
      <4>2. ~Blocking(status[t])
        BY <3>2, <4>1, CrReadyType
      <4>3. /\ obj'[t].status = status[t].status /\ obj'[t].reason = status[t].reason
            /\ status[t] \in Found
        BY <3>1, <3>2, Written
      <4>4. status[t].status \in {"True", "False", "Unknown"}
        BY <4>3 DEF Found
      <4> QED BY <4>2, <4>3, <4>4 DEF Blocking
    <3> QED BY <2>1, <3>4, <3>5 DEF IInv
  <2> QED BY <2>2, <2>3
<1>11. CASE WorldChange
  BY <1>11 DEF WorldChange, local, IInv, TypeOK, FoundOut, StoredReadyIsBacked
<1>12. CASE Deliver
  BY <1>12 DEF Deliver, local, IInv, TypeOK, FoundOut, StoredReadyIsBacked
<1>13. CASE Resync
  BY <1>13 DEF Resync, local, IInv, TypeOK, FoundOut, StoredReadyIsBacked
<1>14. CASE Tick
  BY <1>14 DEF Tick, local, IInv, TypeOK, FoundOut, StoredReadyIsBacked
<1>15. CASE UNCHANGED vars
  BY <1>15 DEF vars, IInv, TypeOK, FoundOut, StoredReadyIsBacked
<1> QED BY <1>1, <1>2, <1>3, <1>4, <1>5, <1>6, <1>7, <1>8, <1>9, <1>10, <1>11, <1>12,
           <1>13, <1>14, <1>15 DEF Next, Worker

-----------------------------------------------------------------------------
\* The variables keep their types, and what is stored fits the CRD's schema.
THEOREM ConditionsTypeCorrect == Spec => []TypeOK
<1>1. IInv => TypeOK
  BY DEF IInv
<1> QED BY <1>1, InitIInv, NextIInv, PTL DEF Spec

\* A stored CrReady=True is backed by every condition stored beside it.
THEOREM StoredReadyBacked == Spec => []StoredReadyIsBacked
<1>1. IInv => StoredReadyIsBacked
  BY DEF IInv
<1> QED BY <1>1, InitIInv, NextIInv, PTL DEF Spec

\* The LastTransitionTime of a condition moves only when its status does.
THEOREM TransitionTimesStable == Spec => StableSince
<1> DEFINE A == \A t \in Types \cup {"CrReady"} :
                   obj'[t].status = obj[t].status => obj'[t].since = obj[t].since
<1>1. IInv /\ [Next]_vars => [A]_vars
  <2> SUFFICES ASSUME IInv, Next PROVE A
    OBVIOUS
  <2>1. CASE obj' = obj
    BY <2>1
  <2>2. CASE obj' # obj
    <3>1. UpdateStatus
      BY <2>2 DEF Next, Worker, Get, Params, Deploy, HealthCheck, Common, Webhook,
                  ManagedPipelines, Component, PublishMetrics, Quiet, WorldChange,
                  Deliver, Resync, Tick
    <3>2. obj = cache /\ obj' = GetConditions(cache) /\ Valid(GetConditions(cache))
      BY <2>2, <3>1 DEF UpdateStatus
    <3>3. cache \in Conditions /\ TypeOK /\ FoundOut
      BY DEF IInv, TypeOK
    <3> QED BY <3>2, <3>3, Written
  <2> QED BY <2>1, <2>2
<1>2. StableSince <=> [][A]_vars
  BY PTL DEF StableSince
<1> QED BY <1>1, <1>2, InitIInv, NextIInv, PTL DEF Spec

-----------------------------------------------------------------------------
(* Transition times: what a reconcile found out, it found out itself. *)

\* A condition built since this reconcile began, or the empty one.
Recent(c) == c = EmptyCondition \/ c.since >= began

Ending == {"publish", "status", "idle"}

\* All conditions Reconcile holds are recent, but for those a blocked reconcile
\* has carried over, and being blocked is the end of it.
Recently ==
    /\ began <= clock
    /\ \A t \in Types : Recent(status[t]) \/ (Blocked /\ t \in ComponentTypes)
    /\ Blocked => pc \in Ending

\* The verdict on managed pipelines is nobody else's condition.
LEMMA VerdictIsApart ==
    "ManagedPipelineValid" \in Types /\ "ManagedPipelineValid" \notin ComponentTypes
    /\ "ManagedPipelineValid" \notin PrereqTypes /\ PrereqTypes \subseteq Types
BY ConstantsOK DEF Types, PrereqTypes, ComponentTypes, AllComponents

\* The constructors stamp the time.
LEMMA Stamped ==
    \A r : BuildTrueCondition(r).since = clock /\ BuildFalseCondition(r).since = clock
BY DEF BuildTrueCondition, BuildFalseCondition

\* So do those evaluateCondition uses.
LEMMA EvaluatedStamped ==
    ASSUME NEW v \in View
    PROVE  EvaluateCondition(v) = EmptyCondition \/ EvaluateCondition(v).since = clock
<1>1. v.found \in {"yes", "no", "error"}
  BY DEF View
<1>2. CASE v.found = "no"
  BY <1>2, Stamped DEF EvaluateCondition
<1>3. CASE v.found = "error"
  BY <1>3 DEF EvaluateCondition
<1>4. CASE v.found = "yes" /\ v.scaledDown
  BY <1>4, Stamped DEF EvaluateCondition
<1>5. CASE v.found = "yes" /\ ~v.scaledDown /\ v.available
  BY <1>5, Stamped DEF EvaluateCondition
<1>6. CASE v.found = "yes" /\ ~v.scaledDown /\ ~v.available
  BY <1>6, Stamped DEF EvaluateCondition
<1> QED BY <1>1, <1>2, <1>3, <1>4, <1>5, <1>6

\* s differs from the conditions held only by newer ones and by empty ones, and
\* not in the verdict on managed pipelines.
Updates(s) ==
    /\ \A t \in Types : s[t] = status[t] \/ s[t] = EmptyCondition \/ s[t].since = clock
    /\ s["ManagedPipelineValid"] = status["ManagedPipelineValid"]

\* A step that updates the conditions in this way keeps them recent.
LEMMA UpdateRecent ==
    ASSUME IInv, Recently, pc \notin Ending, Updates(status'), UNCHANGED <<clock, began>>
    PROVE  Recently'
<1>1. ~Blocked /\ ~Blocked'
  BY DEF Recently, Updates, Blocked
<1>2. clock \in Nat /\ began \in Nat
  BY DEF IInv, TypeOK
<1>3. ASSUME NEW t \in Types PROVE Recent(status[t])'
  <2>1. Recent(status[t])
    BY <1>1 DEF Recently
  <2>2. status'[t] = status[t] \/ status'[t] = EmptyCondition \/ status'[t].since = clock
    BY DEF Updates
  <2>3. EmptyCondition' = EmptyCondition
    BY DEF EmptyCondition
  <2> QED BY <1>2, <2>1, <2>2, <2>3 DEF Recent, Recently
<1> QED BY <1>1, <1>3 DEF Recently

\* Setting one condition, not the verdict, is such an update.
LEMMA SetUpdates ==
    ASSUME IInv, NEW t \in Types \ {"ManagedPipelineValid"}, NEW c,
           c = EmptyCondition \/ c.since = clock
    PROVE  Updates(Set(t, c))
<1>1. status \in [Types -> Found \cup {EmptyCondition}]
  BY DEF IInv, FoundOut
<1> QED BY <1>1, VerdictIsApart DEF Updates, Set

\* A step that fails sets what it found out so far.
LEMMA FailingWithRecent ==
    ASSUME IInv, Recently, pc \notin Ending, Quiet, NEW s, Updates(s), FailingWith(s)
    PROVE  Recently'
BY UpdateRecent DEF FailingWith, Return, Quiet

\* In most cases that is one condition or none.
LEMMA FailingRecent ==
    ASSUME IInv, Recently, pc \notin Ending, Quiet,
           NEW t \in (Types \ {"ManagedPipelineValid"}) \cup {"none"}, Failing(t)
    PROVE  Recently'
<1>1. CASE t = "none"
  BY <1>1, FailingWithRecent DEF Failing, Updates
<1>2. CASE t # "none"
  <2>1. Updates(Set(t, BuildFalseCondition("FailingToDeploy")))
    BY <1>2, SetUpdates, Stamped
  <2> QED BY <1>2, <2>1, FailingWithRecent DEF Failing
<1> QED BY <1>1, <1>2

\* One that goes on or returns sets what it found out.
LEMMA OnwardRecent ==
    ASSUME IInv, Recently, pc \notin Ending, Quiet, NEW s, NEW p, NEW b, Updates(s),
           Goto(p, s) \/ Return(s, b)
    PROVE  Recently'
BY UpdateRecent DEF Goto, Return, Quiet

\* A step that leaves the conditions alone keeps them recent, as time passes.
LEMMA IdleRecent ==
    ASSUME IInv, Recently, UNCHANGED <<status, began>>, clock' >= clock,
           clock' \in Nat, pc' = pc \/ pc' \in Ending
    PROVE  Recently'
<1>1. EmptyCondition' = EmptyCondition
  BY DEF EmptyCondition
<1>2. clock \in Nat /\ began \in Nat
  BY DEF IInv, TypeOK
<1>3. Blocked' = Blocked
  BY DEF Blocked
<1>4. \A t \in Types : Recent(status[t])' = Recent(status[t])
  BY <1>1 DEF Recent
<1> QED BY <1>2, <1>3, <1>4 DEF Recently

\* Every step keeps them recent.
LEMMA NextRecently == IInv /\ Recently /\ [Next]_vars => Recently'
<1> SUFFICES ASSUME IInv, Recently, [Next]_vars PROVE Recently'
  OBVIOUS
<1>0. clock \in Nat /\ began \in Nat /\ clock >= clock /\ world \in World
  BY ConstantsOK DEF IInv, TypeOK
<1>a. status \in [Types -> Found \cup {EmptyCondition}]
  BY DEF IInv, FoundOut
<1>b. {"params", "deploy", "health", "common", "webhook", "managed"} \cap Ending = {}
      /\ ComponentTypes \cap Ending = {}
  BY ConstantsOK DEF Ending, ComponentTypes, AllComponents
<1>1. CASE Get
  <2>1. began' = clock /\ clock' = clock
        /\ status' = [t \in Types |-> BuildUnknownCondition]
    BY <1>1 DEF Get
  <2>2. BuildUnknownCondition.since = clock /\ BuildUnknownCondition.reason = "Unknown"
    BY DEF BuildUnknownCondition
  <2>3. ~Blocked'
    BY <2>1, <2>2, VerdictIsApart DEF Blocked
  <2>4. ASSUME NEW t \in Types PROVE Recent(status[t])'
    <3>1. status'[t].since = began'
      BY <2>1, <2>2
    <3> QED BY <1>0, <2>1, <3>1 DEF Recent
  <2> QED BY <1>0, <2>1, <2>3, <2>4 DEF Recently
<1>2. CASE Params
  <2>1. Updates(status')
    <3>0. CASE Failing("none")
      BY <3>0 DEF Failing, FailingWith, Return, Updates
    <3>1. CASE world.params = "ok" /\ Goto("deploy", status)
      BY <3>1 DEF Goto, Updates
    <3>2. CASE world.params # "ok" /\ ~Failing("none")
      <4> DEFINE R == IF world.params = "unsupported"
                      THEN (PrereqTypes \cup ComponentTypes) \ {"WorkflowControllerReady"}
                      ELSE ComponentTypes \cap {"APIServerReady"}
      <4>1. status' = [t \in Types |-> IF t \in R THEN BuildFalseCondition(override')
                                                  ELSE status[t]]
        BY <1>2, <3>2 DEF Params
      <4>2. "ManagedPipelineValid" \notin R
        BY VerdictIsApart
      <4> HIDE DEF R
      <4> QED BY <4>1, <4>2, Stamped, VerdictIsApart DEF Updates
    <3> QED BY <1>2, <3>0, <3>1, <3>2 DEF Params
  <2>2. pc = "params" /\ UNCHANGED <<clock, began>>
    BY <1>2 DEF Params, Quiet, Goto, Failing, FailingWith, Return
  <2> QED BY <1>b, <2>1, <2>2, UpdateRecent
<1>3. CASE Deploy
  <2> DEFINE A(c) == [Set("DatabaseAvailable", BuildTrueCondition("DatabaseAvailable"))
                         EXCEPT !["ObjectStoreAvailable"] = c]
             failed == BuildFalseCondition("FailingToDeploy")
             applied == BuildTrueCondition("ObjectStoreAvailable")
  <2>1. {"DatabaseAvailable", "ObjectStoreAvailable"}
           \subseteq Types \ {"ManagedPipelineValid"}
    BY DEF Types, PrereqTypes
  <2>2. ASSUME NEW c, c.since = clock PROVE Updates(A(c))
    BY <1>a, <2>1, <2>2, Stamped, VerdictIsApart DEF Updates, Set
  <2>3. failed.since = clock /\ applied.since = clock
    BY Stamped
  <2>4. Failing("DatabaseAvailable") \/ FailingWith(A(failed)) \/ Goto("health", A(applied))
    BY <1>3 DEF Deploy
  <2>5. Quiet /\ pc \notin Ending
    BY <1>3, <1>b DEF Deploy
  <2> HIDE DEF A, failed, applied
  <2>6. Updates(A(failed)) /\ Updates(A(applied))
    BY <2>2, <2>3
  <2> QED BY <2>1, <2>4, <2>5, <2>6, FailingRecent, FailingWithRecent, OnwardRecent
<1>4. CASE HealthCheck
  <2> DEFINE s == [t \in Types |->
                    IF t \notin PrereqTypes THEN status[t]
                    ELSE IF t \in world.up THEN BuildTrueCondition(t)
                    ELSE BuildFalseCondition("FailingToDeploy")]
  <2>1. Updates(s)
    BY Stamped, VerdictIsApart DEF Updates
  <2>2. Goto("common", s) \/ Return(s, TRUE)
    BY <1>4 DEF HealthCheck
  <2> HIDE DEF s
  <2>3. Quiet /\ pc \notin Ending
    BY <1>4, <1>b DEF HealthCheck
  <2> QED BY <2>1, <2>2, <2>3, OnwardRecent
<1>5. CASE Common
  <2>1. pc \notin Ending /\ Updates(status)
    BY <1>5, <1>b DEF Common, Updates
  <2> QED BY <1>5, <2>1, FailingRecent, OnwardRecent DEF Common
<1>6. CASE Webhook
  <2>1. "WebhookReady" \in Types \ {"ManagedPipelineValid"}
    BY DEF Types
  <2>2. pc \notin Ending /\ Quiet
    BY <1>6, <1>b DEF Webhook
  <2>3. CASE Failing("WebhookReady")
    BY <2>1, <2>2, <2>3, FailingRecent
  <2>4. CASE Return(Set("WebhookReady",
                        BuildFalseCondition("MinimumReplicasAvailable")), TRUE)
    BY <2>1, <2>2, <2>4, SetUpdates, Stamped, OnwardRecent
  <2>5. CASE Goto("managed",
                  Set("WebhookReady", IF world.webhook = "ready"
                                      THEN BuildTrueCondition("WebhookReady")
                                      ELSE BuildFalseCondition("NotApplicable")))
    <3> DEFINE c == IF world.webhook = "ready" THEN BuildTrueCondition("WebhookReady")
                                               ELSE BuildFalseCondition("NotApplicable")
    <3>1. c.since = clock
      BY Stamped
    <3>2. Updates(Set("WebhookReady", c))
      BY <2>1, <3>1, SetUpdates
    <3> QED BY <2>2, <2>5, <3>2, OnwardRecent
  <2> QED BY <1>6, <2>3, <2>4, <2>5 DEF Webhook
<1>7. CASE ManagedPipelines
  <2> DEFINE c == CASE world.manifest = "valid" ->
                            BuildTrueCondition("ManagedPipelineValid")
                      [] world.manifest = "notApplicable" ->
                            BuildFalseCondition("NotApplicable")
                      [] world.manifest = "transient" ->
                            BuildFalseCondition("ManagedPipelinesFetchError")
                      [] world.manifest = "permanent" ->
                            BuildFalseCondition("ManagedPipelineInvalid")
             s == Set("ManagedPipelineValid", c)
  <2>1. world.manifest \in {"notApplicable", "valid", "permanent", "transient"}
    BY <1>0 DEF World
  <2>2. c.since = clock
        /\ (c.reason = "ManagedPipelineInvalid" <=> world.manifest = "permanent")
    BY <2>1 DEF BuildTrueCondition, BuildFalseCondition
  <2>3. pc \notin Ending /\ UNCHANGED <<clock, began>>
    BY <1>7, <1>b DEF ManagedPipelines, Quiet, Return
  <2>4. ~Blocked /\ \A t \in Types : Recent(status[t])
    BY <2>3 DEF Recently
  <2>5. /\ \A t \in Types \ {"ManagedPipelineValid"} : s[t] = status[t]
        /\ s["ManagedPipelineValid"] = c
    BY <1>a, VerdictIsApart DEF Set
  <2>6. EmptyCondition' = EmptyCondition
    BY DEF EmptyCondition
  <2>7. CASE world.manifest = "permanent"
    <3>1. Return(PreservePostValidationConditions(s), FALSE)
      BY <1>7, <2>7 DEF ManagedPipelines, c
    <3> HIDE DEF s, c
    <3>2. pc' = "publish"
          /\ \A t \in Types \ ComponentTypes : status'[t] = s[t]
      BY <3>1 DEF Return, PreservePostValidationConditions
    <3>3. Blocked'
      BY <2>2, <2>5, <2>7, <3>2, VerdictIsApart DEF Blocked
    <3>4. ASSUME NEW t \in Types \ ComponentTypes PROVE Recent(status[t])'
      BY <1>0, <2>2, <2>3, <2>4, <2>5, <2>6, <3>2 DEF Recent, Recently
    <3> QED BY <2>3, <3>2, <3>3, <3>4 DEF Recently, Ending
  <2>8. CASE world.manifest # "permanent"
    <3>1. status' = s
      BY <1>7, <2>8 DEF ManagedPipelines, c
    <3> HIDE DEF s, c
    <3>2. ~Blocked'
      BY <2>2, <2>5, <2>8, <3>1 DEF Blocked
    <3>3. ASSUME NEW t \in Types PROVE Recent(status[t])'
      BY <1>0, <2>2, <2>3, <2>4, <2>5, <2>6, <3>1 DEF Recent, Recently
    <3> QED BY <2>3, <3>2, <3>3 DEF Recently
  <2> QED BY <2>7, <2>8
<1>8. ASSUME NEW i \in 1..Len(Components), Component(i) PROVE Recently'
  <2> DEFINE t == Components[i]
             c == IF t \in world.disabled THEN BuildFalseCondition("NotApplicable")
                                          ELSE EvaluateCondition(world.view[EvaluatedOn(t)])
             p == IF i = Len(Components) THEN "publish" ELSE Components[i + 1]
  <2>1. t \in Types \ {"ManagedPipelineValid"} /\ t \in ComponentTypes
    BY ComponentNames, VerdictIsApart
  <2>2. world.view[EvaluatedOn(t)] \in View
    BY <1>0, <2>1, EvaluatedType
  <2>3. c = EmptyCondition \/ c.since = clock
    BY <2>2, EvaluatedStamped, Stamped
  <2>4. Failing(t) \/ Goto(p, Set(t, c))
    BY <1>8 DEF Component
  <2>5. Quiet /\ pc \notin Ending
    BY <1>8, <1>b, <2>1 DEF Component
  <2> HIDE DEF t, c, p
  <2>6. Updates(Set(t, c))
    BY <2>1, <2>3, SetUpdates
  <2> QED BY <2>1, <2>4, <2>5, <2>6, FailingRecent, OnwardRecent
<1>9. CASE PublishMetrics \/ UpdateStatus
  BY <1>0, <1>9, IdleRecent DEF PublishMetrics, UpdateStatus, Goto, Ending
<1>10. CASE WorldChange \/ Deliver \/ Resync
  BY <1>0, <1>10, IdleRecent DEF WorldChange, Deliver, Resync, local
<1>11. CASE Tick
  <2>1. clock' \in Nat /\ clock' >= clock
    BY <1>0, <1>11 DEF Tick
  <2> QED BY <1>11, <2>1, IdleRecent DEF Tick, local
<1>12. CASE UNCHANGED vars
  BY <1>0, <1>12, IdleRecent DEF vars
<1> QED BY <1>1, <1>2, <1>3, <1>4, <1>5, <1>6, <1>7, <1>8, <1>9, <1>10, <1>11, <1>12
        DEF Next, Worker

\* A condition that changes its status carries a time of the reconcile that
\* changed it, unless that reconcile was blocked and carried it over.
THEOREM TransitionTimesNew == Spec => TransitionsAreNew
<1> DEFINE A == \A t \in Types \cup {"CrReady"} :
                   obj'[t].status # obj[t].status /\ ~(Blocked /\ t \in ComponentTypes)
                       => obj'[t].since >= began
<1>1. Init => Recently
  <2> SUFFICES ASSUME Init PROVE Recently
    OBVIOUS
  <2>1. \A t \in Types : status[t].since = 0 /\ status[t].reason = "Unknown"
    BY DEF Init, BuildUnknownCondition
  <2> QED BY <2>1, VerdictIsApart DEF Init, Recently, Recent, Blocked
<1>2. IInv /\ Recently /\ [Next]_vars => [A]_vars
  <2> SUFFICES ASSUME IInv, Recently, Next PROVE A
    OBVIOUS
  <2>1. CASE obj' = obj
    BY <2>1
  <2>2. CASE obj' # obj
    <3>1. UpdateStatus
      BY <2>2 DEF Next, Worker, Get, Params, Deploy, HealthCheck, Common, Webhook,
                  ManagedPipelines, Component, PublishMetrics, Quiet, WorldChange,
                  Deliver, Resync, Tick
    <3>2. obj = cache /\ obj' = GetConditions(cache) /\ Valid(GetConditions(cache))
      BY <2>2, <3>1 DEF UpdateStatus
    <3>3. cache \in Conditions /\ TypeOK /\ FoundOut
      BY DEF IInv, TypeOK
    <3>4. CrReady.since = clock
      BY DEF CrReady, BuildFalseCondition
    <3>5. obj'["CrReady"].status # obj["CrReady"].status => obj'["CrReady"].since >= began
      BY <3>2, <3>3, <3>4, Written DEF Recently, TypeOK
    <3>6. ASSUME NEW t \in Types, obj'[t].status # obj[t].status,
                 ~(Blocked /\ t \in ComponentTypes)
          PROVE  obj'[t].since >= began
      <4>1. status[t] \in Found /\ obj'[t].since = status[t].since
        BY <3>2, <3>3, <3>6, Written
      <4>2. Recent(status[t])
        BY <3>6 DEF Recently
      <4> QED BY <4>1, <4>2, FoundIsStorable DEF Recent
    <3> QED BY <3>5, <3>6
  <2> QED BY <2>1, <2>2
<1>3. TransitionsAreNew <=> [][A]_vars
  BY PTL DEF TransitionsAreNew
<1> QED BY <1>1, <1>2, <1>3, InitIInv, NextIInv, NextRecently, PTL DEF Spec

=============================================================================
