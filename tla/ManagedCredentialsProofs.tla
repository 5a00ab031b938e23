---------------------- MODULE ManagedCredentialsProofs ----------------------
(***************************************************************************)
(* Proofs about the credentials of a DSPA's store, for any number of keys,   *)
(* passwords, DSPAs of one name after the other, users' operations, faults   *)
(* and crashes.                                                             *)
(*                                                                         *)
(* Two arguments.  A reconcile that is going to write the generated Secret   *)
(* has read it before, and nobody but a reconcile writes it: so where the    *)
(* Secret still exists, what is written is what was there.  And a reconcile  *)
(* during which no event came owns what it has applied so far: whoever takes *)
(* something away again puts the name back into the queue.                  *)
(***************************************************************************)
EXTENDS ManagedCredentials, TLAPS

Generated == secrets["generated"]

\* The keys read so far are those of the generated Secret, if there is one.
ReadIsCurrent ==
    /\ op.pc = "secret" => op.source = "managed" /\ op.key = NKeys + 1
    /\ op.pc \in {"retrieve", "secret"} /\ op.source = "managed" /\ Generated # None
         => \A k \in Keys : k < op.key => op.cred[k] = Generated.cred[k]

SecretInv == TypeOK /\ ReadIsCurrent /\ RunningStoreKeepsItsSecret

\* DSPAs that exist, reconciles that run and what they apply have uids.
UidsGiven ==
    /\ dspa.phase = "absent" <=> dspa.uid = 0
    /\ op.pc # "idle" => op.uid # 0 /\ dspa.phase # "absent"
    /\ Generated # None => Generated.owner # 0
    /\ deployment # None => deployment.owner # 0
    /\ rest # 0

\* A reconcile that no event has overtaken is about the DSPA as it is.
OpIsCurrent ==
    op.pc # "idle" /\ ~queued =>
        dspa.phase = "live" /\ dspa.uid = op.uid /\ dspa.source = op.source

\* And what it has applied is there and is its own.
AppliedIsOwned ==
    ~queued =>
        /\ op.pc \in {"deployment", "rest", "check"} /\ op.source = "managed"
             => Generated # None /\ Generated.owner = op.uid
        /\ op.pc \in {"rest", "check"} /\ Deploys(op.source)
             => deployment # None /\ deployment.owner = op.uid
        /\ op.pc = "check" /\ Deploys(op.source) => rest = op.uid

OwnerInv == TypeOK /\ UidsGiven /\ OpIsCurrent /\ AppliedIsOwned /\ ReadyOwnsItsStore

\* Once the DSPA is gone no Reconcile applies for it any more and the owner of
\* everything it left is dead, so that the garbage collector will take it: the
\* safety half of NothingIsLeftBehind (the owner reference of Apply, the finalizer
\* that waits for a running reconcile).
LeftoversAreCollectable ==
    dspa.phase = "absent" =>
        /\ op.pc = "idle"
        /\ Generated # None => Dead(Generated.owner)
        /\ deployment # None => Dead(deployment.owner)
        /\ rest # None => Dead(rest)

-----------------------------------------------------------------------------
(* Types. *)

Names == {"generated", "user"}
Pcs == {"idle", "retrieve", "secret", "deployment", "rest", "check"}
Op == [pc : Pcs, uid : 0..MaxUid, source : Sources, key : 1..(NKeys + 1), cred : Creds]

LEMMA KeysAre ==
    NKeys \in Nat /\ 1 <= NKeys /\ 1 \in Keys /\ 1 \in 1..(NKeys + 1)
    /\ MaxUid \in Nat /\ 0 \in 0..MaxUid
BY CredentialsAssumption DEF Keys

\* What passwordGen returns is a password, whatever is in use.
LEMMA GeneratedPassword == passwordGen \in Passwords
<1>1. ExternalCred[1] \in Passwords
  BY KeysAre, CredentialsAssumption
<1>2. \E p \in Passwords : Passwords \ InUse # {} => p \notin InUse
  <2>1. CASE Passwords \ InUse = {}
    BY <1>1, <2>1
  <2>2. CASE Passwords \ InUse # {}
    BY <2>2
  <2> QED BY <2>1, <2>2
<1> QED BY <1>2 DEF passwordGen

\* What a key of a Secret is taken to be.
LEMMA RetrievedType ==
    ASSUME NEW source, NEW secret \in OwnedSecret \cup {None}, NEW k \in Keys
    PROVE  RetrieveOrCreateSecret(source, secret, k) \in Passwords \cup {Missing}
<1>1. CASE secret # None
  <2>1. secret.cred \in Creds
    BY <1>1 DEF OwnedSecret
  <2> QED BY <1>1, <2>1 DEF RetrieveOrCreateSecret, Creds
<1>2. CASE secret = None
  BY <1>2, GeneratedPassword DEF RetrieveOrCreateSecret
<1> QED BY <1>1, <1>2

LEMMA IdleType == Idle \in Op
<1>1. [k \in Keys |-> Missing] \in Creds
  BY DEF Creds
<1> QED BY <1>1, KeysAre DEF Idle, Op, Pcs, Sources

\* A step of Reconcile that stays within the types of what it may write.
LEMMA OpTypeStep ==
    ASSUME TypeOK, op' \in Op, queued' \in BOOLEAN, ready' \in 0..MaxUid,
           events' \in 0..MaxEvents, UNCHANGED <<dspa, uids>>,
           secrets' \in [Names -> OwnedSecret \cup {None}],
           deployment' \in Deployment \cup {None}, rest' \in 0..MaxUid \cup {None},
           pod' \in [Keys -> Passwords] \cup {None}, cut' \in BOOLEAN
    PROVE  TypeOK'
BY DEF TypeOK, Op, Pcs, Names

\* An event that is within the bound.
LEMMA EventType ==
    ASSUME TypeOK, Event PROVE events' \in 0..MaxEvents
BY CredentialsAssumption DEF Event, TypeOK

\* The fields of the running Reconcile.
LEMMA OpFields ==
    ASSUME TypeOK
    PROVE  /\ op \in Op /\ op.pc \in Pcs /\ op.uid \in 0..MaxUid
           /\ op.source \in Sources /\ op.key \in 1..(NKeys + 1) /\ op.cred \in Creds
           /\ \A step \in Pcs : [op EXCEPT !.pc = step] \in Op
BY DEF TypeOK, Op, Pcs

\* What the answer of an Apply does to Reconcile itself.
Answered(next) ==
    \/ Goto(next) /\ UNCHANGED <<queued, ready, events>>
    \/ Event /\ Fail

LEMMA AnswerType ==
    ASSUME TypeOK, NEW next \in Pcs, Answered(next)
    PROVE  /\ op' \in Op /\ queued' \in BOOLEAN /\ ready' \in 0..MaxUid
           /\ events' \in 0..MaxEvents
<1>1. CASE Goto(next) /\ UNCHANGED <<queued, ready, events>>
  BY <1>1, OpFields DEF Goto, TypeOK
<1>2. CASE Event /\ Fail
  BY <1>2, EventType, IdleType, KeysAre DEF Fail
<1> QED BY <1>1, <1>2 DEF Answered

\* What the operator writes is what its templates say.
LEMMA Writes ==
    ASSUME TypeOK
    PROVE  /\ [cred |-> op.cred, owner |-> Owner] \in OwnedSecret
           /\ [ref |-> SecretName(op.source), owner |-> Owner] \in Deployment
           /\ Owner \in 0..MaxUid
BY OpFields DEF OwnedSecret, Deployment, Owner, SecretName

\* Each action of Reconcile that applies something, as what it may write and how
\* it goes on.
LEMMA ApplySteps ==
    ASSUME TypeOK PROVE
    /\ ApplySecret =>
         /\ op.pc = "secret" /\ Answered("deployment")
         /\ UNCHANGED <<dspa, uids, deployment, rest, pod, cut>>
         /\ \/ secrets' = [secrets EXCEPT !["generated"] =
                             [cred |-> op.cred, owner |-> Owner]]
            \/ secrets' = secrets /\ op' = Idle /\ queued'
    /\ ApplyDeployment =>
         /\ op.pc = "deployment" /\ Answered("rest")
         /\ UNCHANGED <<dspa, uids, secrets, rest>>
         /\ \/ /\ deployment' = [ref |-> SecretName(op.source), owner |-> Owner]
               /\ \/ /\ deployment # None /\ deployment.ref = SecretName(op.source)
                     /\ pod' = pod /\ cut' = cut
                  \/ pod' = None /\ cut' = FALSE
            \/ UNCHANGED <<deployment, pod, cut>> /\ op' = Idle /\ queued'
    /\ ApplyRest =>
         /\ op.pc = "rest" /\ Answered("check")
         /\ UNCHANGED <<dspa, uids, secrets, deployment, pod, cut>>
         /\ rest' = Owner \/ (rest' = rest /\ op' = Idle /\ queued')
<1>1. ASSUME ApplySecret
      PROVE  /\ op.pc = "secret" /\ Answered("deployment")
             /\ UNCHANGED <<dspa, uids, deployment, rest, pod, cut>>
             /\ \/ secrets' = [secrets EXCEPT !["generated"] =
                                 [cred |-> op.cred, owner |-> Owner]]
                \/ secrets' = secrets /\ op' = Idle /\ queued'
  BY <1>1 DEF ApplySecret, Apply, Answered, Fail
<1>2. ASSUME ApplyDeployment
      PROVE  /\ op.pc = "deployment" /\ Answered("rest")
             /\ UNCHANGED <<dspa, uids, secrets, rest>>
             /\ \/ /\ deployment' = [ref |-> SecretName(op.source), owner |-> Owner]
                   /\ \/ /\ deployment # None /\ deployment.ref = SecretName(op.source)
                         /\ pod' = pod /\ cut' = cut
                      \/ pod' = None /\ cut' = FALSE
                \/ UNCHANGED <<deployment, pod, cut>> /\ op' = Idle /\ queued'
  <2>1. op.pc = "deployment" /\ Answered("rest") /\ UNCHANGED <<dspa, uids, secrets, rest>>
    BY <1>2 DEF ApplyDeployment, Apply, Answered
  <2>2. CASE UNCHANGED <<deployment, pod, cut>> /\ Fail
    BY <2>1, <2>2 DEF Fail
  <2>3. CASE ~(UNCHANGED <<deployment, pod, cut>> /\ Fail)
    <3> DEFINE same == deployment # None /\ deployment.ref = SecretName(op.source)
    <3>1. /\ deployment' = [ref |-> SecretName(op.source), owner |-> Owner]
          /\ pod' = IF same THEN pod ELSE None
          /\ cut' = (same /\ cut)
      BY <1>2, <2>3 DEF ApplyDeployment, Apply
    <3>2. CASE same
      BY <2>1, <3>1, <3>2, Zenon DEF TypeOK
    <3>3. CASE ~same
      BY <2>1, <3>1, <3>3
    <3> QED BY <3>2, <3>3
  <2> QED BY <2>2, <2>3
<1>3. ASSUME ApplyRest
      PROVE  /\ op.pc = "rest" /\ Answered("check")
             /\ UNCHANGED <<dspa, uids, secrets, deployment, pod, cut>>
             /\ rest' = Owner \/ (rest' = rest /\ op' = Idle /\ queued')
  BY <1>3 DEF ApplyRest, Apply, Answered, Fail
<1> QED BY <1>1, <1>2, <1>3

\* The steps of Reconcile between the first and the last one.
LEMMA RetrieveStep ==
    ASSUME TypeOK, Retrieve
    PROVE  /\ UNCHANGED <<dspa, uids, secrets, deployment, rest, pod, cut>>
           /\ op.pc = "retrieve" /\ op.key \in Keys
           /\ \/ /\ op'.pc = op.pc /\ op'.uid = op.uid /\ op'.source = op.source
                 /\ op'.key = op.key + 1
                 /\ op'.cred = [op.cred EXCEPT ![op.key] =
                        RetrieveOrCreateSecret(op.source, secrets[SecretName(op.source)], op.key)]
                 /\ op' \in Op /\ UNCHANGED <<queued, ready, events>>
              \/ Event /\ Fail
<1>1. CASE Event /\ Fail
  BY <1>1 DEF Retrieve, objects
<1>2. CASE ~(Event /\ Fail)
  <2> DEFINE value == RetrieveOrCreateSecret(op.source, secrets[SecretName(op.source)], op.key)
  <2>1. op.key \in Keys /\ op.pc = "retrieve"
        /\ op' = [op EXCEPT !.cred[op.key] = value, !.key = @ + 1]
        /\ UNCHANGED <<dspa, uids, secrets, deployment, rest, pod, cut, queued, ready, events>>
    BY <1>2 DEF Retrieve, Read, objects
  <2>2. secrets[SecretName(op.source)] \in OwnedSecret \cup {None}
    BY DEF TypeOK, SecretName
  <2>3. value \in Passwords \cup {Missing}
    BY <2>1, <2>2, RetrievedType
  <2> HIDE DEF value
  <2>4. [op.cred EXCEPT ![op.key] = value] \in Creds
    BY <2>1, <2>3, OpFields DEF Creds
  <2>5. op.key + 1 \in 1..(NKeys + 1)
    BY <2>1, KeysAre DEF Keys
  <2>6. /\ op'.pc = op.pc /\ op'.uid = op.uid /\ op'.source = op.source
        /\ op'.key = op.key + 1 /\ op'.cred = [op.cred EXCEPT ![op.key] = value]
        /\ op' \in Op
    BY <2>1, <2>4, <2>5, OpFields DEF Op
  <2> QED BY <2>1, <2>6 DEF value
<1> QED BY <1>1, <1>2

LEMMA SetSecretType ==
    ASSUME TypeOK, NEW n \in Names, NEW secret \in OwnedSecret \cup {None},
           SetSecret(n, secret)
    PROVE  secrets' \in [Names -> OwnedSecret \cup {None}] /\ cut' \in BOOLEAN
<1>1. secrets' \in [Names -> OwnedSecret \cup {None}]
  BY DEF SetSecret, TypeOK, Names
<1>2. cut' \in BOOLEAN
  BY DEF SetSecret
<1> QED BY <1>1, <1>2

LEMMA TypeStep == TypeOK /\ [Next]_vars => TypeOK'
<1> SUFFICES ASSUME TypeOK, [Next]_vars PROVE TypeOK'
  OBVIOUS
<1>1. CASE Start
  <2>1. UNCHANGED <<uids, secrets, deployment, rest, pod, cut, ready, events>>
        /\ queued' = FALSE
    BY <1>1 DEF Start, objects
  <2>2. op' \in Op
    <3>1. CASE UNCHANGED op
      BY <3>1, OpFields
    <3>2. CASE op' = [Idle EXCEPT !.pc = "retrieve", !.uid = dspa.uid, !.source = dspa.source]
      BY <3>2, IdleType DEF TypeOK, Op, Pcs
    <3> QED BY <1>1, <3>1, <3>2 DEF Start
  <2>3. dspa' = dspa \/ dspa' = NoDSPA
    BY <1>1 DEF Start
  <2>4. dspa' \in [uid : 0..MaxUid, phase : {"absent", "live", "deleting"},
                  source : Sources]
    BY <2>3, KeysAre DEF TypeOK, NoDSPA, Sources
  <2> QED BY <2>1, <2>2, <2>4 DEF TypeOK, Op, Pcs
<1>2. CASE Retrieve
  <2>1. UNCHANGED <<dspa, uids, secrets, deployment, rest, pod, cut>>
    BY <1>2, RetrieveStep
  <2>2. /\ op' \in Op /\ queued' \in BOOLEAN /\ ready' \in 0..MaxUid
        /\ events' \in 0..MaxEvents
    BY <1>2, RetrieveStep, EventType, IdleType, KeysAre DEF Fail, TypeOK
  <2> QED BY <2>1, <2>2, OpTypeStep DEF TypeOK, Names
<1>3. CASE CheckRetrieved
  <2>1. UNCHANGED <<dspa, uids, secrets, deployment, rest, pod, cut, events>>
    BY <1>3 DEF CheckRetrieved, objects
  <2>2. op' \in Op /\ queued' \in BOOLEAN /\ ready' \in 0..MaxUid
    <3>1. CASE Fail
      BY <3>1, IdleType, KeysAre DEF Fail
    <3>2. CASE ~Fail
      <4>1. (Goto("secret") \/ Goto("deployment") \/ Goto("check")) /\ UNCHANGED <<queued, ready>>
        BY <1>3, <3>2 DEF CheckRetrieved
      <4> QED BY <4>1, OpFields DEF Goto, TypeOK, Pcs
    <3> QED BY <3>1, <3>2
  <2> QED BY <2>1, <2>2, OpTypeStep DEF TypeOK, Names
<1>4. CASE ApplySecret
  <2>1. secrets' \in [Names -> OwnedSecret \cup {None}]
    BY <1>4, ApplySteps, Writes DEF TypeOK, Names
  <2>2. Answered("deployment") /\ UNCHANGED <<dspa, uids, deployment, rest, pod, cut>>
    BY <1>4, ApplySteps
  <2> QED BY <2>1, <2>2, AnswerType, OpTypeStep DEF TypeOK, Pcs
<1>5. CASE ApplyDeployment
  <2>1. deployment' \in Deployment \cup {None} /\ cut' \in BOOLEAN
        /\ pod' \in [Keys -> Passwords] \cup {None}
    BY <1>5, ApplySteps, Writes DEF TypeOK
  <2>2. Answered("rest") /\ UNCHANGED <<dspa, uids, secrets, rest>>
    BY <1>5, ApplySteps
  <2> QED BY <2>1, <2>2, AnswerType, OpTypeStep DEF TypeOK, Pcs, Names
<1>6. CASE ApplyRest
  <2>1. rest' \in 0..MaxUid \cup {None}
    BY <1>6, ApplySteps, Writes DEF TypeOK
  <2>2. Answered("check") /\ UNCHANGED <<dspa, uids, secrets, deployment, pod, cut>>
    BY <1>6, ApplySteps
  <2> QED BY <2>1, <2>2, AnswerType, OpTypeStep DEF TypeOK, Pcs, Names
<1>7. CASE HealthCheck
  <2>1. UNCHANGED <<dspa, uids, secrets, deployment, rest, pod, cut, events>>
    BY <1>7 DEF HealthCheck, objects
  <2>2. op' = Idle /\ queued' \in BOOLEAN /\ ready' \in 0..MaxUid
    BY <1>7, OpFields, KeysAre DEF HealthCheck, Fail, TypeOK
  <2> QED BY <2>1, <2>2, IdleType, OpTypeStep DEF TypeOK, Names
<1>8. CASE Create
  BY <1>8, KeysAre DEF Create, objects, TypeOK, Sources
<1>9. CASE Edit
  BY <1>9, EventType DEF Edit, objects, TypeOK
<1>10. CASE Delete
  BY <1>10 DEF Delete, objects, TypeOK
<1>11. CASE WriteUserSecret
  <2>1. PICK c \in UserCreds : SetSecret("user", [cred |-> c, owner |-> 0])
    BY <1>11 DEF WriteUserSecret
  <2>2. [cred |-> c, owner |-> 0] \in OwnedSecret
    BY CredentialsAssumption, KeysAre DEF OwnedSecret
  <2>3. secrets' \in [Names -> OwnedSecret \cup {None}] /\ cut' \in BOOLEAN
    BY <2>1, <2>2, SetSecretType DEF Names
  <2> QED BY <1>11, <2>3, EventType DEF WriteUserSecret, TypeOK, Names
<1>12. CASE \E n \in DOMAIN secrets : RemoveSecret(n) /\ events' \in 0..MaxEvents
  <2>1. PICK n \in Names : RemoveSecret(n) /\ events' \in 0..MaxEvents
    BY <1>12 DEF TypeOK, Names
  <2>2. secrets' \in [Names -> OwnedSecret \cup {None}] /\ cut' \in BOOLEAN
    BY <2>1, SetSecretType DEF RemoveSecret
  <2>3. queued' \in BOOLEAN
    BY <2>1 DEF RemoveSecret, Wake, TypeOK
  <2> QED BY <2>1, <2>2, <2>3 DEF RemoveSecret, TypeOK, Names
<1>13. CASE (RemoveDeployment \/ RemoveRest) /\ events' \in 0..MaxEvents
  BY <1>13 DEF RemoveDeployment, RemoveRest, Wake, TypeOK
<1>14. CASE StartPod
  <2>1. pod' \in [Keys -> Passwords]
    <3>1. deployment \in Deployment /\ secrets[deployment.ref] \in OwnedSecret
      BY <1>14 DEF StartPod, TypeOK, Deployment
    <3>2. secrets[deployment.ref].cred \in Creds
      BY <3>1 DEF OwnedSecret
    <3> QED BY <1>14, <3>2 DEF StartPod, Creds
  <2> QED BY <1>14, <2>1 DEF StartPod, TypeOK
<1>15. CASE StopPod
  BY <1>15, EventType DEF StopPod, TypeOK
<1>16. CASE Crash
  BY <1>16, EventType, IdleType DEF Crash, objects, TypeOK, Op, Pcs
<1>17. CASE UNCHANGED vars
  BY <1>17 DEF vars, TypeOK
<1>18. CASE UserRemoves
  BY <1>18, <1>12, <1>13, EventType DEF UserRemoves
<1>19. CASE CollectGarbage
  <2>1. events' \in 0..MaxEvents
    BY <1>19 DEF CollectGarbage, TypeOK
  <2> QED BY <1>19, <2>1, <1>12, <1>13 DEF CollectGarbage
<1> QED
  BY <1>1, <1>2, <1>3, <1>4, <1>5, <1>6, <1>7, <1>8, <1>9, <1>10, <1>11, <1>14,
     <1>15, <1>16, <1>17, <1>18, <1>19 DEF Next, Reconcile

LEMMA TypeInit == Init => TypeOK
<1> SUFFICES ASSUME Init PROVE TypeOK
  OBVIOUS
<1>1. dspa \in [uid : 0..MaxUid, phase : {"absent", "live", "deleting"}, source : Sources]
  BY KeysAre DEF Init, NoDSPA, Sources
<1>2. op \in Op
  BY IdleType DEF Init
<1>3. 0 \in 0..MaxEvents
  BY CredentialsAssumption
<1> QED BY <1>1, <1>2, <1>3, KeysAre DEF Init, TypeOK, Op, Pcs

\* The type invariant holds for every instance: no action of Reconcile, of users
\* or of the cluster leaves the declared values, so in particular every Secret the
\* operator writes has a value for each key and every pod that starts a password.
THEOREM CredentialsTypeCorrect == Spec => []TypeOK
BY TypeInit, TypeStep, PTL DEF Spec

-----------------------------------------------------------------------------
(* The store keeps its Secret. *)

\* Where both have been read the credentials are those of the generated Secret.
LEMMA ReadAgain ==
    ASSUME TypeOK, ReadIsCurrent, op.pc = "secret", Generated # None
    PROVE  op.cred = Generated.cred
<1>1. \A k \in Keys : op.cred[k] = Generated.cred[k]
  BY KeysAre DEF ReadIsCurrent, Keys
<1>2. Generated \in OwnedSecret
  BY DEF TypeOK, Generated
<1>3. Generated.cred \in Creds /\ op.cred \in Creds
  BY <1>2, OpFields DEF OwnedSecret
<1> QED BY <1>1, <1>3 DEF Creds

\* What is read stays current while the generated Secret stays as it is or goes,
\* and Reconcile stays where it is or is past the Secret.
LEMMA ReadFrame ==
    ASSUME ReadIsCurrent, op' = op \/ op'.pc \notin {"retrieve", "secret"},
           Generated' = Generated \/ Generated' = None \/ op'.pc \notin {"retrieve", "secret"}
    PROVE  ReadIsCurrent'
BY DEF ReadIsCurrent

LEMMA StoreFrame ==
    ASSUME RunningStoreKeepsItsSecret, UNCHANGED <<secrets, deployment, pod, cut>>
    PROVE  RunningStoreKeepsItsSecret'
BY DEF RunningStoreKeepsItsSecret, Matches

\* Whoever replaces or removes the Secret of a running pod cuts it off.
LEMMA SetSecretStore ==
    ASSUME TypeOK, RunningStoreKeepsItsSecret, NEW n \in Names, NEW secret,
           SetSecret(n, secret), UNCHANGED <<deployment, pod>>
    PROVE  RunningStoreKeepsItsSecret'
<1> SUFFICES ASSUME pod # None, ~cut' PROVE Matches'
  BY DEF RunningStoreKeepsItsSecret
<1>1. ~cut /\ ~(/\ pod # None /\ deployment # None /\ deployment.ref = n
                /\ (IF secret = None THEN TRUE ELSE secret.cred # pod))
  BY DEF SetSecret
<1>2. Matches
  BY <1>1 DEF RunningStoreKeepsItsSecret
<1>3. deployment \in Deployment
  BY <1>2 DEF Matches, TypeOK
<1>4. secrets' = [secrets EXCEPT ![n] = secret]
  BY DEF SetSecret
<1> QED BY <1>1, <1>2, <1>3, <1>4 DEF Matches, TypeOK, Names, Deployment

LEMMA SecretInit == Init => SecretInv
<1> SUFFICES ASSUME Init PROVE SecretInv
  OBVIOUS
<1>1. TypeOK
  BY TypeInit
<1>2. op.pc = "idle" /\ pod = None
  BY DEF Init, Idle
<1> QED BY <1>1, <1>2 DEF SecretInv, ReadIsCurrent, RunningStoreKeepsItsSecret

LEMMA SecretStep == SecretInv /\ [Next]_vars => SecretInv'
<1> SUFFICES ASSUME SecretInv, [Next]_vars
             PROVE  ReadIsCurrent' /\ RunningStoreKeepsItsSecret'
  BY TypeStep DEF SecretInv
<1>0. TypeOK /\ ReadIsCurrent /\ RunningStoreKeepsItsSecret
  BY DEF SecretInv
<1>i. Idle.pc = "idle" /\ Idle.key = 1
  BY DEF Idle
<1>1. CASE Start
  <2>1. UNCHANGED <<secrets, deployment, pod, cut>>
    BY <1>1 DEF Start, objects
  <2>2. op' = op \/ (op'.pc = "retrieve" /\ op'.key = 1)
    BY <1>1, <1>i DEF Start, Idle
  <2>3. ReadIsCurrent'
    <3>1. CASE op' = op
      BY <3>1, <2>1, <1>0, ReadFrame DEF Generated
    <3>2. CASE op'.pc = "retrieve" /\ op'.key = 1
      BY <3>2, KeysAre DEF ReadIsCurrent, Keys
    <3> QED BY <2>2, <3>1, <3>2
  <2> QED BY <1>0, <2>1, <2>3, StoreFrame
<1>2. CASE Retrieve
  <2>1. UNCHANGED <<secrets, deployment, pod, cut>> /\ Generated' = Generated
    BY <1>0, <1>2, RetrieveStep DEF Generated
  <2>2. ReadIsCurrent'
    <3>1. CASE op'.pc = "idle"
      BY <3>1, <1>0, ReadFrame
    <3>2. CASE op'.pc # "idle"
      <4> DEFINE value == RetrieveOrCreateSecret(op.source, secrets[SecretName(op.source)], op.key)
      <4>1. /\ op.pc = "retrieve" /\ op.key \in Keys
            /\ op'.pc = op.pc /\ op'.source = op.source /\ op'.key = op.key + 1
            /\ op'.cred = [op.cred EXCEPT ![op.key] = value]
        BY <3>2, <1>0, <1>2, <1>i, RetrieveStep DEF Fail
      <4>2. ASSUME op.source = "managed", Generated # None,
                   NEW k \in Keys, k < op.key + 1
            PROVE  op'.cred[k] = Generated.cred[k]
        <5>1. value = Generated.cred[op.key]
          BY <4>2 DEF RetrieveOrCreateSecret, SecretName, Generated
        <5> HIDE DEF value
        <5>2. op.cred \in [Keys -> Passwords \cup {Missing}]
          BY <1>0, OpFields DEF Creds
        <5>3. CASE k = op.key
          BY <5>1, <5>2, <5>3, <4>1
        <5>4. CASE k # op.key
          <6>1. k < op.key
            BY <4>1, <4>2, <5>4, KeysAre DEF Keys
          <6>2. op.cred[k] = Generated.cred[k]
            BY <6>1, <1>0, <4>1, <4>2 DEF ReadIsCurrent
          <6> QED BY <6>2, <5>2, <5>4, <4>1
        <5> QED BY <5>3, <5>4
      <4> QED BY <4>1, <4>2, <2>1 DEF ReadIsCurrent
    <3> QED BY <3>1, <3>2
  <2> QED BY <1>0, <2>1, <2>2, StoreFrame
<1>3. CASE CheckRetrieved
  <2>1. UNCHANGED <<secrets, deployment, pod, cut>> /\ Generated' = Generated
    BY <1>3 DEF CheckRetrieved, objects, Generated
  <2>2. ReadIsCurrent'
    <3>1. CASE op'.pc # "secret"
      BY <1>3, <3>1, <1>0, <1>i, OpFields, ReadFrame DEF CheckRetrieved, Fail, Goto, Op
    <3>2. CASE op'.pc = "secret"
      <4>1. ~Fail
        BY <3>2, <1>i DEF Fail
      <4>2. /\ op.pc = "retrieve" /\ op.key \notin Keys
            /\ op' = [op EXCEPT !.pc = CASE op.source = "managed" -> "secret"
                                         [] op.source = "custom" -> "deployment"
                                         [] OTHER -> "check"]
        BY <1>3, <4>1 DEF CheckRetrieved, Goto
      <4>3. op.source = "managed"
        BY <1>0, <3>2, <4>2, OpFields DEF Op
      <4>4. op'.source = op.source /\ op'.key = op.key /\ op'.cred = op.cred
        BY <1>0, <4>2, OpFields DEF Op
      <4>5. op.key = NKeys + 1
        BY <1>0, <4>2, OpFields, KeysAre DEF Keys
      <4> QED BY <1>0, <2>1, <3>2, <4>2, <4>3, <4>4, <4>5 DEF ReadIsCurrent
    <3> QED BY <3>1, <3>2
  <2> QED BY <1>0, <2>1, <2>2, StoreFrame
<1>4. CASE ApplySecret
  <2>1. op.pc = "secret" /\ UNCHANGED <<deployment, pod, cut>>
        /\ (Goto("deployment") \/ Fail)
    BY <1>0, <1>4, ApplySteps DEF Answered
  <2>2. op'.pc \notin {"retrieve", "secret"}
    BY <1>0, <1>i, <2>1, OpFields DEF Goto, Fail, Op
  <2>3. CASE secrets' = [secrets EXCEPT !["generated"] = [cred |-> op.cred, owner |-> Owner]]
    <3> SUFFICES ASSUME pod # None, ~cut PROVE Matches'
      BY <1>0, <2>1, <2>2, ReadFrame DEF RunningStoreKeepsItsSecret
    <3>1. Matches
      BY <1>0 DEF RunningStoreKeepsItsSecret
    <3>2. deployment \in Deployment
      BY <1>0, <3>1 DEF Matches, TypeOK
    <3>3. [cred |-> op.cred, owner |-> Owner] # None
      BY <1>0, Writes, CredentialsAssumption
    <3>4. CASE deployment.ref = "generated"
      <4>1. op.cred = pod
        BY <1>0, <2>1, <3>1, <3>4, ReadAgain DEF Matches, Generated
      <4>2. secrets'["generated"] = [cred |-> op.cred, owner |-> Owner]
        BY <1>0, <2>3 DEF TypeOK
      <4> QED BY <2>1, <3>1, <3>3, <3>4, <4>1, <4>2 DEF Matches
    <3>5. CASE deployment.ref = "user"
      <4>1. secrets'["user"] = secrets["user"]
        BY <1>0, <2>3 DEF TypeOK
      <4> QED BY <2>1, <3>1, <3>5, <4>1 DEF Matches
    <3> QED BY <3>2, <3>4, <3>5 DEF Deployment
  <2>4. CASE secrets' = secrets
    BY <1>0, <2>1, <2>2, <2>4, ReadFrame, StoreFrame
  <2> QED BY <1>0, <1>4, <2>3, <2>4, ApplySteps
<1>5. CASE ApplyDeployment
  <2>1. UNCHANGED secrets /\ (Goto("rest") \/ Fail)
    BY <1>0, <1>5, ApplySteps DEF Answered
  <2>2. op'.pc \notin {"retrieve", "secret"}
    BY <1>0, <1>i, <2>1, OpFields DEF Goto, Fail, Op
  <2>3. CASE pod' = None
    BY <1>0, <2>2, <2>3, ReadFrame DEF RunningStoreKeepsItsSecret
  <2>4. CASE /\ deployment' = [ref |-> SecretName(op.source), owner |-> Owner]
             /\ deployment # None /\ deployment.ref = SecretName(op.source)
             /\ pod' = pod /\ cut' = cut
    <3>1. deployment' # None /\ deployment'.ref = deployment.ref
      BY <1>0, <2>4, Writes, CredentialsAssumption
    <3>2. RunningStoreKeepsItsSecret'
      BY <1>0, <2>1, <2>4, <3>1 DEF RunningStoreKeepsItsSecret, Matches
    <3> QED BY <1>0, <2>2, <3>2, ReadFrame
  <2>5. CASE UNCHANGED <<deployment, pod, cut>>
    BY <1>0, <2>1, <2>2, <2>5, ReadFrame, StoreFrame
  <2> QED BY <1>0, <1>5, <2>3, <2>4, <2>5, ApplySteps
<1>6. CASE ApplyRest
  <2>1. UNCHANGED <<secrets, deployment, pod, cut>> /\ (Goto("check") \/ Fail)
    BY <1>0, <1>6, ApplySteps DEF Answered
  <2>2. op'.pc \notin {"retrieve", "secret"}
    BY <1>0, <1>i, <2>1, OpFields DEF Goto, Fail, Op
  <2> QED BY <1>0, <2>1, <2>2, ReadFrame, StoreFrame
<1>7. CASE HealthCheck \/ Crash
  <2>1. UNCHANGED <<secrets, deployment, pod, cut>> /\ op' = Idle
    BY <1>7 DEF HealthCheck, Crash, Fail, objects
  <2> QED BY <1>0, <1>i, <2>1, ReadFrame, StoreFrame
<1>8. CASE Create \/ Edit \/ Delete \/ UNCHANGED vars
  <2>1. UNCHANGED <<secrets, deployment, pod, cut, op>>
    BY <1>8 DEF Create, Edit, Delete, vars, objects
  <2> QED BY <1>0, <2>1, ReadFrame, StoreFrame DEF Generated
<1>9. CASE WriteUserSecret
  <2>1. PICK c \in UserCreds : SetSecret("user", [cred |-> c, owner |-> 0])
    BY <1>9 DEF WriteUserSecret
  <2>2. UNCHANGED <<deployment, pod, op>>
    BY <1>9 DEF WriteUserSecret
  <2>3. Generated' = Generated
    BY <1>0, <2>1 DEF SetSecret, TypeOK, Generated
  <2>4. RunningStoreKeepsItsSecret'
    BY <1>0, <2>1, <2>2, SetSecretStore DEF Names
  <2> QED BY <1>0, <2>2, <2>3, <2>4, ReadFrame
<1>10. CASE \E n \in DOMAIN secrets : RemoveSecret(n)
  <2>1. PICK n \in Names : RemoveSecret(n)
    BY <1>0, <1>10 DEF TypeOK, Names
  <2>2. SetSecret(n, None) /\ UNCHANGED <<deployment, pod, op>>
    BY <2>1 DEF RemoveSecret
  <2>3. Generated' = Generated \/ Generated' = None
    BY <1>0, <2>2 DEF SetSecret, TypeOK, Generated, Names
  <2> QED BY <1>0, <2>2, <2>3, ReadFrame, SetSecretStore
<1>11. CASE RemoveDeployment \/ StopPod
  <2>1. pod' = None /\ UNCHANGED <<secrets, op>>
    BY <1>11 DEF RemoveDeployment, StopPod
  <2> QED BY <1>0, <2>1, ReadFrame DEF RunningStoreKeepsItsSecret, Generated
<1>12. CASE RemoveRest
  <2>1. UNCHANGED <<secrets, deployment, pod, cut, op>>
    BY <1>12 DEF RemoveRest
  <2> QED BY <1>0, <2>1, ReadFrame, StoreFrame DEF Generated
<1>13. CASE StartPod
  BY <1>0, <1>13, ReadFrame DEF StartPod, RunningStoreKeepsItsSecret, Matches, Generated
<1> QED
  BY <1>1, <1>2, <1>3, <1>4, <1>5, <1>6, <1>7, <1>8, <1>9, <1>10, <1>11, <1>12, <1>13
     DEF Next, Reconcile, UserRemoves, CollectGarbage

\* The operator never takes the credentials away from a running store, for any
\* number of keys, DSPAs, faults and crashes (RetrieveOrCreateSecret reads what it
\* then applies; ReconcileDatabase and ReconcileStorage).
THEOREM StoreKeepsItsSecret == Spec => []RunningStoreKeepsItsSecret
<1>1. SecretInv => RunningStoreKeepsItsSecret
  BY DEF SecretInv
<1> QED BY <1>1, SecretInit, SecretStep, PTL DEF Spec

-----------------------------------------------------------------------------
(* Ownership. *)

\* The operator is at a step it has something to apply for.
Applying == {"secret", "deployment", "rest", "check"}

\* A step that ends with the name in the queue has uids to keep and no more.
LEMMA QueuedStep ==
    ASSUME OwnerInv, queued', UidsGiven'
    PROVE  OpIsCurrent' /\ AppliedIsOwned' /\ ReadyOwnsItsStore'
BY DEF OpIsCurrent, AppliedIsOwned, ReadyOwnsItsStore

\* Nothing here depends on the pod, the user's Secret and the count of events.
LEMMA OwnerFrame ==
    ASSUME OwnerInv,
           UNCHANGED <<dspa, Generated, deployment, rest, queued, op, ready>>
    PROVE  UidsGiven' /\ OpIsCurrent' /\ AppliedIsOwned' /\ ReadyOwnsItsStore'
BY DEF OwnerInv, UidsGiven, OpIsCurrent, AppliedIsOwned, ReadyOwnsItsStore, Generated

\* Reconcile goes on with what it is about.
LEMMA GotoFields ==
    ASSUME TypeOK, NEW next, Goto(next)
    PROVE  op'.pc = next /\ op'.uid = op.uid /\ op'.source = op.source
BY OpFields DEF Goto, Op

LEMMA OwnerInit == Init => OwnerInv
<1> SUFFICES ASSUME Init PROVE OwnerInv
  OBVIOUS
<1>1. TypeOK
  BY TypeInit
<1>2. /\ dspa.phase = "absent" /\ dspa.uid = 0 /\ op.pc = "idle"
      /\ Generated = None /\ deployment = None /\ rest = None
  BY DEF Init, Idle, NoDSPA, Generated
<1>3. None # 0
  BY KeysAre, CredentialsAssumption
<1> QED BY <1>1, <1>2, <1>3
        DEF OwnerInv, UidsGiven, OpIsCurrent, AppliedIsOwned, ReadyOwnsItsStore

LEMMA OwnerStep == OwnerInv /\ [Next]_vars => OwnerInv'
<1> SUFFICES ASSUME OwnerInv, [Next]_vars
             PROVE  UidsGiven' /\ OpIsCurrent' /\ AppliedIsOwned' /\ ReadyOwnsItsStore'
  BY TypeStep DEF OwnerInv
<1>0. TypeOK /\ UidsGiven /\ OpIsCurrent /\ AppliedIsOwned /\ ReadyOwnsItsStore
  BY DEF OwnerInv
<1>i. Idle.pc = "idle"
  BY DEF Idle
<1>n. None # 0 /\ None \notin OwnedSecret /\ None \notin Deployment
  BY KeysAre, CredentialsAssumption
<1>1. CASE Start
  <2>1. UNCHANGED <<secrets, Generated, deployment, rest, ready>> /\ op.pc = "idle"
        /\ ~queued'
    BY <1>1 DEF Start, objects, Generated
  <2>2. CASE dspa.phase = "live"
    <3>1. UNCHANGED dspa /\ op'.pc = "retrieve" /\ op'.uid = dspa.uid
          /\ op'.source = dspa.source
      BY <1>1, <2>2 DEF Start, Idle
    <3> QED BY <1>0, <2>1, <2>2, <3>1
            DEF UidsGiven, OpIsCurrent, AppliedIsOwned, ReadyOwnsItsStore
  <2>3. CASE dspa.phase # "live"
    <3>1. op' = op /\ (dspa' = NoDSPA \/ (dspa' = dspa /\ dspa.phase = "absent"))
      BY <1>1, <2>3 DEF Start
    <3>2. dspa'.phase = "absent" /\ dspa'.uid = 0
      BY <1>0, <3>1 DEF NoDSPA, UidsGiven
    <3> QED BY <1>0, <2>1, <3>1, <3>2
            DEF UidsGiven, OpIsCurrent, AppliedIsOwned, ReadyOwnsItsStore
  <2> QED BY <2>2, <2>3
<1>2. ASSUME Fail, UNCHANGED dspa,
             Generated' = Generated \/ (Generated' # None /\ Generated'.owner = op.uid),
             deployment' = deployment \/ (deployment' # None /\ deployment'.owner = op.uid),
             rest' = rest \/ rest' = op.uid, op.pc # "idle"
      PROVE  UidsGiven' /\ OpIsCurrent' /\ AppliedIsOwned' /\ ReadyOwnsItsStore'
  <2>1. op'.pc = "idle" /\ queued'
    BY <1>2, <1>i DEF Fail
  <2>2. UidsGiven'
    BY <1>0, <1>2, <2>1 DEF UidsGiven
  <2> QED BY <2>1, <2>2, QueuedStep
<1>3. CASE Retrieve
  <2>1. UNCHANGED <<dspa, Generated, deployment, rest>> /\ op.pc = "retrieve"
    BY <1>0, <1>3, RetrieveStep DEF Generated
  <2>2. CASE Fail
    BY <1>2, <2>1, <2>2
  <2>3. CASE ~Fail
    <3>1. op'.pc = op.pc /\ op'.uid = op.uid /\ op'.source = op.source
          /\ UNCHANGED <<queued, ready>>
      BY <1>0, <1>3, <2>3, RetrieveStep
    <3> QED BY <1>0, <2>1, <3>1
            DEF UidsGiven, OpIsCurrent, AppliedIsOwned, ReadyOwnsItsStore
  <2> QED BY <2>2, <2>3
<1>4. CASE CheckRetrieved
  <2>1. UNCHANGED <<dspa, Generated, deployment, rest>> /\ op.pc = "retrieve"
    BY <1>4 DEF CheckRetrieved, objects, Generated
  <2>2. CASE Fail
    BY <1>2, <2>1, <2>2
  <2>3. CASE ~Fail
    <3> DEFINE next == CASE op.source = "managed" -> "secret"
                         [] op.source = "custom" -> "deployment"
                         [] OTHER -> "check"
    <3>1. Goto(next) /\ UNCHANGED <<queued, ready>>
      BY <1>4, <2>3 DEF CheckRetrieved
    <3>2. /\ op.source = "managed" => next = "secret"
          /\ op.source = "custom" => next = "deployment"
          /\ ~Deploys(op.source) => next = "check"
      BY DEF Deploys
    <3>3. next \in Applying
      BY DEF Applying
    <3> HIDE DEF next
    <3>4. op'.pc = next /\ op'.uid = op.uid /\ op'.source = op.source
      BY <1>0, <3>1, GotoFields
    <3>5. op.source = "managed" \/ op.source = "custom" \/ ~Deploys(op.source)
      BY DEF Deploys
    <3> QED BY <1>0, <2>1, <3>1, <3>2, <3>3, <3>4, <3>5
            DEF UidsGiven, OpIsCurrent, AppliedIsOwned, ReadyOwnsItsStore, Applying, Deploys
  <2> QED BY <2>2, <2>3
<1>5. CASE ApplySecret
  <2>1. op.pc = "secret" /\ UNCHANGED <<dspa, deployment, rest>>
    BY <1>0, <1>5, ApplySteps
  <2>2. CASE secrets' = [secrets EXCEPT !["generated"] = [cred |-> op.cred, owner |-> Owner]]
    <3>1. Generated' = [cred |-> op.cred, owner |-> op.uid]
      BY <1>0, <2>2 DEF TypeOK, Generated, Owner
    <3>2. Generated' # None /\ Generated'.owner = op.uid
      BY <1>0, <1>n, <3>1, Writes DEF Owner
    <3>3. CASE Fail
      BY <1>2, <2>1, <3>2, <3>3
    <3>4. CASE Goto("deployment") /\ UNCHANGED <<queued, ready>>
      <4>1. op'.pc = "deployment" /\ op'.uid = op.uid /\ op'.source = op.source
        BY <1>0, <3>4, GotoFields
      <4> QED BY <1>0, <2>1, <3>2, <3>4, <4>1
              DEF UidsGiven, OpIsCurrent, AppliedIsOwned, ReadyOwnsItsStore
    <3> QED BY <1>0, <1>5, <3>3, <3>4, ApplySteps DEF Answered
  <2>3. CASE secrets' = secrets /\ op' = Idle /\ queued'
    <3>1. UidsGiven'
      BY <1>0, <1>i, <2>1, <2>3 DEF UidsGiven, Generated
    <3> QED BY <2>3, <3>1, QueuedStep
  <2> QED BY <1>0, <1>5, <2>2, <2>3, ApplySteps
<1>6. CASE ApplyDeployment
  <2>1. op.pc = "deployment" /\ UNCHANGED <<dspa, Generated, rest>>
    BY <1>0, <1>6, ApplySteps DEF Generated
  <2>2. CASE deployment' = [ref |-> SecretName(op.source), owner |-> Owner]
    <3>1. deployment' # None /\ deployment'.owner = op.uid
      BY <1>0, <1>n, <2>2, Writes DEF Owner
    <3>2. CASE Fail
      BY <1>2, <2>1, <3>1, <3>2
    <3>3. CASE Goto("rest") /\ UNCHANGED <<queued, ready>>
      <4>1. op'.pc = "rest" /\ op'.uid = op.uid /\ op'.source = op.source
        BY <1>0, <3>3, GotoFields
      <4> QED BY <1>0, <2>1, <3>1, <3>3, <4>1
              DEF UidsGiven, OpIsCurrent, AppliedIsOwned, ReadyOwnsItsStore
    <3> QED BY <1>0, <1>6, <3>2, <3>3, ApplySteps DEF Answered
  <2>3. CASE UNCHANGED deployment /\ op' = Idle /\ queued'
    <3>1. UidsGiven'
      BY <1>0, <1>i, <2>1, <2>3 DEF UidsGiven
    <3> QED BY <2>3, <3>1, QueuedStep
  <2> QED BY <1>0, <1>6, <2>2, <2>3, ApplySteps
<1>7. CASE ApplyRest
  <2>1. op.pc = "rest" /\ UNCHANGED <<dspa, Generated, deployment>>
    BY <1>0, <1>7, ApplySteps DEF Generated
  <2>2. CASE rest' = Owner
    <3>1. CASE Fail
      BY <1>2, <2>1, <2>2, <3>1 DEF Owner
    <3>2. CASE Goto("check") /\ UNCHANGED <<queued, ready>>
      <4>1. op'.pc = "check" /\ op'.uid = op.uid /\ op'.source = op.source
        BY <1>0, <3>2, GotoFields
      <4> QED BY <1>0, <2>1, <2>2, <3>2, <4>1
              DEF UidsGiven, OpIsCurrent, AppliedIsOwned, ReadyOwnsItsStore, Owner
    <3> QED BY <1>0, <1>7, <3>1, <3>2, ApplySteps DEF Answered
  <2>3. CASE rest' = rest /\ op' = Idle /\ queued'
    <3>1. UidsGiven'
      BY <1>0, <1>i, <2>1, <2>3 DEF UidsGiven
    <3> QED BY <2>3, <3>1, QueuedStep
  <2> QED BY <1>0, <1>7, <2>2, <2>3, ApplySteps
<1>8. CASE HealthCheck
  <2>1. UNCHANGED <<dspa, Generated, deployment, rest>> /\ op.pc = "check"
    BY <1>8 DEF HealthCheck, objects, Generated
  <2>2. CASE Fail
    BY <1>2, <2>1, <2>2
  <2>3. CASE op' = Idle /\ ready' = op.uid /\ UNCHANGED queued
    <3>1. UidsGiven' /\ OpIsCurrent' /\ AppliedIsOwned'
      BY <1>0, <1>i, <2>1, <2>3 DEF UidsGiven, OpIsCurrent, AppliedIsOwned
    <3>2. ReadyOwnsItsStore'
      BY <1>0, <2>1, <2>3 DEF OpIsCurrent, AppliedIsOwned, ReadyOwnsItsStore, Generated, Deploys
    <3> QED BY <3>1, <3>2
  <2> QED BY <1>8, <2>2, <2>3 DEF HealthCheck
<1>9. CASE Create
  <2>1. queued' /\ UNCHANGED <<Generated, deployment, rest, op>>
        /\ dspa'.phase = "live" /\ dspa'.uid = uids + 1 /\ dspa.phase = "absent"
    BY <1>9 DEF Create, objects, Generated
  <2>2. uids + 1 # 0
    BY <1>0, KeysAre DEF TypeOK
  <2>3. UidsGiven'
    BY <1>0, <2>1, <2>2 DEF UidsGiven
  <2> QED BY <2>1, <2>3, QueuedStep
<1>10. CASE Edit \/ Delete
  <2>1. queued' /\ UNCHANGED <<Generated, deployment, rest, op>>
        /\ dspa.phase = "live" /\ dspa'.phase # "absent" /\ dspa'.uid = dspa.uid
    BY <1>0, <1>10 DEF Edit, Delete, objects, Generated, TypeOK
  <2>2. UidsGiven'
    BY <1>0, <2>1 DEF UidsGiven
  <2> QED BY <2>1, <2>2, QueuedStep
<1>11. CASE WriteUserSecret
  <2>1. PICK c \in UserCreds : SetSecret("user", [cred |-> c, owner |-> 0])
    BY <1>11 DEF WriteUserSecret
  <2>2. Generated' = Generated
    BY <1>0, <2>1 DEF SetSecret, TypeOK, Generated
  <2>3. UNCHANGED <<dspa, deployment, rest, queued, op, ready>>
    BY <1>11 DEF WriteUserSecret
  <2> QED BY <2>2, <2>3, OwnerFrame
<1>12. CASE \E n \in DOMAIN secrets : RemoveSecret(n)
  <2>1. PICK n \in Names : RemoveSecret(n)
    BY <1>0, <1>12 DEF TypeOK, Names
  <2>2. secrets' = [secrets EXCEPT ![n] = None] /\ UNCHANGED <<dspa, deployment, rest, op, ready>>
    BY <2>1 DEF RemoveSecret, SetSecret
  <2>3. CASE n = "user" /\ ~queued'
    <3>1. Generated' = Generated
      BY <1>0, <2>2, <2>3 DEF TypeOK, Generated
    <3>2. queued' = queued
      BY <2>1, <2>3 DEF RemoveSecret, Wake
    <3> QED BY <2>2, <3>1, <3>2, OwnerFrame
  <2>4. CASE queued'
    <3>1. Generated' = Generated \/ Generated' = None
      BY <1>0, <2>2 DEF TypeOK, Generated, Names
    <3>2. UidsGiven'
      BY <1>0, <2>2, <3>1 DEF UidsGiven
    <3> QED BY <2>4, <3>2, QueuedStep
  <2>5. CASE n = "generated"
    <3>1. queued'
      BY <1>0, <2>1, <2>5 DEF RemoveSecret, UidsGiven, Generated, Wake
    <3> QED BY <3>1, <2>4
  <2> QED BY <2>3, <2>4, <2>5 DEF Names
<1>13. CASE RemoveDeployment \/ RemoveRest
  <2>1. queued' /\ UNCHANGED <<dspa, Generated, op>>
        /\ (deployment' = deployment \/ deployment' = None) /\ (rest' = rest \/ rest' = None)
    BY <1>13 DEF RemoveDeployment, RemoveRest, Wake, Generated
  <2>2. UidsGiven'
    BY <1>0, <1>n, <2>1 DEF UidsGiven
  <2> QED BY <2>1, <2>2, QueuedStep
<1>14. CASE StartPod \/ StopPod \/ UNCHANGED vars
  <2>1. UNCHANGED <<dspa, Generated, deployment, rest, queued, op, ready>>
    BY <1>14 DEF StartPod, StopPod, vars, Generated
  <2> QED BY <2>1, OwnerFrame
<1>15. CASE Crash
  <2>1. queued' /\ UNCHANGED <<dspa, Generated, deployment, rest>> /\ op'.pc = "idle"
    BY <1>15, <1>i DEF Crash, objects, Generated
  <2>2. UidsGiven'
    BY <1>0, <2>1 DEF UidsGiven
  <2> QED BY <2>1, <2>2, QueuedStep
<1> QED
  BY <1>1, <1>3, <1>4, <1>5, <1>6, <1>7, <1>8, <1>9, <1>10, <1>11, <1>12, <1>13,
     <1>14, <1>15 DEF Next, Reconcile, UserRemoves, CollectGarbage

\* A ready DSPA with no event left to handle owns all of its store, for any number
\* of DSPAs of one name, faults and crashes (InjectOwner in Apply; the watches of
\* SetupWithManager put the name back when something is taken away).
THEOREM ReadyStoreIsOwned == Spec => []ReadyOwnsItsStore
<1>1. OwnerInv => ReadyOwnsItsStore
  BY DEF OwnerInv
<1> QED BY <1>1, OwnerInit, OwnerStep, PTL DEF Spec

\* What a deleted DSPA leaves behind is never kept alive: its owner is a DSPA that
\* is gone, so the garbage collector will take it (the owner reference of Apply;
\* a running Reconcile is waited for before the finalizer goes).
THEOREM LeftoversCollected == Spec => []LeftoversAreCollectable
<1>1. OwnerInv => LeftoversAreCollectable
  BY DEF OwnerInv, UidsGiven, LeftoversAreCollectable, Dead
<1> QED BY <1>1, OwnerInit, OwnerStep, PTL DEF Spec

-----------------------------------------------------------------------------
(* No DSPA is forgotten. *)

LEMMA WakeStep == OwnerInv /\ NoDSPAForgotten /\ [Next]_vars => NoDSPAForgotten'
<1> SUFFICES ASSUME OwnerInv, NoDSPAForgotten, [Next]_vars, ~queued'
             PROVE  NoDSPAForgotten'
  BY DEF NoDSPAForgotten
<1>0. TypeOK /\ OpIsCurrent
  BY DEF OwnerInv
<1>1. CASE Start
  <2>1. CASE dspa.phase = "live"
    <3>1. op'.pc = "retrieve"
      BY <1>1, <2>1 DEF Start, Idle
    <3> QED BY <3>1 DEF NoDSPAForgotten
  <2>2. CASE dspa.phase # "live"
    <3>1. dspa'.phase = "absent"
      BY <1>1, <2>2 DEF Start, NoDSPA
    <3> QED BY <3>1 DEF NoDSPAForgotten
  <2> QED BY <2>1, <2>2
<1>2. CASE Retrieve
  <2>1. op'.pc = "retrieve"
    BY <1>0, <1>2, RetrieveStep DEF Fail
  <2> QED BY <2>1 DEF NoDSPAForgotten
<1>3. CASE CheckRetrieved
  <2>1. Goto("secret") \/ Goto("deployment") \/ Goto("check")
    BY <1>3 DEF CheckRetrieved, Fail
  <2>2. op'.pc # "idle"
    BY <1>0, <2>1, GotoFields
  <2> QED BY <2>2 DEF NoDSPAForgotten
<1>4. CASE ApplySecret \/ ApplyDeployment \/ ApplyRest
  <2>1. Goto("deployment") \/ Goto("rest") \/ Goto("check")
    BY <1>0, <1>4, ApplySteps DEF Answered, Fail
  <2>2. op'.pc # "idle"
    BY <1>0, <2>1, GotoFields
  <2> QED BY <2>2 DEF NoDSPAForgotten
<1>5. CASE HealthCheck
  <2>1. /\ op.pc = "check" /\ ready' = op.uid /\ UNCHANGED <<queued, dspa>>
    BY <1>5 DEF HealthCheck, Fail
  <2> QED BY <1>0, <2>1 DEF OpIsCurrent, NoDSPAForgotten
<1>6. CASE Create \/ Edit \/ Delete \/ Crash \/ RemoveDeployment \/ RemoveRest
  BY <1>6 DEF Create, Edit, Delete, Crash, RemoveDeployment, RemoveRest, Wake
<1>7. CASE \/ WriteUserSecret \/ StartPod \/ StopPod \/ UNCHANGED vars
           \/ \E n \in DOMAIN secrets : RemoveSecret(n)
  <2>1. UNCHANGED <<dspa, op, ready>> /\ (queued' = queued \/ queued')
    BY <1>7 DEF WriteUserSecret, StartPod, StopPod, vars, RemoveSecret, Wake
  <2> QED BY <2>1 DEF NoDSPAForgotten
<1> QED
  BY <1>1, <1>2, <1>3, <1>4, <1>5, <1>6, <1>7 DEF Next, Reconcile, UserRemoves, CollectGarbage

\* With an empty queue and no Reconcile running, every DSPA that exists is live and
\* healthy: no error, crash or event in the middle of a Reconcile of a supported
\* version is lost, the safety half of StoreBecomesHealthy (the requeue of every
\* error, the watches).
THEOREM NothingForgotten == Spec => []NoDSPAForgotten
<1>1. Init => NoDSPAForgotten
  BY DEF Init, NoDSPA, NoDSPAForgotten
<1> QED BY <1>1, OwnerInit, OwnerStep, WakeStep, PTL DEF Spec

-----------------------------------------------------------------------------
(* The health check of a store with generated credentials. *)

\* What a reconcile that no event has overtaken has applied holds its credentials.
AppliedIsRead ==
    ~queued /\ op.source = "managed" =>
        /\ op.pc \in {"deployment", "rest", "check"} =>
              Generated # None /\ Generated.cred = op.cred
        /\ op.pc \in {"rest", "check"} =>
              deployment # None /\ deployment.ref = "generated"

\* A running store that nobody was cut off from lets its health check in: unless an
\* event is waiting, the credentials that were read, applied and given to the pod
\* are the same (RetrieveOrCreateSecret, ReconcileDatabase, ReconcileStorage, the
\* health checks).
StoreLetsItsOperatorIn ==
    op.pc = "check" /\ op.source = "managed" /\ ~queued /\ pod # None /\ ~cut =>
        Accepts(op.source, op.cred)

LEMMA AppliedFrame ==
    ASSUME AppliedIsRead, UNCHANGED <<Generated, deployment, op, queued>>
    PROVE  AppliedIsRead'
BY DEF AppliedIsRead, Generated

LEMMA AppliedStep == TypeOK /\ UidsGiven /\ AppliedIsRead /\ [Next]_vars => AppliedIsRead'
<1> SUFFICES ASSUME TypeOK, UidsGiven, AppliedIsRead, [Next]_vars, ~queued' PROVE AppliedIsRead'
  BY DEF AppliedIsRead
<1>i. Idle.pc = "idle"
  BY DEF Idle
<1>1. CASE Start
  <2>1. op'.pc = "retrieve" \/ (op' = op /\ op.pc = "idle")
    BY <1>1 DEF Start, Idle
  <2> QED BY <2>1 DEF AppliedIsRead
<1>2. CASE Retrieve
  <2>1. op'.pc = "retrieve"
    BY <1>2, RetrieveStep DEF Fail
  <2> QED BY <2>1 DEF AppliedIsRead
<1>3. CASE CheckRetrieved
  <2>1. op' = [op EXCEPT !.pc = CASE op.source = "managed" -> "secret"
                                  [] op.source = "custom" -> "deployment"
                                  [] OTHER -> "check"]
    BY <1>3 DEF CheckRetrieved, Goto, Fail
  <2>2. op'.source = op.source /\ (op.source = "managed" => op'.pc = "secret")
    BY <2>1, OpFields DEF Op
  <2> QED BY <2>2 DEF AppliedIsRead
<1>4. CASE ApplySecret
  <2>1. /\ Goto("deployment")
        /\ secrets' = [secrets EXCEPT !["generated"] = [cred |-> op.cred, owner |-> Owner]]
    BY <1>4, ApplySteps DEF Answered, Fail
  <2>2. op'.pc = "deployment" /\ op'.cred = op.cred
    BY <2>1, OpFields DEF Goto, Op
  <2>3. Generated' = [cred |-> op.cred, owner |-> Owner]
    BY <2>1 DEF Generated, TypeOK
  <2>4. Generated' # None /\ Generated'.cred = op.cred
    BY <2>3, Writes, CredentialsAssumption
  <2> QED BY <2>2, <2>4 DEF AppliedIsRead
<1>5. CASE ApplyDeployment
  <2>1. /\ op.pc = "deployment" /\ Goto("rest") /\ UNCHANGED <<queued, Generated>>
        /\ deployment' = [ref |-> SecretName(op.source), owner |-> Owner]
    BY <1>5, ApplySteps DEF Answered, Fail, Generated
  <2>2. op'.pc = "rest" /\ op'.cred = op.cred /\ op'.source = op.source
    BY <2>1, OpFields DEF Goto, Op
  <2>3. deployment' # None /\ (op.source = "managed" => deployment'.ref = "generated")
    BY <2>1, Writes, CredentialsAssumption DEF SecretName
  <2> QED BY <2>1, <2>2, <2>3 DEF AppliedIsRead
<1>6. CASE ApplyRest
  <2>1. op.pc = "rest" /\ Goto("check") /\ UNCHANGED <<queued, Generated, deployment>>
    BY <1>6, ApplySteps DEF Answered, Fail, Generated
  <2>2. op'.pc = "check" /\ op'.cred = op.cred /\ op'.source = op.source
    BY <2>1, OpFields DEF Goto, Op
  <2> QED BY <2>1, <2>2 DEF AppliedIsRead
<1>7. CASE HealthCheck
  <2>1. op' = Idle
    BY <1>7 DEF HealthCheck, Fail
  <2> QED BY <1>i, <2>1 DEF AppliedIsRead
<1>8. CASE Create \/ Edit \/ Delete \/ Crash \/ RemoveDeployment \/ RemoveRest
  BY <1>8 DEF Create, Edit, Delete, Crash, RemoveDeployment, RemoveRest, Wake
<1>9. CASE StartPod \/ StopPod \/ UNCHANGED vars
  <2>1. UNCHANGED <<Generated, deployment, op, queued>>
    BY <1>9 DEF StartPod, StopPod, vars, Generated
  <2> QED BY <2>1, AppliedFrame
<1>10. CASE WriteUserSecret
  <2>1. UNCHANGED <<Generated, deployment, op, queued>>
    BY <1>10 DEF WriteUserSecret, SetSecret, Generated, TypeOK
  <2> QED BY <2>1, AppliedFrame
<1>11. CASE \E n \in DOMAIN secrets : RemoveSecret(n)
  <2>1. PICK n \in DOMAIN secrets : RemoveSecret(n)
    BY <1>11
  <2>2. n # "generated" /\ UNCHANGED queued
    BY <2>1 DEF RemoveSecret, UidsGiven, Generated, Wake
  <2>3. UNCHANGED <<Generated, deployment, op, queued>>
    BY <2>1, <2>2 DEF RemoveSecret, SetSecret, Generated, TypeOK
  <2> QED BY <2>3, AppliedFrame
<1> QED
  BY <1>1, <1>2, <1>3, <1>4, <1>5, <1>6, <1>7, <1>8, <1>9, <1>10, <1>11
     DEF Next, Reconcile, UserRemoves, CollectGarbage

\* For every number of keys, passwords, faults, crashes and re-creations, the health
\* check of a reconcile that no event overtook gets into the store it deployed,
\* unless somebody else took the Secret away from the running pod: the operator
\* never locks itself out (RetrieveOrCreateSecret, ReconcileDatabase,
\* ReconcileStorage, the health checks).
THEOREM HealthCheckGetsIn == Spec => []StoreLetsItsOperatorIn
<1>1. Init => SecretInv /\ OwnerInv /\ AppliedIsRead
  BY SecretInit, OwnerInit DEF Init, Idle, AppliedIsRead
<1>2. SecretInv /\ OwnerInv /\ AppliedIsRead /\ [Next]_vars
        => SecretInv' /\ OwnerInv' /\ AppliedIsRead'
  BY SecretStep, OwnerStep, AppliedStep DEF OwnerInv
<1>3. SecretInv /\ AppliedIsRead => StoreLetsItsOperatorIn
  BY DEF SecretInv, AppliedIsRead, RunningStoreKeepsItsSecret, Matches, Accepts,
         StoreLetsItsOperatorIn, Generated
<1> QED BY <1>1, <1>2, <1>3, PTL DEF Spec

=============================================================================
