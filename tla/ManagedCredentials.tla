------------------------- MODULE ManagedCredentials -------------------------
(***************************************************************************)
(* The credentials of a DSPA's store: the MariaDB database (one key) or the  *)
(* MinIO object store (two keys).  A password is generated while parameters  *)
(* are extracted, kept in a Secret, handed to the store's pod through a      *)
(* secretKeyRef of its Deployment, and used by the health check.  Meanwhile  *)
(* the DSPA is edited, deleted and created again under the same name, the    *)
(* garbage collector follows behind, pods come and go, and calls fail.      *)
(*                                                                         *)
(* The DSPAs here are of a supported version throughout: Reconcile returns   *)
(* before all this for any other, without a requeue and for one that is      *)
(* being deleted too, and what becomes of those is the business of           *)
(* DSPAReconciler.                                                         *)
(***************************************************************************)
EXTENDS Naturals

CONSTANTS
    NKeys,          \* keys of the Secret: 1 for MariaDB, 2 for MinIO
    Passwords,      \* what passwordGen can return
    UserCreds,      \* what users put into a Secret of their own
    ExternalCred,   \* what an external store accepts
    Missing,        \* the empty string: no such key
    None,           \* no such object
    MaxUid,         \* bound: DSPAs of this name, one after the other
    MaxEvents       \* bound: user's operations, faults, crashes together

Keys == 1..NKeys
Creds == [Keys -> Passwords \cup {Missing}]
OwnedSecret == [cred : Creds, owner : 0..MaxUid]
Deployment == [ref : {"generated", "user"}, owner : 0..MaxUid]

ASSUME CredentialsAssumption ==
    /\ NKeys \in Nat \ {0}
    /\ Missing \notin Passwords
    /\ None \notin OwnedSecret \cup Deployment \cup 0..MaxUid \cup Creds
    /\ UserCreds \subseteq Creds /\ ExternalCred \in [Keys -> Passwords]
    /\ MaxUid \in Nat /\ MaxEvents \in Nat

VARIABLES
    dspa,       \* the DSPA: its uid, its phase, where its store comes from
    uids,       \* uids given away so far
    secrets,    \* the Secret under the generated name and the user's own
    deployment, \* the store's Deployment: the Secret it refers to, its owner
    rest,       \* PVC, Service, ServiceAccount, ...: the owner
    pod,        \* credentials the store's pod was started with
    cut,        \* somebody took the Secret away from the running pod
    queued,     \* the DSPA's name is in the workqueue
    op,         \* the running Reconcile
    ready,      \* the uid whose health check passed last, 0 if it failed
    events

vars == <<dspa, uids, secrets, deployment, rest, pod, cut, queued, op, ready, events>>
objects == <<secrets, deployment, rest, pod, cut>>

\* spec.database or spec.objectStorage: deployed with generated credentials,
\* deployed with a Secret of the user's, not deployed, or external.
Sources == {"managed", "custom", "off", "external"}

\* DSPAParams.CredentialsSecret
SecretName(source) == IF source \in {"custom", "external"} THEN "user" ELSE "generated"

Deploys(source) == source \in {"managed", "custom"}

NoDSPA == [uid |-> 0, phase |-> "absent", source |-> "managed"]
Idle == [pc |-> "idle", uid |-> 0, source |-> "managed", key |-> 1,
         cred |-> [k \in Keys |-> Missing]]

Event == events < MaxEvents /\ events' = events + 1

\* Credentials some part of the system holds.
InUse == {op.cred[k] : k \in Keys}
         \cup UNION {{secrets[n].cred[k] : k \in Keys} :
                        n \in {m \in DOMAIN secrets : secrets[m] # None}}
         \cup (IF pod = None THEN {} ELSE {pod[k] : k \in Keys})
         \cup {ExternalCred[k] : k \in Keys}
         \cup UNION {{c[k] : k \in Keys} : c \in UserCreds}

\* Random enough not to repeat one of those, as long as there are others.
passwordGen == CHOOSE p \in Passwords : Passwords \ InUse # {} => p \notin InUse

\* The pod's Secret is as it was when the pod started.
Matches == /\ deployment # None /\ secrets[deployment.ref] # None
           /\ secrets[deployment.ref].cred = pod

-----------------------------------------------------------------------------
(* Reconcile, as far as the store's credentials go. *)

Goto(step) == op' = [op EXCEPT !.pc = step]

\* Mutant: a failed reconcile waits for the next event.
FailOnce ==
    /\ op' = Idle /\ ready' = 0 /\ UNCHANGED queued

\* Every error and every failed health check asks for another try.
Fail ==
    /\ op' = Idle /\ queued' = TRUE /\ ready' = 0

\* The version is supported.  The deletion of a DSPA is over when Reconcile takes its finalizer off.
Start ==
    /\ op.pc = "idle" /\ queued
    /\ queued' = FALSE
    /\ \/ /\ dspa.phase = "live"
          /\ op' = [Idle EXCEPT !.pc = "retrieve", !.uid = dspa.uid,
                                !.source = dspa.source]
          /\ UNCHANGED dspa
       \/ dspa.phase = "deleting" /\ dspa' = NoDSPA /\ UNCHANGED op
       \/ dspa.phase = "absent" /\ UNCHANGED <<dspa, op>>
    /\ UNCHANGED <<uids, objects, ready, events>>

\* Mutant: the error is dropped and the missing value used.
RetrieveIgnoringErrors(source, secret, key) ==
    IF secret # None THEN secret.cred[key] ELSE None

\* What a key of a Secret is taken to be: a missing Secret has no value if the
\* store is external and gets a new password otherwise.
RetrieveOrCreateSecret(source, secret, key) ==
    IF secret # None THEN secret.cred[key]
    ELSE IF source = "external" THEN Missing ELSE passwordGen

Read(value) == op' = [op EXCEPT !.cred[op.key] = value, !.key = @ + 1]

\* Mutant: any error, not only NotFound, makes a new password.
RetrieveOrGenerate ==
    /\ op.pc = "retrieve" /\ op.key \in Keys
    /\ \/ /\ Read(RetrieveOrCreateSecret(op.source, secrets[SecretName(op.source)],
                                         op.key))
          /\ UNCHANGED events
       \/ Event /\ Read(passwordGen)
    /\ UNCHANGED <<dspa, uids, objects, queued, ready>>

\* The keys are read one after the other, each with a Get of its own.
Retrieve ==
    /\ op.pc = "retrieve" /\ op.key \in Keys
    /\ \/ /\ Read(RetrieveOrCreateSecret(op.source, secrets[SecretName(op.source)],
                                         op.key))
          /\ UNCHANGED <<queued, ready, events>>
       \/ Event /\ Fail
    /\ UNCHANGED <<dspa, uids, objects>>

\* SetupDBParams and SetupObjectParams refuse empty credentials; the generated
\* Secret is only applied where no other was named.
CheckRetrieved ==
    /\ op.pc = "retrieve" /\ op.key \notin Keys
    /\ IF \E k \in Keys : op.cred[k] = Missing
       THEN Fail
       ELSE /\ Goto(CASE op.source = "managed" -> "secret"
                      [] op.source = "custom" -> "deployment"
                      [] OTHER -> "check")
            /\ UNCHANGED <<queued, ready>>
    /\ UNCHANGED <<dspa, uids, objects, events>>

\* The answer of an Apply: done, failed, or done and the answer lost.
Apply(effect, unchanged, next) ==
    \/ effect /\ Goto(next) /\ UNCHANGED <<queued, ready, events>>
    \/ effect /\ Event /\ Fail
    \/ unchanged /\ Event /\ Fail

\* Mutant: nobody owns what is applied.
NoOwner == 0

\* The owner injected into everything that is applied.
Owner == op.uid

ApplySecret ==
    /\ op.pc = "secret"
    /\ Apply(secrets' = [secrets EXCEPT !["generated"] =
                            [cred |-> op.cred, owner |-> Owner]],
             UNCHANGED secrets, "deployment")
    /\ UNCHANGED <<dspa, uids, deployment, rest, pod, cut>>

\* A pod template that refers to another Secret replaces the pod (Recreate).
ApplyDeployment ==
    /\ op.pc = "deployment"
    /\ LET ref == SecretName(op.source)
           same == deployment # None /\ deployment.ref = ref
       IN  Apply(/\ deployment' = [ref |-> ref, owner |-> Owner]
                 /\ pod' = IF same THEN pod ELSE None
                 /\ cut' = (same /\ cut),
                 UNCHANGED <<deployment, pod, cut>>, "rest")
    /\ UNCHANGED <<dspa, uids, secrets, rest>>

\* The other templates of the list.
ApplyRest ==
    /\ op.pc = "rest"
    /\ Apply(rest' = Owner, UNCHANGED rest, "check")
    /\ UNCHANGED <<dspa, uids, secrets, deployment, pod, cut>>

\* The store lets in who has the credentials it was started with.
Accepts(source, cred) == cred = IF source = "external" THEN ExternalCred ELSE pod

HealthCheck ==
    /\ op.pc = "check"
    /\ IF Accepts(op.source, op.cred)
       THEN op' = Idle /\ ready' = op.uid /\ UNCHANGED queued
       ELSE Fail
    /\ UNCHANGED <<dspa, uids, objects, events>>

Reconcile ==
    \/ Start \/ Retrieve \/ CheckRetrieved \/ ApplySecret \/ ApplyDeployment
    \/ ApplyRest \/ HealthCheck

-----------------------------------------------------------------------------
(* Users, the garbage collector, the kubelet, the operator's process. *)

Create ==
    /\ dspa.phase = "absent" /\ uids < MaxUid
    /\ \E source \in Sources :
          dspa' = [uid |-> uids + 1, phase |-> "live", source |-> source]
    /\ uids' = uids + 1 /\ queued' = TRUE /\ ready' = 0
    /\ UNCHANGED <<objects, op, events>>

Edit ==
    /\ Event /\ dspa.phase = "live"
    /\ \E source \in Sources \ {dspa.source} : dspa' = [dspa EXCEPT !.source = source]
    /\ queued' = TRUE
    /\ UNCHANGED <<uids, objects, op, ready>>

Delete ==
    /\ dspa.phase = "live"
    /\ dspa' = [dspa EXCEPT !.phase = "deleting"] /\ queued' = TRUE
    /\ UNCHANGED <<uids, objects, op, ready, events>>

\* A Secret other than the one its pod was started with cuts the pod off.
SetSecret(n, secret) ==
    /\ secrets' = [secrets EXCEPT ![n] = secret]
    /\ cut' = (cut \/ (/\ pod # None /\ deployment # None /\ deployment.ref = n
                       /\ (IF secret = None THEN TRUE ELSE secret.cred # pod)))

\* No watch tells the operator about a Secret it does not own.
WriteUserSecret ==
    /\ Event
    /\ \E c \in UserCreds : SetSecret("user", [cred |-> c, owner |-> 0])
    /\ UNCHANGED <<dspa, uids, deployment, rest, pod, queued, op, ready>>

\* Mutant: owned objects are not watched.
WakeNot == UNCHANGED queued

\* A watched object is gone: the name of its owner is queued.
Wake == queued' = TRUE

\* Somebody deletes an object.
RemoveSecret(n) ==
    /\ secrets[n] # None
    /\ SetSecret(n, None)
    /\ IF secrets[n].owner # 0 THEN Wake ELSE UNCHANGED queued
    /\ UNCHANGED <<dspa, uids, deployment, rest, pod, op, ready>>

RemoveDeployment ==
    /\ deployment # None
    /\ deployment' = None /\ pod' = None /\ cut' = FALSE
    /\ Wake
    /\ UNCHANGED <<dspa, uids, secrets, rest, op, ready>>

RemoveRest ==
    /\ rest # None
    /\ rest' = None
    /\ Wake
    /\ UNCHANGED <<dspa, uids, secrets, deployment, pod, cut, op, ready>>

UserRemoves ==
    /\ Event
    /\ (\E n \in DOMAIN secrets : RemoveSecret(n)) \/ RemoveDeployment \/ RemoveRest

\* The owner of an object does not exist any more.
Dead(owner) == owner # 0 /\ owner # dspa.uid

CollectGarbage ==
    /\ UNCHANGED events
    /\ \/ \E n \in DOMAIN secrets :
             secrets[n] # None /\ Dead(secrets[n].owner) /\ RemoveSecret(n)
       \/ deployment # None /\ Dead(deployment.owner) /\ RemoveDeployment
       \/ rest # None /\ Dead(rest) /\ RemoveRest

\* The kubelet resolves the secretKeyRefs; a missing key keeps the pod waiting.
StartPod ==
    /\ pod = None /\ deployment # None
    /\ secrets[deployment.ref] # None
    /\ \A k \in Keys : secrets[deployment.ref].cred[k] # Missing
    /\ pod' = secrets[deployment.ref].cred
    /\ UNCHANGED <<dspa, uids, secrets, deployment, rest, cut, queued, op, ready, events>>

StopPod ==
    /\ Event /\ pod # None
    /\ pod' = None /\ cut' = FALSE
    /\ UNCHANGED <<dspa, uids, secrets, deployment, rest, queued, op, ready>>

\* The restarted operator lists the DSPAs.
Crash ==
    /\ Event
    /\ op' = Idle /\ queued' = TRUE
    /\ UNCHANGED <<dspa, uids, objects, ready>>

Init ==
    /\ dspa = NoDSPA /\ uids = 0
    /\ secrets = [n \in {"generated", "user"} |-> None]
    /\ deployment = None /\ rest = None /\ pod = None /\ cut = FALSE
    /\ queued = FALSE /\ op = Idle /\ ready = 0 /\ events = 0

Next ==
    \/ Reconcile \/ CollectGarbage \/ StartPod
    \/ Create \/ Edit \/ Delete \/ WriteUserSecret \/ UserRemoves \/ StopPod \/ Crash

Spec == Init /\ [][Next]_vars

\* The operator works off its queue, the cluster starts pods and collects garbage.
FairSpec == Spec /\ WF_vars(Reconcile) /\ WF_vars(CollectGarbage) /\ WF_vars(StartPod)

-----------------------------------------------------------------------------
\* The variables hold what the declarations say.
TypeOK ==
    /\ dspa \in [uid : 0..MaxUid, phase : {"absent", "live", "deleting"},
                 source : Sources]
    /\ uids \in 0..MaxUid
    /\ secrets \in [{"generated", "user"} -> OwnedSecret \cup {None}]
    /\ deployment \in Deployment \cup {None}
    /\ rest \in 0..MaxUid \cup {None}
    /\ pod \in [Keys -> Passwords] \cup {None}
    /\ cut \in BOOLEAN /\ queued \in BOOLEAN
    /\ op \in [pc : {"idle", "retrieve", "secret", "deployment", "rest", "check"},
               uid : 0..MaxUid, source : Sources, key : 1..(NKeys + 1), cred : Creds]
    /\ ready \in 0..MaxUid
    /\ events \in 0..MaxEvents

\* The operator never takes the credentials away from a running store: unless a
\* user or the garbage collector removed or replaced the Secret under the pod,
\* the Secret is the one the pod was started with, through every fault, lost
\* answer, crash and re-creation (RetrieveOrCreateSecret, ReconcileDatabase,
\* ReconcileStorage).
RunningStoreKeepsItsSecret == pod # None /\ ~cut => Matches

\* Once the operator is through with a ready DSPA and no event is left to be
\* handled, all it deployed exists and is owned by this DSPA, not by one of the
\* same name before it, so that nothing is about to be collected (InjectOwner in
\* Apply, the Owns watches of SetupWithManager).
ReadyOwnsItsStore ==
    dspa.phase = "live" /\ op.pc = "idle" /\ ~queued /\ ready = dspa.uid
    /\ Deploys(dspa.source) =>
        /\ deployment # None /\ rest = dspa.uid
        /\ deployment.owner = dspa.uid
        /\ dspa.source = "managed" =>
             secrets["generated"] # None /\ secrets["generated"].owner = dspa.uid

\* No DSPA of a supported version is forgotten: when the operator is through and its
\* queue is empty, a DSPA that exists is live and its health check has passed.  A
\* failed call, a crash, an edit or a deletion while Reconcile runs always leaves the
\* name in the queue (the requeue of every error, the watches).
NoDSPAForgotten ==
    dspa.phase # "absent" /\ op.pc = "idle" /\ ~queued =>
        dspa.phase = "live" /\ ready = dspa.uid

\* What keeps a DSPA from working that the operator cannot mend: a store that is
\* not deployed, a Secret of the user's that is missing, incomplete or wrong, and
\* a running pod whose Secret was taken away.
Excused ==
    \/ dspa.source = "off" \/ cut
    \/ /\ SecretName(dspa.source) = "user"
       /\ \/ secrets["user"] = None
          \/ IF dspa.source = "external" THEN secrets["user"].cred # ExternalCred
             ELSE \E k \in Keys : secrets["user"].cred[k] = Missing

\* A DSPA that is left alone ends up healthy, whatever was deleted, re-created,
\* collected or failed before (the requeue after a failed health check).
StoreBecomesHealthy ==
    <>[](dspa.phase = "live" => ready = dspa.uid \/ Excused)

\* A deleted DSPA leaves nothing of what it deployed behind for good, though
\* Reconcile may still apply for it (the owner reference of Apply).
NothingIsLeftBehind ==
    (<>[](dspa.phase = "absent")) =>
        <>[](secrets["generated"] = None /\ deployment = None /\ rest = None)

=============================================================================
