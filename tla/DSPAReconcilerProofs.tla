------------------------ MODULE DSPAReconcilerProofs ------------------------
(***************************************************************************)
(* Proofs that DSPAReconciler keeps its safety properties for every value   *)
(* of its constants: any number of creations, edits, deletions, failing     *)
(* calls, crashes and changes of the surroundings.                          *)
(*                                                                         *)
(* The properties are not inductive.  What makes them so is how old a       *)
(* version of the DSPA Reconcile may be working on: the finalizer is only   *)
(* removed by a reconcile whose copy is the stored version, that copy came  *)
(* from the cache, and so at that moment the cache is up to date and no     *)
(* older version can be read again.                                         *)
(***************************************************************************)
EXTENDS DSPAReconciler, TLAPS

\* The stored DSPA is present and carries the operator's finalizer.
Guarded == obj.present /\ obj.fin

\* The operator's finalizer has been put on the stored DSPA and taken off.
Finalized == obj.everFin /\ ~Guarded

\* Versions come in order and a resourceVersion names one version.
VersionsOrdered ==
    /\ cache.rv <= obj.rv
    /\ cache.rv = obj.rv => cache = obj
    /\ \A w \in watch : /\ cache.rv < w.rv /\ w.rv <= obj.rv
                        /\ w.rv = obj.rv => w = obj

\* A version v that Reconcile reads or may still read is no danger: if it shows
\* a guarded DSPA that is not being deleted, the stored one is that DSPA and is
\* guarded; and if it shows any DSPA that is not being deleted, the stored one
\* has not been finalized.
Harmless(v) ==
    v.present /\ ~v.deleting
        => /\ v.fin => Guarded /\ obj.uid = v.uid
           /\ ~Finalized

ReadableHarmless == Harmless(cache) /\ \A w \in watch : Harmless(w)

\* A version v that Reconcile reads or may still read is of the stored DSPA or of
\* a predecessor, of the stored one if that is guarded, and a deletion it shows
\* has not been taken back.
Older(v) ==
    /\ v.uid <= obj.uid
    /\ v.uid = obj.uid /\ v.deleting => obj.deleting
    /\ Guarded => v.uid = obj.uid

ReadableOlder == Older(cache) /\ \A w \in watch : Older(w)

\* What holds of the stored object itself.
ObjectOK ==
    /\ obj.fin => obj.everFin
    /\ Finalized => ~obj.present \/ obj.deleting
    /\ crb => Guarded
    /\ metrics = "1" => Guarded
    /\ Finalized => metrics = "none"
    /\ obj.present /\ ~obj.deleting /\ obj.cr = "True" => obj.fin /\ crb

Deploying == {"params", "database", "storage", "prereqs", "common", "webhook",
              "managed", "components"}

AfterCommon == {"webhook", "managed", "components"}

\* What holds of the running reconcile.
ReconcileOK ==
    pc # "idle" =>
        /\ mem.present
        /\ mem.rv <= obj.rv
        /\ mem.rv = obj.rv => mem = obj
        /\ Harmless(mem) /\ Older(mem)
        /\ pc \in Deploying => mem.fin /\ ~mem.deleting
        /\ pc \in AfterCommon => crb
        /\ ready = "True" => /\ pc \in {"publish", "status"}
                             /\ mem.fin /\ ~mem.deleting /\ crb
        /\ pc = "finalizer" => mem.rv <= cache.rv
        /\ pc \in {"cleanupWebhook", "removeFinalizer"} =>
              /\ mem.rv <= cache.rv /\ mem.deleting /\ mem.fin
              /\ ~crb /\ metrics = "none"

IdleOK == pc = "idle" => ready = "False"

IInv == /\ TypeOK /\ VersionsOrdered /\ ReadableHarmless /\ ReadableOlder
        /\ ObjectOK /\ ReconcileOK /\ IdleOK

-----------------------------------------------------------------------------
\* A version the API server accepts is stored with the next resourceVersion.
LEMMA StoredType ==
    ASSUME obj \in Version, NEW v \in Version
    PROVE  Stored(v) \in Version
  BY DEF Stored, Version

\* The version that stands for "no DSPA" is a version.
LEMMA NothingType == Nothing \in Version
  BY DEF Nothing, Version

\* What Edit and Delete store is a version.
LEMMA EditedVersion ==
    ASSUME NEW v \in Version, NEW n \in Nat, NEW s \in BOOLEAN, NEW d \in BOOLEAN
    PROVE  [v EXCEPT !.gen = n, !.supported = s, !.db = d] \in Version
BY Zenon DEF Version

LEMMA DeletedVersion ==
    ASSUME NEW v \in Version, NEW n \in Nat, NEW held \in BOOLEAN, NEW present \in BOOLEAN
    PROVE  [v EXCEPT !.deleting = TRUE, !.held = held, !.gen = n, !.present = present]
             \in Version
BY Zenon DEF Version

\* What a commit does to the types of the two variables it writes.
LEMMA CommitType ==
    ASSUME TypeOK, NEW v \in Version, Commit(v)
    PROVE  obj' \in Version /\ watch' \subseteq Version
  BY StoredType DEF TypeOK, Commit

\* The budget of failing calls stays a number.
LEMMA CountFaultType ==
    ASSUME TypeOK, NEW o, CountFault(o)
    PROVE  faults' \in Nat
  BY DEF TypeOK, CountFault

\* Every step keeps the types.
LEMMA TypeStep == TypeOK /\ [Next]_vars => TypeOK'
<1> SUFFICES ASSUME TypeOK, [Next]_vars PROVE TypeOK'
  OBVIOUS
<1> USE ConstantsOK, NothingType
        DEF budgets, localVars, apiVars, Goto, Return, ReturnRequeue
<1>1. CASE GetDSPA
  <2>1. faults' \in Nat
    BY <1>1 DEF TypeOK, GetDSPA, CountFault
  <2>2. queued' \in BOOLEAN
    BY <1>1 DEF GetDSPA
  <2> QED BY <1>1, <2>1, <2>2 DEF TypeOK, GetDSPA, Steps
<1>2. CASE RejectUnsupported
  BY <1>2 DEF TypeOK, RejectUnsupported, Steps
<1>3. CASE EnsureFinalizer
  <2> DEFINE v == [mem EXCEPT !.fin = TRUE, !.everFin = TRUE]
  <2>1. v \in Version
    BY DEF TypeOK, Version
  <2>2. Stored(v) \in Version
    BY <2>1, StoredType DEF TypeOK
  <2>3. obj' \in Version /\ watch' \subseteq Version
    BY <1>3, <2>1, CommitType DEF EnsureFinalizer, TypeOK
  <2>4. faults' \in Nat
    BY <1>3, CountFaultType DEF EnsureFinalizer, TypeOK
  <2> QED
    BY <1>3, <2>2, <2>3, <2>4, Zenon DEF TypeOK, EnsureFinalizer, Steps
<1>4. CASE StopFinalized
  BY <1>4 DEF TypeOK, StopFinalized, Steps
<1>5. CASE CleanUpResources
  <2>1. faults' \in Nat
    BY <1>5, CountFaultType DEF CleanUpResources
  <2> QED
    BY <1>5, <2>1, Zenon DEF TypeOK, CleanUpResources, Steps
<1>6. CASE CleanUpWebhook
  <2>1. faults' \in Nat
    BY <1>6, CountFaultType DEF CleanUpWebhook
  <2> QED
    BY <1>6, <2>1, Zenon DEF TypeOK, CleanUpWebhook, Steps
<1>7. CASE RemoveFinalizer
  <2>1. WithoutFinalizer(mem) \in Version
    BY DEF TypeOK, Version, WithoutFinalizer
  <2>2. obj' \in Version /\ watch' \subseteq Version
    BY <1>7, <2>1, CommitType DEF RemoveFinalizer, TypeOK
  <2>3. faults' \in Nat
    BY <1>7, CountFaultType DEF RemoveFinalizer
  <2> QED
    BY <1>7, <2>2, <2>3, Zenon DEF TypeOK, RemoveFinalizer, Steps
<1>8. CASE ExtractParams
  BY <1>8 DEF TypeOK, ExtractParams, Steps
<1>9. CASE ReconcileDatabase
  <2> DEFINE v == [mem EXCEPT !.db = TRUE, !.gen = @ + 1]
  <2>0. mem.gen + 1 \in Nat
    BY DEF TypeOK, Version
  <2>1. v \in Version
    BY <2>0, Zenon DEF TypeOK, Version
  <2>2. Stored(v) \in Version
    BY <2>1, StoredType DEF TypeOK
  <2>3. obj' \in Version /\ watch' \subseteq Version
    BY <1>9, <2>1, CommitType DEF ReconcileDatabase, TypeOK
  <2>4. faults' \in Nat
    BY <1>9, CountFaultType DEF ReconcileDatabase, TypeOK
  <2> QED
    BY <1>9, <2>2, <2>3, <2>4, Zenon DEF TypeOK, ReconcileDatabase, Steps
<1>10. CASE ReconcileStorage
  <2>1. faults' \in Nat
    BY <1>10, CountFaultType DEF ReconcileStorage
  <2> QED
    BY <1>10, <2>1, Zenon DEF TypeOK, ReconcileStorage, Steps
<1>11. CASE CheckPrereqs
  BY <1>11 DEF TypeOK, CheckPrereqs, Steps
<1>12. CASE ReconcileCommon
  <2>1. faults' \in Nat
    BY <1>12, CountFaultType DEF ReconcileCommon
  <2> QED
    BY <1>12, <2>1, Zenon DEF TypeOK, ReconcileCommon, Steps
<1>13. CASE ReconcileWebhook
  <2>1. faults' \in Nat
    BY <1>13, CountFaultType DEF ReconcileWebhook
  <2> QED
    BY <1>13, <2>1, Zenon DEF TypeOK, ReconcileWebhook, Steps
<1>14. CASE ValidateManagedPipelines
  BY <1>14 DEF TypeOK, ValidateManagedPipelines, Steps
<1>15. CASE ReconcileComponents
  <2>1. faults' \in Nat
    BY <1>15, CountFaultType DEF ReconcileComponents
  <2> QED
    BY <1>15, <2>1, Zenon DEF TypeOK, ReconcileComponents, Steps
<1>16. CASE PublishMetrics
  BY <1>16 DEF TypeOK, PublishMetrics, Steps
<1>17. CASE UpdateStatus
  <2>1. WithStatus(cache) \in Version
    BY DEF TypeOK, Version, WithStatus
  <2>2. obj' \in Version /\ watch' \subseteq Version
    BY <1>17, <2>1, CommitType DEF UpdateStatus, TypeOK
  <2>3. faults' \in Nat
    BY <1>17, CountFaultType DEF UpdateStatus
  <2> QED
    BY <1>17, <2>2, <2>3, Zenon DEF TypeOK, UpdateStatus, Steps
<1>18. CASE Create
  <2>1. PICK s \in Supported, d \in BOOLEAN :
          Commit([Nothing EXCEPT !.present = TRUE, !.uid = obj.uid + 1,
                                 !.gen = 1, !.supported = s, !.db = d])
    BY <1>18 DEF Create
  <2>2. [Nothing EXCEPT !.present = TRUE, !.uid = obj.uid + 1, !.gen = 1,
                        !.supported = s, !.db = d] \in Version
    <3>1. obj.uid + 1 \in Nat /\ 1 \in Nat
      BY DEF TypeOK, Version
    <3>2. s \in BOOLEAN
      BY Zenon
    <3> QED
      BY <3>1, <3>2, Zenon DEF Version
  <2> QED
    BY <1>18, <2>1, <2>2, CommitType DEF TypeOK, Create, User
<1>19. CASE Edit
  <2>1. PICK s \in Supported, d \in BOOLEAN :
          Commit([obj EXCEPT !.gen = @ + 1, !.supported = s, !.db = d])
    BY <1>19 DEF Edit
  <2>2. [obj EXCEPT !.gen = @ + 1, !.supported = s, !.db = d] \in Version
    <3>1. obj.gen + 1 \in Nat
      BY DEF TypeOK, Version
    <3>2. s \in BOOLEAN
      BY ConstantsOK, Zenon
    <3>3. obj \in Version
      BY DEF TypeOK
    <3> QED
      BY <3>1, <3>2, <3>3, EditedVersion
  <2> QED
    BY <1>19, <2>1, <2>2, CommitType DEF TypeOK, Edit, User
<1>20. CASE Delete
  <2>1. PICK hold \in BOOLEAN :
          Commit([obj EXCEPT !.deleting = TRUE, !.held = hold, !.gen = @ + 1,
                             !.present = (obj.fin \/ hold)])
    BY <1>20 DEF Delete
  <2>2. [obj EXCEPT !.deleting = TRUE, !.held = hold, !.gen = @ + 1,
                    !.present = (obj.fin \/ hold)] \in Version
    <3>1. obj.gen + 1 \in Nat
      BY DEF TypeOK, Version
    <3>2. (obj.fin \/ hold) \in BOOLEAN
      OBVIOUS
    <3>3. obj \in Version
      BY DEF TypeOK
    <3> QED
      BY <3>1, <3>2, <3>3, DeletedVersion
  <2> QED
    BY <1>20, <2>1, <2>2, CommitType DEF TypeOK, Delete, User
<1>21. CASE Release
  <2>1. [obj EXCEPT !.held = FALSE, !.present = obj.fin] \in Version
    BY DEF TypeOK, Version
  <2> QED
    BY <1>21, <2>1, CommitType DEF TypeOK, Release
<1>22. CASE Deliver
  BY <1>22 DEF TypeOK, Deliver
<1>23. CASE Resync
  BY <1>23 DEF TypeOK, Resync
<1>24. CASE EnvChange
  BY <1>24 DEF TypeOK, EnvChange
<1>25. CASE Crash
  <2>1. obj.present \in BOOLEAN
    BY Zenon DEF TypeOK, Version
  <2>2. crashes' \in Nat
    BY <1>25 DEF TypeOK, Crash
  <2> QED
    BY <1>25, <2>1, <2>2, Zenon DEF TypeOK, Crash, Steps
<1>26. CASE UNCHANGED vars
  BY <1>26 DEF TypeOK, vars
<1> QED
  BY <1>1, <1>2, <1>3, <1>4, <1>5, <1>6, <1>7, <1>8, <1>9, <1>10, <1>11,
     <1>12, <1>13, <1>14, <1>15, <1>16, <1>17, <1>18, <1>19, <1>20, <1>21,
     <1>22, <1>23, <1>24, <1>25, <1>26 DEF Next, Worker, World

\* The initial state has the right types.
LEMMA TypeInit == Init => TypeOK
<1> SUFFICES ASSUME Init PROVE TypeOK
  OBVIOUS
<1>1. 0 \in Nat /\ env \in AllProblems
  BY ConstantsOK DEF Init
<1> QED
  BY <1>1, NothingType, Zenon DEF Init, TypeOK, Steps

\* The variables always hold values of their types.
THEOREM TypeCorrect == Spec => []TypeOK
  BY TypeInit, TypeStep, PTL DEF Spec

-----------------------------------------------------------------------------
\* What the API server stores, field by field.
LEMMA StoredFields ==
    ASSUME obj \in Version, NEW v \in Version
    PROVE  /\ Stored(v).rv = obj.rv + 1
           /\ Stored(v).present = v.present /\ Stored(v).uid = v.uid
           /\ Stored(v).gen = v.gen /\ Stored(v).deleting = v.deleting
           /\ Stored(v).fin = v.fin /\ Stored(v).everFin = v.everFin
           /\ Stored(v).cr = v.cr
  BY DEF Stored, Version

\* A commit keeps the versions in order and makes the running reconcile's copy
\* an old one.
LEMMA CommitOrdered ==
    ASSUME TypeOK, VersionsOrdered, NEW v \in Version, Commit(v), cache' = cache
    PROVE  VersionsOrdered' /\ obj'.rv = obj.rv + 1
<1>1. obj' = Stored(v) /\ watch' = watch \cup {obj'} /\ obj'.rv = obj.rv + 1
  BY StoredFields DEF Commit, TypeOK
<1>2. obj.rv \in Nat /\ cache.rv \in Nat /\ \A w \in watch : w.rv \in Nat
  BY DEF TypeOK, Version
<1>3. cache.rv < obj'.rv
  BY <1>1, <1>2 DEF VersionsOrdered
<1>4. ASSUME NEW w \in watch
      PROVE  cache.rv < w.rv /\ w.rv < obj'.rv
  BY <1>1, <1>2 DEF VersionsOrdered
<1> QED
  BY <1>1, <1>2, <1>3, <1>4 DEF VersionsOrdered

\* A commit that neither unguards nor replaces a guarded DSPA, that finalizes
\* none, and whose version is itself harmless, leaves every readable version
\* harmless.
LEMMA CommitHarmless ==
    ASSUME TypeOK, ReadableHarmless, NEW v \in Version, Commit(v),
           cache' = cache,
           Guarded => Guarded' /\ obj'.uid = obj.uid,
           Finalized' => Finalized,
           obj'.present /\ ~obj'.deleting => ~Finalized'
    PROVE  ReadableHarmless'
<1>1. watch' = watch \cup {obj'}
  BY DEF Commit
<1>2. Harmless(cache)'
  BY DEF ReadableHarmless, Harmless
<1>3. ASSUME NEW w \in watch' PROVE Harmless(w)'
  <2>1. CASE w \in watch
    BY <2>1 DEF ReadableHarmless, Harmless
  <2>2. CASE w = obj'
    BY <2>2 DEF Harmless, Guarded
  <2> QED BY <1>1, <1>3, <2>1, <2>2
<1> QED BY <1>2, <1>3 DEF ReadableHarmless

\* A commit to the same DSPA, which takes no deletion back, keeps every readable
\* version older.
LEMMA CommitOlder ==
    ASSUME TypeOK, ReadableOlder, NEW v \in Version, Commit(v),
           cache' = cache,
           obj'.uid = obj.uid, obj.deleting => obj'.deleting,
           Guarded' => Guarded
    PROVE  ReadableOlder'
<1>1. watch' = watch \cup {obj'}
  BY DEF Commit
<1>2. obj.uid \in Nat
  BY DEF TypeOK, Version
<1>3. Older(cache)'
  BY DEF ReadableOlder, Older
<1>4. ASSUME NEW w \in watch' PROVE Older(w)'
  <2>1. CASE w \in watch
    BY <2>1 DEF ReadableOlder, Older
  <2>2. CASE w = obj'
    BY <2>2, <1>2 DEF Older
  <2> QED BY <1>1, <1>4, <2>1, <2>2
<1> QED BY <1>3, <1>4 DEF ReadableOlder

-----------------------------------------------------------------------------
\* Steps that leave the stored object, the cache and the watch alone.
LEMMA LocalFrame ==
    ASSUME VersionsOrdered, ReadableHarmless, ReadableOlder,
           UNCHANGED <<obj, cache, watch>>
    PROVE  VersionsOrdered' /\ ReadableHarmless' /\ ReadableOlder'
  BY DEF VersionsOrdered, ReadableHarmless, ReadableOlder, Harmless, Older,
         Guarded, Finalized

\* Reading the DSPA from the cache keeps the invariant: what the cache holds is an
\* older version, and harmless.
LEMMA GetDSPAStep ==
    ASSUME IInv, TypeOK', GetDSPA PROVE IInv'
<1>1. VersionsOrdered' /\ ReadableHarmless' /\ ReadableOlder'
  BY LocalFrame DEF IInv, GetDSPA
<1>2. ObjectOK'
  BY DEF IInv, TypeOK, ObjectOK, ReconcileOK, Harmless, Older, Guarded,
         Finalized, GetDSPA, localVars
<1>3. ReconcileOK' /\ IdleOK'
  <2>0. \/ /\ cache.present
           /\ pc' = "finalizer" /\ mem' = cache /\ ready' = "False"
           /\ UNCHANGED <<obj, cache, watch, crb, metrics>>
        \/ pc' = "idle" /\ ready' = ready /\ pc = "idle"
    BY DEF GetDSPA, localVars
  <2>1. CASE /\ cache.present
             /\ pc' = "finalizer" /\ mem' = cache /\ ready' = "False"
             /\ UNCHANGED <<obj, cache, watch, crb, metrics>>
    <3>1. cache.rv \in Nat
      BY DEF IInv, TypeOK, Version
    <3> QED
      BY <2>1, <3>1 DEF IInv, ReconcileOK, IdleOK, VersionsOrdered,
         ReadableHarmless, ReadableOlder, Harmless, Older, Guarded, Finalized,
         Deploying, AfterCommon
  <2>2. CASE pc' = "idle" /\ ready' = ready /\ pc = "idle"
    BY <2>2 DEF IInv, ReconcileOK, IdleOK
  <2> QED BY <2>0, <2>1, <2>2
<1> QED BY <1>1, <1>2, <1>3 DEF IInv

\* Returning because of an unsupported dspVersion keeps the invariant.
LEMMA RejectUnsupportedStep ==
    ASSUME IInv, TypeOK', RejectUnsupported PROVE IInv'
<1>1. VersionsOrdered' /\ ReadableHarmless' /\ ReadableOlder'
  BY LocalFrame DEF IInv, RejectUnsupported
<1>2. ObjectOK'
  BY DEF IInv, TypeOK, ObjectOK, ReconcileOK, Harmless, Older, Guarded,
         Finalized, RejectUnsupported, Return
<1>3. ReconcileOK' /\ IdleOK'
  BY DEF IInv, TypeOK, ReconcileOK, IdleOK, ReadableHarmless, VersionsOrdered,
         ReadableOlder, Harmless, Older, Guarded, Finalized, Deploying,
         AfterCommon, RejectUnsupported,
         Return
<1> QED BY <1>1, <1>2, <1>3 DEF IInv

\* Returning because the finalizer is gone keeps the invariant.
LEMMA StopFinalizedStep ==
    ASSUME IInv, TypeOK', StopFinalized PROVE IInv'
<1>1. VersionsOrdered' /\ ReadableHarmless' /\ ReadableOlder'
  BY LocalFrame DEF IInv, StopFinalized
<1>2. ObjectOK'
  BY DEF IInv, TypeOK, ObjectOK, ReconcileOK, Harmless, Older, Guarded,
         Finalized, StopFinalized, Return
<1>3. ReconcileOK' /\ IdleOK'
  BY DEF IInv, TypeOK, ReconcileOK, IdleOK, ReadableHarmless, VersionsOrdered,
         ReadableOlder, Harmless, Older, Guarded, Finalized, Deploying,
         AfterCommon, StopFinalized,
         Return
<1> QED BY <1>1, <1>2, <1>3 DEF IInv

\* Deleting the metrics and the ClusterRoleBinding keeps the invariant, whether the
\* call fails, succeeds or loses its answer.
LEMMA CleanUpResourcesStep ==
    ASSUME IInv, TypeOK', CleanUpResources PROVE IInv'
<1>1. VersionsOrdered' /\ ReadableHarmless' /\ ReadableOlder'
  BY LocalFrame DEF IInv, CleanUpResources
<1>2. ObjectOK'
  BY DEF IInv, TypeOK, ObjectOK, ReconcileOK, Harmless, Older, Guarded,
         Finalized, CleanUpResources, Goto, ReturnRequeue
<1>3. ReconcileOK' /\ IdleOK'
  BY DEF IInv, TypeOK, ReconcileOK, IdleOK, ReadableHarmless, VersionsOrdered,
         ReadableOlder, Harmless, Older, Guarded, Finalized, Deploying,
         AfterCommon, CleanUpResources,
         Goto, ReturnRequeue
<1> QED BY <1>1, <1>2, <1>3 DEF IInv

\* Cleaning up the webhook does not touch what the invariant is about.
LEMMA CleanUpWebhookStep ==
    ASSUME IInv, TypeOK', CleanUpWebhook PROVE IInv'
<1>1. VersionsOrdered' /\ ReadableHarmless' /\ ReadableOlder'
  BY LocalFrame DEF IInv, CleanUpWebhook
<1>2. ObjectOK'
  BY DEF IInv, TypeOK, ObjectOK, ReconcileOK, Harmless, Older, Guarded,
         Finalized, CleanUpWebhook, Goto, ReturnRequeue
<1>3. ReconcileOK' /\ IdleOK'
  BY DEF IInv, TypeOK, ReconcileOK, IdleOK, ReadableHarmless, VersionsOrdered,
         ReadableOlder, Harmless, Older, Guarded, Finalized, Deploying,
         AfterCommon, CleanUpWebhook,
         Goto, ReturnRequeue
<1> QED BY <1>1, <1>2, <1>3 DEF IInv

\* Resolving the parameters keeps the invariant.
LEMMA ExtractParamsStep ==
    ASSUME IInv, TypeOK', ExtractParams PROVE IInv'
<1>1. VersionsOrdered' /\ ReadableHarmless' /\ ReadableOlder'
  BY LocalFrame DEF IInv, ExtractParams
<1>2. ObjectOK'
  BY DEF IInv, TypeOK, ObjectOK, ReconcileOK, Harmless, Older, Guarded,
         Finalized, ExtractParams, Goto, ReturnRequeue
<1>3. ReconcileOK' /\ IdleOK'
  BY DEF IInv, TypeOK, ReconcileOK, IdleOK, ReadableHarmless, VersionsOrdered,
         ReadableOlder, Harmless, Older, Guarded, Finalized, Deploying,
         AfterCommon, ExtractParams,
         Goto, ReturnRequeue
<1> QED BY <1>1, <1>2, <1>3 DEF IInv

\* Applying the object store keeps the invariant.
LEMMA ReconcileStorageStep ==
    ASSUME IInv, TypeOK', ReconcileStorage PROVE IInv'
<1>1. VersionsOrdered' /\ ReadableHarmless' /\ ReadableOlder'
  BY LocalFrame DEF IInv, ReconcileStorage
<1>2. ObjectOK'
  BY DEF IInv, TypeOK, ObjectOK, ReconcileOK, Harmless, Older, Guarded,
         Finalized, ReconcileStorage, Goto, ReturnRequeue
<1>3. ReconcileOK' /\ IdleOK'
  BY DEF IInv, TypeOK, ReconcileOK, IdleOK, ReadableHarmless, VersionsOrdered,
         ReadableOlder, Harmless, Older, Guarded, Finalized, Deploying,
         AfterCommon, ReconcileStorage,
         Goto, ReturnRequeue
<1> QED BY <1>1, <1>2, <1>3 DEF IInv

\* The health checks keep the invariant.
LEMMA CheckPrereqsStep ==
    ASSUME IInv, TypeOK', CheckPrereqs PROVE IInv'
<1>1. VersionsOrdered' /\ ReadableHarmless' /\ ReadableOlder'
  BY LocalFrame DEF IInv, CheckPrereqs
<1>2. ObjectOK'
  BY DEF IInv, TypeOK, ObjectOK, ReconcileOK, Harmless, Older, Guarded,
         Finalized, CheckPrereqs, Goto, ReturnRequeue
<1>3. ReconcileOK' /\ IdleOK'
  BY DEF IInv, TypeOK, ReconcileOK, IdleOK, ReadableHarmless, VersionsOrdered,
         ReadableOlder, Harmless, Older, Guarded, Finalized, Deploying,
         AfterCommon, CheckPrereqs,
         Goto, ReturnRequeue
<1> QED BY <1>1, <1>2, <1>3 DEF IInv

\* Applying the ClusterRoleBinding keeps the invariant: the stored DSPA carries the
\* finalizer, because the reconcile got past EnsureFinalizer.
LEMMA ReconcileCommonStep ==
    ASSUME IInv, TypeOK', ReconcileCommon PROVE IInv'
<1>1. VersionsOrdered' /\ ReadableHarmless' /\ ReadableOlder'
  BY LocalFrame DEF IInv, ReconcileCommon
<1>2. ObjectOK'
  <2>1. Guarded /\ Guarded'
    BY DEF IInv, ReconcileOK, Harmless, Guarded, Deploying, ReconcileCommon
  <2>2. UNCHANGED <<obj, metrics>> /\ (crb => crb')
    BY DEF IInv, TypeOK, ReconcileCommon
  <2> QED
    BY <2>1, <2>2 DEF IInv, ObjectOK, Guarded, Finalized
<1>3. ReconcileOK' /\ IdleOK'
  BY DEF IInv, TypeOK, ReconcileOK, IdleOK, ReadableHarmless, VersionsOrdered,
         ReadableOlder, Harmless, Older, Guarded, Finalized, Deploying,
         AfterCommon, ReconcileCommon,
         Goto, ReturnRequeue
<1> QED BY <1>1, <1>2, <1>3 DEF IInv

\* Applying the webhook keeps the invariant.
LEMMA ReconcileWebhookStep ==
    ASSUME IInv, TypeOK', ReconcileWebhook PROVE IInv'
<1>1. VersionsOrdered' /\ ReadableHarmless' /\ ReadableOlder'
  BY LocalFrame DEF IInv, ReconcileWebhook
<1>2. ObjectOK'
  BY DEF IInv, TypeOK, ObjectOK, ReconcileOK, Harmless, Older, Guarded,
         Finalized, ReconcileWebhook, Goto, ReturnRequeue
<1>3. ReconcileOK' /\ IdleOK'
  BY DEF IInv, TypeOK, ReconcileOK, IdleOK, ReadableHarmless, VersionsOrdered,
         ReadableOlder, Harmless, Older, Guarded, Finalized, Deploying,
         AfterCommon, ReconcileWebhook,
         Goto, ReturnRequeue
<1> QED BY <1>1, <1>2, <1>3 DEF IInv

\* Validating the managed pipelines keeps the invariant.
LEMMA ValidateManagedPipelinesStep ==
    ASSUME IInv, TypeOK', ValidateManagedPipelines PROVE IInv'
<1>1. VersionsOrdered' /\ ReadableHarmless' /\ ReadableOlder'
  BY LocalFrame DEF IInv, ValidateManagedPipelines
<1>2. ObjectOK'
  BY DEF IInv, TypeOK, ObjectOK, ReconcileOK, Harmless, Older, Guarded,
         Finalized, ValidateManagedPipelines, Return
<1>3. ReconcileOK' /\ IdleOK'
  BY DEF IInv, TypeOK, ReconcileOK, IdleOK, ReadableHarmless, VersionsOrdered,
         ReadableOlder, Harmless, Older, Guarded, Finalized, Deploying,
         AfterCommon, ValidateManagedPipelines,
         Return
<1> QED BY <1>1, <1>2, <1>3 DEF IInv

\* Applying the components keeps the invariant: a positive verdict is reached only
\* after ReconcileCommon.
LEMMA ReconcileComponentsStep ==
    ASSUME IInv, TypeOK', ReconcileComponents PROVE IInv'
<1>1. VersionsOrdered' /\ ReadableHarmless' /\ ReadableOlder'
  BY LocalFrame DEF IInv, ReconcileComponents
<1>2. ObjectOK'
  BY DEF IInv, TypeOK, ObjectOK, ReconcileOK, Harmless, Older, Guarded,
         Finalized, ReconcileComponents, ReturnRequeue
<1>3. ReconcileOK' /\ IdleOK'
  BY DEF IInv, TypeOK, ReconcileOK, IdleOK, ReadableHarmless, VersionsOrdered,
         ReadableOlder, Harmless, Older, Guarded, Finalized, Deploying,
         AfterCommon, ReconcileComponents,
         ReturnRequeue
<1> QED BY <1>1, <1>2, <1>3 DEF IInv

\* Publishing the gauge keeps the invariant: a DSPA being deleted gets none.
LEMMA PublishMetricsStep ==
    ASSUME IInv, TypeOK', PublishMetrics PROVE IInv'
<1>1. VersionsOrdered' /\ ReadableHarmless' /\ ReadableOlder'
  BY LocalFrame DEF IInv, PublishMetrics
<1>2. ObjectOK'
  BY DEF IInv, TypeOK, ObjectOK, ReconcileOK, Harmless, Older, Guarded,
         Finalized, PublishMetrics, Goto
<1>3. ReconcileOK' /\ IdleOK'
  BY DEF IInv, TypeOK, ReconcileOK, IdleOK, ReadableHarmless, VersionsOrdered,
         ReadableOlder, Harmless, Older, Guarded, Finalized, Deploying,
         AfterCommon, PublishMetrics,
         Goto
<1> QED BY <1>1, <1>2, <1>3 DEF IInv

-----------------------------------------------------------------------------
\* A commit by somebody else: the running reconcile's copy stays what it was.
LEMMA ForeignCommit ==
    ASSUME IInv, TypeOK', NEW v \in Version, Commit(v),
           UNCHANGED <<cache, localVars, crb, metrics>>,
           Guarded => Guarded' /\ obj'.uid = obj.uid,
           Finalized' => Finalized,
           obj'.present /\ ~obj'.deleting => ~Finalized',
           ReadableOlder', pc # "idle" => Older(mem)'
    PROVE  VersionsOrdered' /\ ReadableHarmless' /\ ReconcileOK' /\ IdleOK'
<1>1. VersionsOrdered' /\ obj'.rv = obj.rv + 1
  BY CommitOrdered DEF IInv
<1>2. ReadableHarmless'
  BY CommitHarmless DEF IInv
<1>3. UNCHANGED <<pc, mem, ready, cache, crb, metrics>>
  BY DEF localVars
<1>4. obj.rv \in Nat /\ mem.rv \in Nat
  BY DEF IInv, TypeOK, Version
<1>5. ReconcileOK'
  <2> SUFFICES ASSUME pc # "idle" PROVE ReconcileOK'
    BY <1>3 DEF ReconcileOK
  <2>1. mem.rv < obj'.rv
    BY <1>1, <1>4 DEF IInv, ReconcileOK
  <2>2. Harmless(mem)'
    BY <1>3 DEF IInv, ReconcileOK, Harmless
  <2> QED
    BY <1>1, <1>3, <1>4, <2>1, <2>2 DEF IInv, ReconcileOK
<1>6. IdleOK'
  BY <1>3 DEF IInv, IdleOK
<1> QED BY <1>1, <1>2, <1>5, <1>6

\* Creating a DSPA keeps the invariant: the name was free, so there was no
\* ClusterRoleBinding.
LEMMA CreateStep ==
    ASSUME IInv, TypeOK', Create PROVE IInv'
<1>1. PICK s \in Supported, d \in BOOLEAN :
        Commit([Nothing EXCEPT !.present = TRUE, !.uid = obj.uid + 1,
                               !.gen = 1, !.supported = s, !.db = d])
  BY DEF Create
<1> DEFINE v == [Nothing EXCEPT !.present = TRUE, !.uid = obj.uid + 1,
                                !.gen = 1, !.supported = s, !.db = d]
<1>2. v \in Version
  <2>1. obj.uid + 1 \in Nat /\ 1 \in Nat
    BY DEF IInv, TypeOK, Version
  <2>2. s \in BOOLEAN
    BY ConstantsOK, Zenon
  <2> QED
    BY <2>1, <2>2, NothingType, Zenon DEF Version
<1>3. v.uid = obj.uid + 1 /\ ~v.fin /\ ~v.deleting /\ ~v.everFin /\ v.present
      /\ v.cr = "none"
  BY DEF Nothing
<1>4. /\ obj'.uid = obj.uid + 1 /\ ~obj'.fin /\ ~obj'.deleting /\ ~obj'.everFin
      /\ obj'.present /\ obj'.cr = "none"
  BY <1>1, <1>2, <1>3, StoredFields DEF Commit, IInv, TypeOK
<1>5. UNCHANGED <<cache, localVars, crb, metrics>> /\ ~obj.present
  BY DEF Create, User
<1>6. ~Guarded /\ ~Guarded' /\ ~Finalized'
  BY <1>4, <1>5 DEF Guarded, Finalized
<1>7. obj.uid \in Nat /\ cache.uid \in Nat /\ mem.uid \in Nat
      /\ \A w \in watch : w.uid \in Nat
  BY DEF IInv, TypeOK, Version
<1>8. ReadableOlder'
  <2>1. Older(cache)'
    BY <1>4, <1>5, <1>6, <1>7 DEF IInv, ReadableOlder, Older
  <2>2. watch' = watch \cup {obj'}
    BY <1>1 DEF Commit
  <2>3. ASSUME NEW w \in watch' PROVE Older(w)'
    <3>1. CASE w \in watch
      BY <3>1, <1>4, <1>6, <1>7 DEF IInv, ReadableOlder, Older
    <3>2. CASE w = obj'
      BY <3>2, <1>4, <1>6, <1>7 DEF Older
    <3> QED BY <2>2, <2>3, <3>1, <3>2
  <2> QED BY <2>1, <2>3 DEF ReadableOlder
<1>9. pc # "idle" => Older(mem)'
  BY <1>4, <1>5, <1>6, <1>7 DEF IInv, ReconcileOK, Older, localVars
<1>10. VersionsOrdered' /\ ReadableHarmless' /\ ReconcileOK' /\ IdleOK'
  BY <1>1, <1>2, <1>5, <1>6, <1>8, <1>9, ForeignCommit
<1>11. ObjectOK'
  BY <1>4, <1>5, <1>6 DEF IInv, ObjectOK
<1> QED BY <1>8, <1>10, <1>11 DEF IInv

\* Editing the spec keeps the invariant.
LEMMA EditStep ==
    ASSUME IInv, TypeOK', Edit PROVE IInv'
<1>1. PICK s \in Supported, d \in BOOLEAN :
        Commit([obj EXCEPT !.gen = @ + 1, !.supported = s, !.db = d])
  BY DEF Edit
<1> DEFINE v == [obj EXCEPT !.gen = @ + 1, !.supported = s, !.db = d]
<1>2. v \in Version
  <2>1. obj.gen + 1 \in Nat
    BY DEF IInv, TypeOK, Version
  <2>2. s \in BOOLEAN
    BY ConstantsOK, Zenon
  <2>3. obj \in Version
    BY DEF IInv, TypeOK
  <2> QED
    BY <2>1, <2>2, <2>3, EditedVersion
<1>3. /\ obj'.uid = obj.uid /\ obj'.fin = obj.fin /\ obj'.deleting = obj.deleting
      /\ obj'.everFin = obj.everFin /\ obj'.present = obj.present
      /\ obj'.cr = obj.cr
  <2>1. /\ v.uid = obj.uid /\ v.fin = obj.fin /\ v.deleting = obj.deleting
        /\ v.everFin = obj.everFin /\ v.present = obj.present /\ v.cr = obj.cr
    BY DEF IInv, TypeOK, Version
  <2> QED
    BY <1>1, <1>2, <2>1, StoredFields DEF Commit, IInv, TypeOK
<1>4. UNCHANGED <<cache, localVars, crb, metrics>>
  BY DEF Edit, User
<1>5. Guarded' = Guarded /\ Finalized' = Finalized
  BY <1>3 DEF Guarded, Finalized
<1>6. ReadableOlder'
  BY <1>1, <1>2, <1>3, <1>4, <1>5, CommitOlder DEF IInv
<1>7. pc # "idle" => Older(mem)'
  BY <1>3, <1>4, <1>5 DEF IInv, ReconcileOK, Older, localVars
<1>8. obj'.present /\ ~obj'.deleting => ~Finalized'
  BY <1>3, <1>5 DEF IInv, ObjectOK
<1>9. VersionsOrdered' /\ ReadableHarmless' /\ ReconcileOK' /\ IdleOK'
  BY <1>1, <1>2, <1>3, <1>4, <1>5, <1>6, <1>7, <1>8, ForeignCommit
<1>10. ObjectOK'
  BY <1>3, <1>4, <1>5 DEF IInv, ObjectOK
<1> QED BY <1>6, <1>9, <1>10 DEF IInv

\* Deleting a DSPA keeps the invariant: with the finalizer it stays, without it
\* there is nothing to clean up.
LEMMA DeleteStep ==
    ASSUME IInv, TypeOK', Delete PROVE IInv'
<1>1. PICK hold \in BOOLEAN :
        Commit([obj EXCEPT !.deleting = TRUE, !.held = hold, !.gen = @ + 1,
                           !.present = (obj.fin \/ hold)])
  BY DEF Delete
<1> DEFINE v == [obj EXCEPT !.deleting = TRUE, !.held = hold, !.gen = @ + 1,
                            !.present = (obj.fin \/ hold)]
<1>2. v \in Version
  <2>1. obj.gen + 1 \in Nat
    BY DEF IInv, TypeOK, Version
  <2>2. (obj.fin \/ hold) \in BOOLEAN
    OBVIOUS
  <2>3. obj \in Version
    BY DEF IInv, TypeOK
  <2> QED
    BY <2>1, <2>2, <2>3, DeletedVersion
<1>3. /\ v.uid = obj.uid /\ v.fin = obj.fin /\ v.deleting
      /\ v.everFin = obj.everFin /\ v.present = (obj.fin \/ hold)
  BY DEF IInv, TypeOK, Version
<1>4. /\ obj'.uid = obj.uid /\ obj'.fin = obj.fin /\ obj'.deleting
      /\ obj'.everFin = obj.everFin /\ obj'.present = (obj.fin \/ hold)
  <2>1. obj' = Stored(v) /\ obj \in Version
    BY <1>1 DEF Commit, IInv, TypeOK
  <2> HIDE DEF v
  <2> QED BY <1>2, <1>3, <2>1, StoredFields
<1>5. UNCHANGED <<cache, localVars, crb, metrics>> /\ obj.present
      /\ ~obj.deleting
  BY DEF Delete, User
<1>6. Guarded' = Guarded /\ Finalized' = Finalized
  BY <1>4, <1>5 DEF Guarded, Finalized
<1>7. ReadableOlder'
  BY <1>1, <1>2, <1>4, <1>5, <1>6, CommitOlder DEF IInv
<1>8. pc # "idle" => Older(mem)'
  BY <1>4, <1>5, <1>6 DEF IInv, ReconcileOK, Older, localVars
<1>9. VersionsOrdered' /\ ReadableHarmless' /\ ReconcileOK' /\ IdleOK'
  BY <1>1, <1>2, <1>4, <1>5, <1>6, <1>7, <1>8, ForeignCommit
<1>10. ObjectOK'
  BY <1>4, <1>5, <1>6 DEF IInv, ObjectOK
<1> QED BY <1>7, <1>9, <1>10 DEF IInv

\* The end of a foreground deletion keeps the invariant.
LEMMA ReleaseStep ==
    ASSUME IInv, TypeOK', Release PROVE IInv'
<1> DEFINE v == [obj EXCEPT !.held = FALSE, !.present = obj.fin]
<1>1. Commit(v) /\ UNCHANGED <<cache, localVars, crb, metrics>>
      /\ obj.present /\ obj.deleting
  BY DEF Release
<1>2. v \in Version
  BY DEF IInv, TypeOK, Version
<1>3. /\ obj'.uid = obj.uid /\ obj'.fin = obj.fin /\ obj'.deleting
      /\ obj'.everFin = obj.everFin /\ obj'.present = obj.fin
  <2>1. /\ v.uid = obj.uid /\ v.fin = obj.fin /\ v.deleting = obj.deleting
        /\ v.everFin = obj.everFin /\ v.present = obj.fin
    BY DEF IInv, TypeOK, Version
  <2> QED
    BY <1>1, <1>2, <2>1, StoredFields DEF Commit, IInv, TypeOK
<1>4. Guarded' = Guarded /\ Finalized' = Finalized
  BY <1>1, <1>3 DEF Guarded, Finalized
<1>5. ReadableOlder'
  BY <1>1, <1>2, <1>3, <1>4, CommitOlder DEF IInv
<1>6. pc # "idle" => Older(mem)'
  BY <1>1, <1>3, <1>4 DEF IInv, ReconcileOK, Older, localVars
<1>7. VersionsOrdered' /\ ReadableHarmless' /\ ReconcileOK' /\ IdleOK'
  BY <1>1, <1>2, <1>3, <1>4, <1>5, <1>6, ForeignCommit
<1>8. ObjectOK'
  BY <1>1, <1>3, <1>4 DEF IInv, ObjectOK
<1> QED BY <1>5, <1>7, <1>8 DEF IInv

-----------------------------------------------------------------------------
\* An Update of Reconcile is accepted only when its copy is the stored version.
LEMMA AcceptedUpdate ==
    ASSUME IInv, pc # "idle", NEW call, NEW o \in UpdateOutcomes(call),
           o \in {"ok", "lost"}
    PROVE  mem = obj
  BY DEF UpdateOutcomes, IInv, ReconcileOK

\* If that copy was read from the cache and never written, the cache is up to
\* date and nothing is left to deliver.
LEMMA UpToDate ==
    ASSUME IInv, mem = obj, mem.rv <= cache.rv
    PROVE  cache = obj /\ watch = {}
<1>1. cache.rv \in Nat /\ obj.rv \in Nat /\ \A w \in watch : w.rv \in Nat
  BY DEF IInv, TypeOK, Version
<1>2. cache = obj
  BY <1>1 DEF IInv, VersionsOrdered
<1>3. \A w \in watch : FALSE
  BY <1>1, <1>2 DEF IInv, VersionsOrdered
<1> QED BY <1>2, <1>3

\* Adding the finalizer keeps the invariant, a lost answer and a rejected Update
\* included.
LEMMA EnsureFinalizerStep ==
    ASSUME IInv, TypeOK', EnsureFinalizer PROVE IInv'
<1> DEFINE v == [mem EXCEPT !.fin = TRUE, !.everFin = TRUE]
<1>1. pc = "finalizer" /\ ~mem.deleting /\ mem.present /\ mem.rv <= cache.rv
      /\ UNCHANGED <<cache, crb, metrics>>
  BY DEF EnsureFinalizer, IInv, ReconcileOK
<1>2. CASE UNCHANGED apiVars
  <2>1. VersionsOrdered' /\ ReadableHarmless' /\ ReadableOlder' /\ ObjectOK'
    BY <1>1, <1>2, LocalFrame DEF IInv, apiVars, ObjectOK, Guarded, Finalized
  <2>2. UNCHANGED <<obj, cache, watch, mem, ready, crb, metrics>>
        /\ (pc' = "publish" \/ (pc' = "params" /\ mem.fin))
    <3>1. CASE mem.fin
      BY <1>1, <1>2, <3>1 DEF EnsureFinalizer, apiVars, Goto
    <3>2. CASE ~mem.fin
      <4>1. PICK o \in UpdateOutcomes("finalizer") :
              /\ IF o \in {"ok", "lost"} THEN Commit(v) ELSE UNCHANGED apiVars
              /\ o # "ok" => ReturnRequeue
        BY <3>2 DEF EnsureFinalizer
      <4>2. o # "ok"
        <5> SUFFICES ASSUME o = "ok" PROVE FALSE
          OBVIOUS
        <5>1. Commit(v) /\ mem = obj
          BY <4>1, <1>1, AcceptedUpdate
        <5>2. v \in Version
          BY DEF IInv, TypeOK, Version
        <5>3. obj'.rv = obj.rv + 1
          BY <5>1, <5>2, <1>1, CommitOrdered DEF IInv
        <5> QED
          BY <5>3, <1>2 DEF apiVars, IInv, TypeOK, Version
      <4> QED
        BY <1>1, <1>2, <4>1, <4>2 DEF ReturnRequeue, apiVars
    <3> QED BY <3>1, <3>2
  <2>3. ReconcileOK' /\ IdleOK'
    BY <1>1, <2>2 DEF IInv, TypeOK, ReconcileOK, IdleOK, Harmless, Older,
       Guarded, Finalized, Deploying, AfterCommon
  <2> QED BY <2>1, <2>3 DEF IInv
<1>3. CASE ~UNCHANGED apiVars
  <2>1. PICK o \in UpdateOutcomes("finalizer") :
          /\ Commit(v) /\ o \in {"ok", "lost"}
          /\ IF o = "ok" THEN /\ pc' = "params" /\ mem' = Stored(v)
                              /\ UNCHANGED <<ready, requeue>>
                         ELSE ReturnRequeue
    BY <1>3 DEF EnsureFinalizer, apiVars
  <2>2. mem = obj /\ cache = obj /\ watch = {}
    BY <2>1, <1>1, AcceptedUpdate, UpToDate
  <2>3. v \in Version
    BY DEF IInv, TypeOK, Version
  <2>4. v.uid = obj.uid /\ v.fin /\ v.everFin /\ ~v.deleting /\ v.present
        /\ v.cr = obj.cr
    BY <1>1, <2>2 DEF IInv, TypeOK, Version
  <2>5. /\ obj'.uid = obj.uid /\ obj'.fin /\ obj'.everFin /\ ~obj'.deleting
        /\ obj'.present /\ obj'.cr = obj.cr
    BY <2>1, <2>3, <2>4, StoredFields DEF Commit, IInv, TypeOK
  <2>6. Guarded' /\ ~Finalized'
    BY <2>5 DEF Guarded, Finalized
  <2>7. VersionsOrdered' /\ obj'.rv = obj.rv + 1
    BY <2>1, <2>3, <1>1, CommitOrdered DEF IInv
  <2>8. watch' = {obj'} /\ obj.uid \in Nat /\ obj.rv \in Nat
    BY <2>1, <2>2 DEF Commit, IInv, TypeOK, Version
  <2>9. ReadableHarmless'
    BY <1>1, <2>2, <2>5, <2>6, <2>8 DEF ReadableHarmless, Harmless
  <2>10. ReadableOlder'
    BY <1>1, <2>2, <2>5, <2>6, <2>8 DEF ReadableOlder, Older
  <2>11. ObjectOK'
    BY <1>1, <2>2, <2>5, <2>6 DEF IInv, ObjectOK
  <2>12. ready' = "False" /\ (pc' = "params" \/ pc' = "publish")
         /\ (mem' = mem \/ mem' = obj') /\ (pc' = "params" => mem' = obj')
    BY <2>1, <1>1 DEF IInv, TypeOK, ReconcileOK, ReturnRequeue, Commit
  <2>13. ReconcileOK' /\ IdleOK'
    BY <1>1, <2>2, <2>5, <2>6, <2>7, <2>8, <2>12 DEF ReconcileOK, IdleOK,
       Harmless, Older, Deploying, AfterCommon
  <2> QED BY <2>7, <2>9, <2>10, <2>11, <2>13 DEF IInv
<1> QED BY <1>2, <1>3

\* Writing the default database back keeps the invariant.
LEMMA ReconcileDatabaseStep ==
    ASSUME IInv, TypeOK', ReconcileDatabase PROVE IInv'
<1> DEFINE v == [mem EXCEPT !.db = TRUE, !.gen = @ + 1]
<1>1. pc = "database" /\ ~mem.deleting /\ mem.fin /\ mem.present
      /\ UNCHANGED <<cache, crb, metrics>> /\ ready = "False"
  BY DEF ReconcileDatabase, IInv, TypeOK, ReconcileOK, Deploying
<1>2. v \in Version
  <2>1. mem.gen + 1 \in Nat
    BY DEF IInv, TypeOK, Version
  <2>2. mem \in Version
    BY DEF IInv, TypeOK
  <2> QED BY <2>1, <2>2, Zenon DEF Version
<1>3. CASE UNCHANGED <<apiVars, mem>>
  <2>1. VersionsOrdered' /\ ReadableHarmless' /\ ReadableOlder' /\ ObjectOK'
    BY <1>1, <1>3, LocalFrame DEF IInv, apiVars, ObjectOK, Guarded, Finalized
  <2>2. UNCHANGED <<obj, cache, watch, mem, ready, crb, metrics>>
        /\ (pc' = "publish" \/ pc' = "storage")
    BY <1>1, <1>3 DEF ReconcileDatabase, apiVars, Goto, ReturnRequeue
  <2>3. ReconcileOK' /\ IdleOK'
    BY <1>1, <2>2 DEF IInv, TypeOK, ReconcileOK, IdleOK, Harmless, Older,
       Guarded, Finalized, Deploying, AfterCommon
  <2> QED BY <2>1, <2>3 DEF IInv
<1>4. CASE ~UNCHANGED <<apiVars, mem>>
  <2>1. PICK o \in UpdateOutcomes("database") :
          /\ Commit(v) /\ o \in {"ok", "lost"}
          /\ IF o = "ok" THEN /\ pc' = "storage" /\ mem' = Stored(v)
                              /\ UNCHANGED <<ready, requeue>>
                         ELSE ReturnRequeue
    BY <1>4 DEF ReconcileDatabase, apiVars, Goto, ReturnRequeue
  <2>2. mem = obj
    BY <2>1, <1>1, AcceptedUpdate
  <2>3. v.uid = obj.uid /\ v.fin /\ v.everFin = obj.everFin /\ ~v.deleting
        /\ v.present /\ v.cr = obj.cr
    BY <1>1, <2>2 DEF IInv, TypeOK, Version
  <2>4. /\ obj'.uid = obj.uid /\ obj'.fin /\ obj'.everFin = obj.everFin
        /\ ~obj'.deleting /\ obj'.present /\ obj'.cr = obj.cr
    BY <2>1, <1>2, <2>3, StoredFields DEF Commit, IInv, TypeOK
  <2>5. Guarded /\ Guarded' /\ ~Finalized /\ ~Finalized' /\ ~obj.deleting
    BY <1>1, <2>2, <2>4 DEF Guarded, Finalized
  <2>6. VersionsOrdered' /\ obj'.rv = obj.rv + 1
    BY <2>1, <1>2, <1>1, CommitOrdered DEF IInv
  <2>7. ReadableHarmless'
    BY <1>1, <1>2, <2>1, <2>4, <2>5, CommitHarmless DEF IInv
  <2>8. ReadableOlder'
    BY <1>1, <1>2, <2>1, <2>4, <2>5, CommitOlder DEF IInv
  <2>9. ObjectOK'
    BY <1>1, <2>2, <2>4, <2>5 DEF IInv, ObjectOK
  <2>10. ready' = "False" /\ (pc' = "storage" \/ pc' = "publish")
         /\ (mem' = mem \/ mem' = obj')
    BY <2>1, <1>1 DEF ReturnRequeue, Commit
  <2>11. obj.uid \in Nat /\ obj.rv \in Nat
    BY DEF IInv, TypeOK, Version
  <2>12. ReconcileOK' /\ IdleOK'
    BY <1>1, <2>2, <2>4, <2>5, <2>6, <2>10, <2>11 DEF ReconcileOK, IdleOK,
       Harmless, Older, Deploying, AfterCommon
  <2> QED BY <2>6, <2>7, <2>8, <2>9, <2>12 DEF IInv
<1> QED BY <1>3, <1>4

\* Removing the finalizer keeps the invariant: the ClusterRoleBinding and the
\* metrics went before it, and nothing can have brought them back.
LEMMA RemoveFinalizerStep ==
    ASSUME IInv, TypeOK', RemoveFinalizer PROVE IInv'
<1> DEFINE v == WithoutFinalizer(mem)
<1>1. pc = "removeFinalizer" /\ mem.deleting /\ mem.fin /\ mem.present
      /\ mem.rv <= cache.rv /\ ~crb /\ metrics = "none"
      /\ UNCHANGED <<cache, crb, metrics, mem, ready>> /\ ready = "False"
      /\ pc' = "publish"
  BY DEF RemoveFinalizer, IInv, TypeOK, ReconcileOK, Return, ReturnRequeue
<1>2. CASE UNCHANGED apiVars
  <2>1. VersionsOrdered' /\ ReadableHarmless' /\ ReadableOlder' /\ ObjectOK'
    BY <1>1, <1>2, LocalFrame DEF IInv, apiVars, ObjectOK, Guarded, Finalized
  <2>2. ReconcileOK' /\ IdleOK'
    BY <1>1, <1>2 DEF IInv, TypeOK, ReconcileOK, IdleOK, Harmless, Older,
       Guarded, Finalized, Deploying, AfterCommon, apiVars
  <2> QED BY <2>1, <2>2 DEF IInv
<1>3. CASE ~UNCHANGED apiVars
  <2>1. PICK o \in UpdateOutcomes("removeFinalizer") :
          Commit(v) /\ o \in {"ok", "lost"}
    BY <1>3 DEF RemoveFinalizer
  <2>2. mem = obj /\ cache = obj /\ watch = {}
    BY <2>1, <1>1, AcceptedUpdate, UpToDate
  <2>3. v \in Version
    BY DEF IInv, TypeOK, Version, WithoutFinalizer
  <2>4. v.uid = obj.uid /\ ~v.fin /\ v.deleting /\ v.everFin = obj.everFin
    BY <1>1, <2>2 DEF IInv, TypeOK, Version, WithoutFinalizer
  <2>5. /\ obj'.uid = obj.uid /\ ~obj'.fin /\ obj'.deleting
        /\ obj'.everFin = obj.everFin
    BY <2>1, <2>3, <2>4, StoredFields DEF Commit, IInv, TypeOK
  <2>6. ~Guarded'
    BY <2>5 DEF Guarded
  <2>7. VersionsOrdered' /\ obj'.rv = obj.rv + 1
    BY <2>1, <2>3, <1>1, CommitOrdered DEF IInv
  <2>8. watch' = {obj'} /\ obj.uid \in Nat /\ obj.rv \in Nat
    BY <2>1, <2>2 DEF Commit, IInv, TypeOK, Version
  <2>9. ReadableHarmless'
    BY <1>1, <2>2, <2>5, <2>8 DEF ReadableHarmless, Harmless
  <2>10. ReadableOlder'
    BY <1>1, <2>2, <2>5, <2>6, <2>8 DEF ReadableOlder, Older
  <2>11. ObjectOK'
    BY <1>1, <2>5, <2>6 DEF ObjectOK, Finalized
  <2>12. ReconcileOK' /\ IdleOK'
    BY <1>1, <2>2, <2>5, <2>6, <2>7, <2>8 DEF ReconcileOK, IdleOK,
       Harmless, Older, Deploying, AfterCommon
  <2> QED BY <2>7, <2>9, <2>10, <2>11, <2>12 DEF IInv
<1> QED BY <1>2, <1>3

\* Writing the status keeps the invariant.
LEMMA UpdateStatusStep ==
    ASSUME IInv, TypeOK', UpdateStatus PROVE IInv'
<1> DEFINE v == WithStatus(cache)
<1>1. pc = "status" /\ pc' = "idle" /\ ready' = "False"
      /\ UNCHANGED <<cache, crb, metrics>>
  BY DEF UpdateStatus
<1>2. ReconcileOK' /\ IdleOK'
  BY <1>1 DEF ReconcileOK, IdleOK
<1>3. CASE UNCHANGED apiVars
  <2>1. VersionsOrdered' /\ ReadableHarmless' /\ ReadableOlder' /\ ObjectOK'
    BY <1>1, <1>3, LocalFrame DEF IInv, apiVars, ObjectOK, Guarded, Finalized
  <2> QED BY <1>2, <2>1 DEF IInv
<1>4. CASE ~UNCHANGED apiVars
  <2>1. Commit(v) /\ cache.present /\ ~cache.deleting /\ cache.rv = obj.rv
    BY <1>4 DEF UpdateStatus
  <2>2. cache = obj
    BY <2>1 DEF IInv, VersionsOrdered
  <2>3. v \in Version
    BY DEF IInv, TypeOK, Version, WithStatus
  <2>4. v.uid = obj.uid /\ v.fin = obj.fin /\ v.deleting = obj.deleting
        /\ v.everFin = obj.everFin /\ v.present = obj.present /\ v.cr = ready
    BY <2>2 DEF IInv, TypeOK, Version, WithStatus
  <2>5. /\ obj'.uid = obj.uid /\ obj'.fin = obj.fin
        /\ obj'.deleting = obj.deleting /\ obj'.everFin = obj.everFin
        /\ obj'.present = obj.present /\ obj'.cr = ready
    BY <2>1, <2>3, <2>4, StoredFields DEF Commit, IInv, TypeOK
  <2>6. Guarded' = Guarded /\ Finalized' = Finalized
    BY <2>5 DEF Guarded, Finalized
  <2>7. obj'.present /\ ~obj'.deleting => ~Finalized'
    BY <2>5, <2>6 DEF IInv, ObjectOK
  <2>8. VersionsOrdered' /\ ReadableHarmless' /\ ReadableOlder'
    BY <1>1, <2>1, <2>3, <2>5, <2>6, <2>7, CommitOrdered, CommitHarmless,
       CommitOlder DEF IInv
  <2>9. ready = "True" => Guarded /\ crb
    BY <1>1 DEF IInv, ReconcileOK, Harmless
  <2>10. ObjectOK'
    BY <1>1, <2>5, <2>6, <2>9 DEF IInv, ObjectOK, Guarded
  <2> QED BY <1>2, <2>8, <2>10 DEF IInv
<1> QED BY <1>3, <1>4

\* Delivering a version to the cache keeps the invariant.
LEMMA DeliverStep ==
    ASSUME IInv, TypeOK', Deliver PROVE IInv'
<1>1. PICK v \in watch : cache' = v /\ watch' = {w \in watch : w.rv > v.rv}
  BY DEF Deliver
<1>2. UNCHANGED <<obj, pc, mem, ready, crb, metrics>>
  BY DEF Deliver, localVars
<1>3. cache.rv \in Nat /\ obj.rv \in Nat /\ mem.rv \in Nat
      /\ \A w \in watch : w.rv \in Nat
  BY DEF IInv, TypeOK, Version
<1>4. VersionsOrdered'
  BY <1>1, <1>2, <1>3 DEF IInv, VersionsOrdered
<1>5. ReadableHarmless' /\ ReadableOlder'
  BY <1>1, <1>2 DEF IInv, ReadableHarmless, ReadableOlder, Harmless, Older,
     Guarded, Finalized
<1>6. ObjectOK' /\ IdleOK'
  BY <1>2 DEF IInv, ObjectOK, IdleOK, Guarded, Finalized
<1>7. cache.rv < cache'.rv
  BY <1>1 DEF IInv, VersionsOrdered
<1>8. mem.rv <= cache.rv => mem.rv <= cache'.rv
  BY <1>1, <1>3, <1>7
<1>9. ReconcileOK'
  BY <1>2, <1>8 DEF IInv, ReconcileOK, Harmless, Older, Guarded, Finalized
<1> QED BY <1>4, <1>5, <1>6, <1>9 DEF IInv

\* A crash and restart of the operator keeps the invariant.
LEMMA CrashStep ==
    ASSUME IInv, TypeOK', Crash PROVE IInv'
<1>1. pc' = "idle" /\ ready' = "False" /\ cache' = obj /\ watch' = {}
      /\ metrics' = "none" /\ UNCHANGED <<obj, crb>>
  BY DEF Crash
<1>2. obj.rv \in Nat /\ obj.uid \in Nat
  BY DEF IInv, TypeOK, Version
<1>3. VersionsOrdered' /\ ReadableOlder' /\ ReconcileOK' /\ IdleOK'
  BY <1>1, <1>2 DEF VersionsOrdered, ReadableOlder, Older, ReconcileOK, IdleOK
<1>4. ReadableHarmless'
  BY <1>1 DEF IInv, ObjectOK, ReadableHarmless, Harmless, Guarded, Finalized
<1>5. ObjectOK'
  BY <1>1 DEF IInv, ObjectOK, Guarded, Finalized
<1> QED BY <1>3, <1>4, <1>5 DEF IInv

\* Steps that change nothing the invariant speaks of.
LEMMA FrameStep ==
    ASSUME IInv, TypeOK',
           UNCHANGED <<obj, cache, watch, localVars, crb, metrics>>
    PROVE  IInv'
<1>1. UNCHANGED <<obj, cache, watch, pc, mem, ready, crb, metrics>>
  BY DEF localVars
<1>2. VersionsOrdered' /\ ReadableHarmless' /\ ReadableOlder'
  BY <1>1, LocalFrame DEF IInv
<1>3. ObjectOK' /\ IdleOK' /\ ReconcileOK'
  BY <1>1 DEF IInv, ObjectOK, IdleOK, ReconcileOK, Harmless, Older, Guarded,
     Finalized
<1> QED BY <1>2, <1>3 DEF IInv

-----------------------------------------------------------------------------
\* The invariant holds initially.
LEMMA InvInit == Init => IInv
<1> SUFFICES ASSUME Init PROVE IInv
  OBVIOUS
<1>1. TypeOK
  BY TypeInit
<1> QED
  BY <1>1 DEF Init, IInv, VersionsOrdered, ReadableHarmless, ReadableOlder,
     ObjectOK, ReconcileOK, IdleOK, Harmless, Older, Guarded, Finalized,
     Nothing

\* Every step keeps the inductive invariant.
LEMMA InvStep == IInv /\ [Next]_vars => IInv'
<1> SUFFICES ASSUME IInv, [Next]_vars PROVE IInv'
  OBVIOUS
<1>1. TypeOK'
  BY TypeStep DEF IInv
<1>2. CASE Worker
  BY <1>1, <1>2, GetDSPAStep, RejectUnsupportedStep, EnsureFinalizerStep,
     StopFinalizedStep, CleanUpResourcesStep, CleanUpWebhookStep,
     RemoveFinalizerStep, ExtractParamsStep, ReconcileDatabaseStep,
     ReconcileStorageStep, CheckPrereqsStep, ReconcileCommonStep,
     ReconcileWebhookStep, ValidateManagedPipelinesStep,
     ReconcileComponentsStep, PublishMetricsStep, UpdateStatusStep DEF Worker
<1>3. CASE World
  <2>1. CASE Resync \/ EnvChange
    BY <1>1, <2>1, FrameStep DEF Resync, EnvChange
  <2> QED
    BY <1>1, <1>3, <2>1, CreateStep, EditStep, DeleteStep, ReleaseStep,
       DeliverStep, CrashStep DEF World
<1>4. CASE UNCHANGED vars
  BY <1>1, <1>4, FrameStep DEF vars, localVars
<1> QED BY <1>2, <1>3, <1>4 DEF Next

\* The inductive invariant always holds.
LEMMA Invariance == Spec => []IInv
  BY InvInit, InvStep, PTL DEF Spec

\* The operator never leaves a ClusterRoleBinding behind that no finalizer will
\* lead it back to: for any number of users' operations, failures and crashes.
THEOREM ClusterRoleBindingGuarded == Spec => []NoOrphanedClusterRoleBinding
<1>1. IInv => NoOrphanedClusterRoleBinding
  BY DEF IInv, ObjectOK, Guarded, NoOrphanedClusterRoleBinding
<1> QED BY <1>1, Invariance, PTL

\* The ready gauge is 1 only for a DSPA that exists and is not cleaned up.
THEOREM ReadyMetricSound == Spec => []ReadyMetricIsLive
<1>1. IInv => ReadyMetricIsLive
  BY DEF IInv, ObjectOK, Guarded, ReadyMetricIsLive
<1> QED BY <1>1, Invariance, PTL

\* A finalized DSPA has no metrics series left.
THEOREM MetricsFinalized == Spec => []FinalizationClearsMetrics
<1>1. IInv => FinalizationClearsMetrics
  BY DEF IInv, ObjectOK, Guarded, Finalized, FinalizationClearsMetrics
<1> QED BY <1>1, Invariance, PTL

\* CrReady=True is backed by the finalizer and the ClusterRoleBinding.
THEOREM ReadyBacked == Spec => []ReadyIsBackedByResources
<1>1. IInv => ReadyIsBackedByResources
  BY DEF IInv, ObjectOK, ReadyIsBackedByResources
<1> QED BY <1>1, Invariance, PTL

\* Only updateStatus turns the stored CrReady condition to True.
LEMMA OnlyStatusMakesReady ==
    ASSUME IInv, [Next]_vars, obj'.cr = "True", obj.cr # "True"
    PROVE  UpdateStatus
<1>0. obj' # obj /\ obj \in Version /\ mem \in Version
  BY DEF IInv, TypeOK
<1>1. CASE EnsureFinalizer
  <2> DEFINE v == [mem EXCEPT !.fin = TRUE, !.everFin = TRUE]
  <2>1. pc = "finalizer"
    BY <1>1 DEF EnsureFinalizer
  <2>2. PICK o \in UpdateOutcomes("finalizer") :
          Commit(v) /\ o \in {"ok", "lost"}
    BY <1>0, <1>1 DEF EnsureFinalizer, apiVars
  <2>3. mem = obj
    BY <2>1, <2>2, AcceptedUpdate
  <2>4. v \in Version /\ v.cr = mem.cr
    BY <1>0 DEF Version
  <2> QED BY <1>0, <2>2, <2>3, <2>4, StoredFields DEF Commit
<1>2. CASE RemoveFinalizer
  <2>1. pc = "removeFinalizer"
    BY <1>2 DEF RemoveFinalizer
  <2>2. PICK o \in UpdateOutcomes("removeFinalizer") :
          Commit(WithoutFinalizer(mem)) /\ o \in {"ok", "lost"}
    BY <1>0, <1>2 DEF RemoveFinalizer, apiVars
  <2>3. mem = obj
    BY <2>1, <2>2, AcceptedUpdate
  <2>4. WithoutFinalizer(mem) \in Version /\ WithoutFinalizer(mem).cr = mem.cr
    BY <1>0 DEF Version, WithoutFinalizer
  <2> QED BY <1>0, <2>2, <2>3, <2>4, StoredFields DEF Commit
<1>3. CASE ReconcileDatabase
  <2> DEFINE v == [mem EXCEPT !.db = TRUE, !.gen = @ + 1]
  <2>1. pc = "database"
    BY <1>3 DEF ReconcileDatabase
  <2>2. PICK o \in UpdateOutcomes("database") :
          Commit(v) /\ o \in {"ok", "lost"}
    BY <1>0, <1>3 DEF ReconcileDatabase, apiVars
  <2>3. mem = obj
    BY <2>1, <2>2, AcceptedUpdate
  <2>4. v \in Version /\ v.cr = mem.cr
    <3>1. mem.gen + 1 \in Nat /\ v.cr = mem.cr
      BY <1>0 DEF Version
    <3> QED BY <1>0, <3>1, Zenon DEF Version
  <2> QED BY <1>0, <2>2, <2>3, <2>4, StoredFields DEF Commit
<1>4. CASE Create \/ Edit \/ Delete \/ Release
  <2>1. CASE Create
    <3>1. PICK s \in Supported, d \in BOOLEAN :
            Commit([Nothing EXCEPT !.present = TRUE, !.uid = obj.uid + 1,
                                   !.gen = 1, !.supported = s, !.db = d])
      BY <2>1 DEF Create
    <3> QED BY <3>1 DEF Commit, Stored, Nothing
  <2>2. CASE Edit
    <3>1. PICK s \in Supported, d \in BOOLEAN :
            Commit([obj EXCEPT !.gen = @ + 1, !.supported = s, !.db = d])
      BY <2>2 DEF Edit
    <3> QED BY <1>0, <3>1 DEF Commit, Stored, Version
  <2>3. CASE Delete
    <3>1. PICK hold \in BOOLEAN :
            Commit([obj EXCEPT !.deleting = TRUE, !.held = hold,
                               !.gen = @ + 1, !.present = (obj.fin \/ hold)])
      BY <2>3 DEF Delete
    <3> QED BY <1>0, <3>1 DEF Commit, Stored, Version
  <2>4. CASE Release
    BY <1>0, <2>4 DEF Release, Commit, Stored, Version
  <2> QED BY <1>4, <2>1, <2>2, <2>3, <2>4
<1>5. CASE UNCHANGED obj
  BY <1>0, <1>5
<1> QED
  BY <1>1, <1>2, <1>3, <1>4, <1>5 DEF Next, Worker, World, vars, GetDSPA,
     RejectUnsupported, StopFinalized, CleanUpResources, CleanUpWebhook,
     ExtractParams, ReconcileStorage, CheckPrereqs, ReconcileCommon,
     ReconcileWebhook, ValidateManagedPipelines, ReconcileComponents,
     PublishMetrics, Deliver, Resync, EnvChange, Crash

\* A CrReady=True verdict is never written to another DSPA than the one that
\* was reconciled.
THEOREM ReadyVerdictIdentity == Spec => ReadyVerdictIsForThisDSPA
<1>1. IInv /\ [Next]_vars
        => [obj'.cr = "True" /\ obj.cr # "True" => mem.uid = obj'.uid]_vars
  <2> SUFFICES ASSUME IInv, [Next]_vars, obj'.cr = "True", obj.cr # "True"
               PROVE  mem.uid = obj'.uid
    OBVIOUS
  <2>1. UpdateStatus
    BY OnlyStatusMakesReady
  <2>2. Commit(WithStatus(cache)) /\ cache.rv = obj.rv /\ pc = "status"
    BY <2>1 DEF UpdateStatus, apiVars
  <2>3. cache = obj /\ cache \in Version /\ obj \in Version
    BY <2>2 DEF IInv, VersionsOrdered, TypeOK
  <2>4. /\ WithStatus(cache) \in Version
        /\ WithStatus(cache).cr = ready /\ WithStatus(cache).uid = obj.uid
    BY <2>3 DEF WithStatus, Version, IInv, TypeOK
  <2>5. ready = "True" /\ obj'.uid = obj.uid
    BY <2>2, <2>3, <2>4, StoredFields DEF Commit
  <2> QED
    BY <2>2, <2>5 DEF IInv, ReconcileOK, Harmless
<1> QED BY <1>1, Invariance, PTL DEF Spec, ReadyVerdictIsForThisDSPA

-----------------------------------------------------------------------------
(***************************************************************************)
(* DSPAReconciler implements DSPALifecycle: each step of the reconciler and  *)
(* its surroundings is a step of the life cycle or leaves the life cycle's   *)
(* variables alone.  The inductive invariant above supplies what the guards  *)
(* of the life cycle ask for.                                               *)
(***************************************************************************)

\* The fields of the DSPA the life cycle looks at.
Seen(v) == <<v.present, v.fin, v.deleting, v.uid, v.cr>>

\* A commit stores the fields it is given.
LEMMA CommitSeen ==
    ASSUME TypeOK, NEW v \in Version, Commit(v)
    PROVE  Seen(obj') = Seen(v)
  BY StoredFields DEF Commit, Seen, TypeOK

\* Steps that touch neither the fields nor the binding do not show.
LEMMA Unseen ==
    ASSUME Seen(obj') = Seen(obj), crb' = crb
    PROVE  UNCHANGED Lifecycle!vars
  BY DEF Seen, Phase, Lifecycle!vars

\* Writing the finalizer is Guard, unless nothing is written.
LEMMA GuardSimulated ==
    ASSUME IInv, EnsureFinalizer PROVE [Lifecycle!Next]_(Lifecycle!vars)
<1> DEFINE v == [mem EXCEPT !.fin = TRUE, !.everFin = TRUE]
<1>1. pc = "finalizer" /\ ~mem.deleting /\ mem.present /\ crb' = crb
  BY DEF EnsureFinalizer, IInv, ReconcileOK
<1>2. CASE UNCHANGED apiVars
  BY <1>1, <1>2, Unseen DEF apiVars
<1>3. CASE ~UNCHANGED apiVars
  <2>1. PICK o \in UpdateOutcomes("finalizer") :
          Commit(v) /\ o \in {"ok", "lost"} /\ ~mem.fin
    BY <1>3 DEF EnsureFinalizer, apiVars
  <2>2. mem = obj
    BY <2>1, <1>1, AcceptedUpdate
  <2>3. v \in Version /\ v.fin /\ v.present = mem.present /\ v.uid = mem.uid
        /\ v.deleting = mem.deleting /\ v.cr = mem.cr
    BY DEF IInv, TypeOK, Version
  <2>4. Seen(obj') = Seen(v)
    BY <2>1, <2>3, CommitSeen DEF IInv
  <2>5. Lifecycle!Guard
    BY <1>1, <2>1, <2>2, <2>3, <2>4 DEF Seen, Phase, Lifecycle!Guard
  <2> QED BY <2>5 DEF Lifecycle!Next
<1> QED BY <1>2, <1>3

\* Taking it off is Finalize: by then nothing is bound.
LEMMA FinalizeSimulated ==
    ASSUME IInv, RemoveFinalizer PROVE [Lifecycle!Next]_(Lifecycle!vars)
<1> DEFINE v == WithoutFinalizer(mem)
<1>1. pc = "removeFinalizer" /\ mem.deleting /\ mem.fin /\ mem.present /\ ~crb
      /\ crb' = crb
  BY DEF RemoveFinalizer, IInv, ReconcileOK
<1>2. CASE UNCHANGED apiVars
  BY <1>1, <1>2, Unseen DEF apiVars
<1>3. CASE ~UNCHANGED apiVars
  <2>1. PICK o \in UpdateOutcomes("removeFinalizer") :
          Commit(v) /\ o \in {"ok", "lost"}
    BY <1>3 DEF RemoveFinalizer, apiVars
  <2>2. mem = obj
    BY <2>1, <1>1, AcceptedUpdate
  <2>3. v \in Version /\ ~v.fin /\ v.uid = mem.uid /\ v.deleting = mem.deleting
        /\ v.cr = mem.cr
    BY DEF IInv, TypeOK, Version, WithoutFinalizer
  <2>4. Seen(obj') = Seen(v)
    BY <2>1, <2>3, CommitSeen DEF IInv
  <2>5. Lifecycle!Finalize
    BY <1>1, <2>2, <2>3, <2>4 DEF Seen, Phase, Lifecycle!Finalize
  <2> QED BY <2>5 DEF Lifecycle!Next
<1> QED BY <1>2, <1>3

\* The binding is made under a finalizer that is still there.
LEMMA BindSimulated ==
    ASSUME IInv, ReconcileCommon PROVE [Lifecycle!Next]_(Lifecycle!vars)
<1>1. pc = "common" /\ obj' = obj /\ crb' \in {crb, TRUE}
  BY DEF ReconcileCommon
<1>2. Guarded
  BY <1>1 DEF IInv, ReconcileOK, Deploying, Harmless
<1>3. CASE crb' = crb
  BY <1>1, <1>3, Unseen
<1>4. CASE crb' = TRUE
  <2>1. Lifecycle!Bind
    BY <1>1, <1>2, <1>4 DEF Guarded, Phase, Lifecycle!Bind
  <2> QED BY <2>1 DEF Lifecycle!Next
<1> QED BY <1>1, <1>3, <1>4

\* It is removed from a DSPA that is being deleted, or was gone before.
LEMMA UnbindSimulated ==
    ASSUME IInv, CleanUpResources PROVE [Lifecycle!Next]_(Lifecycle!vars)
<1>1. pc = "finalizer" /\ mem.deleting /\ mem.fin /\ obj' = obj
      /\ crb' \in {crb, FALSE}
  BY DEF CleanUpResources
<1>2. CASE crb' = crb
  BY <1>1, <1>2, Unseen
<1>3. CASE crb' # crb
  <2>1. Guarded /\ crb' = FALSE
    BY <1>1, <1>3 DEF IInv, ObjectOK, TypeOK
  <2>2. obj.deleting
    BY <1>1, <2>1 DEF IInv, ReconcileOK, Older
  <2>3. Lifecycle!Unbind
    BY <1>1, <2>1, <2>2 DEF Guarded, Phase, Lifecycle!Unbind
  <2> QED BY <2>3 DEF Lifecycle!Next
<1> QED BY <1>2, <1>3

\* The default database written back does not show.
LEMMA DatabaseSimulated ==
    ASSUME IInv, ReconcileDatabase PROVE [Lifecycle!Next]_(Lifecycle!vars)
<1> DEFINE v == [mem EXCEPT !.db = TRUE, !.gen = @ + 1]
<1>1. pc = "database" /\ crb' = crb
  BY DEF ReconcileDatabase
<1>2. CASE UNCHANGED apiVars
  BY <1>1, <1>2, Unseen DEF apiVars
<1>3. CASE ~UNCHANGED apiVars
  <2>1. PICK o \in UpdateOutcomes("database") :
          Commit(v) /\ o \in {"ok", "lost"}
    BY <1>3 DEF ReconcileDatabase, apiVars
  <2>2. mem = obj
    BY <2>1, <1>1, AcceptedUpdate
  <2>3. mem \in Version /\ mem.gen + 1 \in Nat
    BY DEF IInv, TypeOK, Version
  <2>4. v \in Version
    BY <2>3, Zenon DEF Version
  <2>5. Seen(v) = Seen(mem)
    BY <2>3 DEF Seen, Version
  <2>6. Seen(obj') = Seen(v)
    BY <2>1, <2>4, CommitSeen DEF IInv
  <2> QED BY <1>1, <2>2, <2>5, <2>6, Unseen
<1> QED BY <1>2, <1>3

\* A status is announced only of a DSPA that is guarded and bound.
LEMMA StatusSimulated ==
    ASSUME IInv, UpdateStatus PROVE [Lifecycle!Next]_(Lifecycle!vars)
<1> DEFINE v == WithStatus(cache)
<1>1. pc = "status" /\ crb' = crb
  BY DEF UpdateStatus
<1>2. CASE UNCHANGED apiVars
  BY <1>1, <1>2, Unseen DEF apiVars
<1>3. CASE ~UNCHANGED apiVars
  <2>1. Commit(v) /\ cache.present /\ ~cache.deleting /\ cache.rv = obj.rv
    BY <1>3 DEF UpdateStatus, apiVars
  <2>2. cache = obj
    BY <2>1 DEF IInv, VersionsOrdered
  <2>3. v \in Version /\ v.present = cache.present /\ v.fin = cache.fin
        /\ v.uid = cache.uid /\ v.deleting = cache.deleting /\ v.cr = ready
    BY DEF IInv, TypeOK, Version, WithStatus
  <2>4. Seen(obj') = Seen(v)
    BY <2>1, <2>3, CommitSeen DEF IInv
  <2>5. CASE ready = "True"
    <3>1. Guarded /\ crb
      BY <1>1, <2>5 DEF IInv, ReconcileOK, Harmless
    <3>2. Lifecycle!Announce
      BY <1>1, <2>1, <2>2, <2>3, <2>4, <2>5, <3>1
         DEF Seen, Guarded, Phase, Lifecycle!Announce
    <3> QED BY <3>2 DEF Lifecycle!Next
  <2>6. CASE ready # "True"
    <3>1. Lifecycle!Retract
      BY <1>1, <2>1, <2>2, <2>3, <2>4, <2>6 DEF Seen, Phase, Lifecycle!Retract
    <3> QED BY <3>1 DEF Lifecycle!Next
  <2> QED BY <2>5, <2>6
<1> QED BY <1>2, <1>3

\* What users and the garbage collector do.
LEMMA WorldSimulated ==
    ASSUME IInv, Create \/ Edit \/ Delete \/ Release
    PROVE  [Lifecycle!Next]_(Lifecycle!vars)
<1>1. CASE Create
  <2>1. PICK s \in Supported, d \in BOOLEAN :
          Commit([Nothing EXCEPT !.present = TRUE, !.uid = obj.uid + 1,
                                 !.gen = 1, !.supported = s, !.db = d])
    BY <1>1 DEF Create
  <2>2. /\ obj'.present /\ ~obj'.fin /\ ~obj'.deleting /\ obj'.uid = obj.uid + 1
        /\ obj'.cr # "True" /\ ~obj.present /\ crb' = crb
    BY <1>1, <2>1 DEF Create, User, Commit, Stored, Nothing
  <2>3. Lifecycle!Create
    BY <2>2 DEF Phase, Lifecycle!Create
  <2> QED BY <2>3 DEF Lifecycle!Next
<1>2. CASE Edit
  <2>1. PICK s \in Supported, d \in BOOLEAN :
          Commit([obj EXCEPT !.gen = @ + 1, !.supported = s, !.db = d])
    BY <1>2 DEF Edit
  <2>2. Seen(obj') = Seen(obj) /\ crb' = crb
    BY <1>2, <2>1 DEF Edit, User, Commit, Stored, Seen, Version, IInv, TypeOK
  <2> QED BY <2>2, Unseen
<1>3. CASE Delete
  <2>1. PICK hold \in BOOLEAN :
          Commit([obj EXCEPT !.deleting = TRUE, !.held = hold, !.gen = @ + 1,
                             !.present = (obj.fin \/ hold)])
    BY <1>3 DEF Delete
  <2>2. /\ obj.present /\ ~obj.deleting /\ crb' = crb
        /\ obj'.deleting /\ obj'.present = (obj.fin \/ hold) /\ obj'.fin = obj.fin
        /\ obj'.uid = obj.uid /\ obj'.cr = obj.cr
    BY <1>3, <2>1 DEF Delete, User, Commit, Stored, Version, IInv, TypeOK
  <2>3. Lifecycle!Delete
    BY <2>2 DEF Phase, Lifecycle!Delete
  <2> QED BY <2>3 DEF Lifecycle!Next
<1>4. CASE Release
  <2>1. /\ obj.present /\ obj.deleting /\ crb' = crb
        /\ obj'.deleting /\ obj'.present = obj.fin /\ obj'.fin = obj.fin
        /\ obj'.uid = obj.uid /\ obj'.cr = obj.cr
    BY <1>4 DEF Release, Commit, Stored, Version, IInv, TypeOK
  <2>2. CASE obj.fin
    <3>1. Seen(obj') = Seen(obj)
      BY <2>1, <2>2 DEF Seen, IInv, TypeOK, Version
    <3> QED BY <2>1, <3>1, Unseen
  <2>3. CASE ~obj.fin
    <3>1. Lifecycle!Release
      BY <2>1, <2>3 DEF Phase, Lifecycle!Release
    <3> QED BY <3>1 DEF Lifecycle!Next
  <2> QED BY <2>2, <2>3
<1> QED BY <1>1, <1>2, <1>3, <1>4

\* Every step of the reconciler is a step of the life cycle or does not show.
LEMMA StepSimulated ==
    ASSUME IInv, [Next]_vars PROVE [Lifecycle!Next]_(Lifecycle!vars)
<1>1. CASE UNCHANGED <<obj, crb>>
  BY <1>1, Unseen
<1> QED
  BY <1>1, GuardSimulated, FinalizeSimulated, BindSimulated, UnbindSimulated,
     DatabaseSimulated, StatusSimulated, WorldSimulated
     DEF Next, Worker, World, vars, GetDSPA, RejectUnsupported, StopFinalized,
         CleanUpWebhook, ExtractParams, ReconcileStorage, CheckPrereqs,
         ReconcileWebhook, ValidateManagedPipelines, ReconcileComponents,
         PublishMetrics, Deliver, Resync, EnvChange, Crash

\* The reconciler implements the life cycle: any number of users' operations,
\* faults, lost answers, stale reads and crashes included.
THEOREM Refinement == Spec => ImplementsLifecycle
<1>1. Init => Lifecycle!Init
  BY DEF Init, Nothing, Phase, Lifecycle!Init
<1>2. IInv /\ [Next]_vars => [Lifecycle!Next]_(Lifecycle!vars)
  BY StepSimulated
<1> QED BY <1>1, <1>2, Invariance, PTL DEF Spec, ImplementsLifecycle, Lifecycle!Spec

=============================================================================
