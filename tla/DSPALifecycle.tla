---------------------------- MODULE DSPALifecycle ----------------------------
(***************************************************************************)
(* What the operator promises about one DSPA name, with nothing of how: no   *)
(* cache, queue, retries or program counter.  The cluster-scoped binding     *)
(* exists only while the finalizer is there to have it removed, and a DSPA   *)
(* is announced ready only while it is guarded and bound.  DSPAReconciler    *)
(* implements this.                                                         *)
(***************************************************************************)
EXTENDS Naturals

VARIABLES
    phase,      \* of the DSPA, see Phases
    uid,        \* of the latest DSPA of this name
    bound,      \* its ClusterRoleBinding exists
    announced   \* its status says CrReady=True

vars == <<phase, uid, bound, announced>>

\* Without the finalizer, with it, being deleted with it, being deleted without
\* it while somebody else's finalizer lasts.
Phases == {"absent", "bare", "guarded", "deleting", "released"}

Init == phase = "absent" /\ uid = 0 /\ bound = FALSE /\ announced = FALSE

Create ==
    /\ phase = "absent"
    /\ phase' = "bare" /\ uid' = uid + 1 /\ announced' = FALSE
    /\ UNCHANGED bound

\* The finalizer is written before anything is bound.
Guard ==
    /\ phase = "bare" /\ phase' = "guarded"
    /\ UNCHANGED <<uid, bound, announced>>

\* A reconcile under way may still bind after the deletion was asked for.
Bind ==
    /\ phase \in {"guarded", "deleting"} /\ bound' = TRUE
    /\ UNCHANGED <<phase, uid, announced>>

Announce ==
    /\ phase = "guarded" /\ bound /\ announced' = TRUE
    /\ UNCHANGED <<phase, uid, bound>>

Retract ==
    /\ phase \in {"bare", "guarded"} /\ announced' = FALSE
    /\ UNCHANGED <<phase, uid, bound>>

\* The status of a DSPA being deleted is left as it is; it goes with the DSPA.
Delete ==
    /\ \/ phase = "bare" /\ phase' \in {"absent", "released"}
       \/ phase = "guarded" /\ phase' = "deleting"
    /\ announced' = (announced /\ phase' # "absent")
    /\ UNCHANGED <<uid, bound>>

Unbind ==
    /\ phase = "deleting" /\ bound' = FALSE
    /\ UNCHANGED <<phase, uid, announced>>

\* The finalizer goes only when nothing is bound any more.
Finalize ==
    /\ phase = "deleting" /\ ~bound
    /\ phase' \in {"absent", "released"}
    /\ announced' = (announced /\ phase' # "absent")
    /\ UNCHANGED <<uid, bound>>

Release ==
    /\ phase = "released" /\ phase' = "absent" /\ announced' = FALSE
    /\ UNCHANGED <<uid, bound>>

Next ==
    \/ Create \/ Guard \/ Bind \/ Announce \/ Retract \/ Delete \/ Unbind \/ Finalize
    \/ Release

Spec == Init /\ [][Next]_vars

=============================================================================
