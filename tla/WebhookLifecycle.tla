-------------------------- MODULE WebhookLifecycle --------------------------
(***************************************************************************)
(* The PipelineVersion admission webhook.  One set of resources in the      *)
(* operator's namespace serves every DSPA whose pipelineStore is            *)
(* "kubernetes": each reconcile of such a DSPA applies it, and the          *)
(* finalizer of a DSPA of any kind removes it when the informer cache lists *)
(* no other kubernetes DSPA.  Up to `Workers` reconciles run at once, never *)
(* two of the same name, and nothing else coordinates them: a clean-up goes *)
(* by a list of DSPAs that may be out of date when it deletes.              *)
(*                                                                         *)
(* Everything of Reconcile that does not touch the webhook is module        *)
(* DSPAReconciler's; here it is the step from "finalizer" to "apply", which *)
(* may fail.                                                                *)
(***************************************************************************)
EXTENDS Naturals, Sequences, FiniteSets

CONSTANTS
    DSPAs,          \* the names of DSPAs
    Workers,        \* MaxConcurrentReconciles
    LaggingKinds,   \* the kinds of resource whose cache may lag behind
    MaxUserOps,     \* bound: creations, edits and deletions by users
    MaxFaults,      \* bound: failing steps of a reconcile
    MaxCrashes      \* bound: operator restarts

\* "support" is the ClusterRole, its binding, the ServiceAccount and the
\* Service, which are neighbours in both orders.
Kinds == {"deployment", "mutating", "support", "validating"}

ASSUME ConstantsOK ==
    /\ LaggingKinds \subseteq Kinds
    /\ IsFiniteSet(DSPAs) /\ Workers \in Nat \ {0}
    /\ MaxUserOps \in Nat /\ MaxFaults \in Nat /\ MaxCrashes \in Nat

VARIABLES
    api,        \* each DSPA as the API server has it
    cached,     \* each DSPA as the informer cache has it
    watch,      \* per DSPA, the versions not yet delivered
    queued,     \* the names in the workqueue
    pc, mem,    \* per DSPA, where its Reconcile is and the copy it works on
    left,       \* per DSPA, the kinds its Reconcile still has to go through
    res,        \* the webhook resources that exist
    seen,       \* the webhook resources in the operator's cache
    late,       \* history: the DSPAs delivered as kubernetes in the middle of
                \* another one's clean-up and not reconciled since it ended
    ops, faults, crashes    \* budgets used

dspaVars == <<api, watch>>
localVars == <<pc, mem, left>>
budgets == <<ops, faults, crashes>>
vars == <<api, cached, watch, queued, pc, mem, left, res, seen, late, ops,
          faults, crashes>>

\* Mutant: a template that cleanupWebhookResources does not know of.
ApplyOrderExtended ==
    <<"deployment", "mutating", "networkpolicy", "support", "validating">>

\* The templates of webhook/ in the order os.ReadDir lists them.
ApplyOrder == <<"deployment", "mutating", "support", "validating">>

\* The order of cleanupWebhookResources: admission first, its server later.
CleanupOrder == <<"mutating", "validating", "deployment", "support">>

Version == [rv : Nat, stage : {"absent", "live", "deleting"},
            fin : BOOLEAN, k8s : BOOLEAN]

Absent == [rv |-> 0, stage |-> "absent", fin |-> FALSE, k8s |-> FALSE]

Init ==
    /\ api = [d \in DSPAs |-> Absent]
    /\ cached = [d \in DSPAs |-> Absent]
    /\ watch = [d \in DSPAs |-> {}]
    /\ queued = {}
    /\ pc = [d \in DSPAs |-> "idle"]
    /\ mem = [d \in DSPAs |-> Absent]
    /\ left = [d \in DSPAs |-> <<>>]
    /\ res = {} /\ seen = {} /\ late = {}
    /\ ops = 0 /\ faults = 0 /\ crashes = 0

Stored(d, v) == [v EXCEPT !.rv = api[d].rv + 1]

Commit(d, v) ==
    /\ api' = [api EXCEPT ![d] = Stored(d, v)]
    /\ watch' = [watch EXCEPT ![d] = @ \cup {Stored(d, v)}]

\* The webhook resources are now `r`.
SetResources(r) ==
    /\ res' = r
    /\ seen' = (seen \cap LaggingKinds) \cup (r \ LaggingKinds)

\* Reconcile of d goes on at `step` with the kinds `ks` before it.
Goto(d, step, ks) ==
    /\ pc' = [pc EXCEPT ![d] = step]
    /\ left' = [left EXCEPT ![d] = ks]

\* Reconcile of d is over; its copy of the DSPA is forgotten.
Finish(d) ==
    /\ Goto(d, "idle", <<>>)
    /\ mem' = [mem EXCEPT ![d] = Absent]

FinishRequeue(d) == Finish(d) /\ queued' = queued \cup {d}

-----------------------------------------------------------------------------
(* Reconcile. *)

Busy == {d \in DSPAs : pc[d] # "idle"}

\* Some other DSPA's clean-up has taken its list and is deleting.
OthersCleanUp(d) == \E e \in DSPAs \ {d} : pc[e] = "cleanup"

\* A free worker takes a name that is queued and not being reconciled.
Get(d) ==
    /\ d \in queued /\ pc[d] = "idle" /\ Cardinality(Busy) < Workers
    /\ queued' = queued \ {d}
    /\ LET c == cached[d]
       IN  IF c.stage = "live" \/ (c.stage = "deleting" /\ c.fin)
           THEN /\ Goto(d, IF c.stage = "live" THEN "finalizer" ELSE "list", <<>>)
                /\ mem' = [mem EXCEPT ![d] = c]
           ELSE UNCHANGED localVars
    /\ late' = IF OthersCleanUp(d) THEN late ELSE late \ {d}
    /\ UNCHANGED <<api, cached, watch, res, seen, budgets>>

\* Mutant: the webhook is applied by the first reconcile of a DSPA only.
EnsureFinalizerApplyOnce(d) ==
    /\ pc[d] = "finalizer"
    /\ LET v == [mem[d] EXCEPT !.fin = TRUE]
           rejected == ~mem[d].fin /\ mem[d].rv # api[d].rv
       IN  /\ IF mem[d].fin \/ rejected THEN UNCHANGED dspaVars
                                        ELSE Commit(d, v)
           /\ \/ rejected /\ FinishRequeue(d)
              \/ ~mem[d].fin /\ ~rejected /\ mem[d].k8s
                 /\ Goto(d, "apply", ApplyOrder) /\ UNCHANGED <<mem, queued>>
              \/ ~rejected /\ (mem[d].fin \/ ~mem[d].k8s)
                 /\ Finish(d) /\ UNCHANGED queued
    /\ UNCHANGED <<cached, res, seen, late, budgets>>

\* The finalizer is added if need be, a rejected Update returns an error; then
\* a kubernetes DSPA goes on to ReconcileWebhook, another one is done here.
EnsureFinalizer(d) ==
    /\ pc[d] = "finalizer"
    /\ LET v == [mem[d] EXCEPT !.fin = TRUE]
           rejected == ~mem[d].fin /\ mem[d].rv # api[d].rv
       IN  /\ IF mem[d].fin \/ rejected THEN UNCHANGED dspaVars
                                        ELSE Commit(d, v)
           /\ \/ rejected /\ FinishRequeue(d)
              \/ ~rejected /\ mem[d].k8s /\ Goto(d, "apply", ApplyOrder)
                           /\ UNCHANGED <<mem, queued>>
              \/ ~rejected /\ ~mem[d].k8s /\ Finish(d) /\ UNCHANGED queued
    /\ UNCHANGED <<cached, res, seen, late, budgets>>

\* One template of webhook/; manifestival reads the API server, not the cache.
Apply(d) ==
    /\ pc[d] = "apply"
    /\ SetResources(res \cup {Head(left[d])})
    /\ Goto(d, IF Len(left[d]) = 1 THEN "check" ELSE "apply", Tail(left[d]))
    /\ UNCHANGED <<api, cached, watch, queued, mem, late, budgets>>

\* checkWebhookStatus: not ready when the cache has no Deployment or an
\* unavailable one, and then RequeueAfter.
Check(d) ==
    /\ pc[d] = "check"
    /\ \E available \in BOOLEAN :
          IF "deployment" \in seen /\ available
          THEN Finish(d) /\ UNCHANGED queued
          ELSE FinishRequeue(d)
    /\ UNCHANGED <<api, cached, watch, res, seen, late, budgets>>

\* Mutant: DSPAs are told apart by name alone, and every namespace calls its
\* DSPA the same.
OtherKubernetesDSPAsByName(d) == {}

\* checkAvailableKubernetesDSPAs: any other name in the cache that says
\* kubernetes, a DSPA that is itself being deleted included.
OtherKubernetesDSPAs(d) ==
    {e \in DSPAs \ {d} : cached[e].stage # "absent" /\ cached[e].k8s}

List(d) ==
    /\ pc[d] = "list"
    /\ IF OtherKubernetesDSPAs(d) = {}
       THEN Goto(d, "cleanup", CleanupOrder)
       ELSE Goto(d, "unfinalize", <<>>)
    /\ UNCHANGED <<api, cached, watch, queued, mem, res, seen, late, budgets>>

\* DeleteResourceIfItExists: a resource the cache does not have is passed over;
\* deleting one that is already gone is an error.
Cleanup(d) ==
    /\ pc[d] = "cleanup"
    /\ LET k == Head(left[d])
       IN  IF k \in seen \ res
           THEN FinishRequeue(d) /\ UNCHANGED <<res, seen>>
           ELSE /\ SetResources(IF k \in seen THEN res \ {k} ELSE res)
                /\ Goto(d, IF Len(left[d]) = 1 THEN "unfinalize" ELSE "cleanup",
                        Tail(left[d]))
                /\ UNCHANGED <<mem, queued>>
    /\ UNCHANGED <<api, cached, watch, late, budgets>>

Unfinalize(d) ==
    /\ pc[d] = "unfinalize"
    /\ IF mem[d].rv = api[d].rv
       THEN Commit(d, Absent) /\ Finish(d) /\ UNCHANGED queued
       ELSE UNCHANGED dspaVars /\ FinishRequeue(d)
    /\ UNCHANGED <<cached, res, seen, late, budgets>>

\* An API call failed, or its answer was lost after the step before this one.
Fail(d) ==
    /\ pc[d] # "idle"
    /\ faults < MaxFaults /\ faults' = faults + 1
    /\ FinishRequeue(d)
    /\ UNCHANGED <<api, cached, watch, res, seen, late, ops, crashes>>

-----------------------------------------------------------------------------
(* The rest of the world. *)

User(d, v) ==
    /\ ops < MaxUserOps /\ ops' = ops + 1
    /\ Commit(d, v)
    /\ UNCHANGED <<cached, queued, localVars, res, seen, late, faults,
                   crashes>>

Create(d) ==
    /\ api[d].stage = "absent"
    /\ \E k \in BOOLEAN : User(d, [Absent EXCEPT !.stage = "live", !.k8s = k])

Edit(d) ==
    /\ api[d].stage # "absent"
    /\ User(d, [api[d] EXCEPT !.k8s = ~@])

Delete(d) ==
    /\ api[d].stage = "live"
    /\ User(d, IF api[d].fin THEN [api[d] EXCEPT !.stage = "deleting"]
                             ELSE Absent)

Deliver(d) ==
    /\ \E v \in watch[d] :
          /\ \A w \in watch[d] : v.rv <= w.rv
          /\ cached' = [cached EXCEPT ![d] = v]
          /\ watch' = [watch EXCEPT ![d] = @ \ {v}]
          /\ late' = IF v.stage = "live" /\ v.k8s /\ OthersCleanUp(d)
                     THEN late \cup {d} ELSE late
    /\ queued' = queued \cup {d}
    /\ UNCHANGED <<api, localVars, res, seen, budgets>>

Resync(d) ==
    /\ cached[d].stage # "absent" /\ d \notin queued
    /\ queued' = queued \cup {d}
    /\ UNCHANGED <<api, cached, watch, localVars, res, seen, late, budgets>>

\* The watch of one kind of resource catches up.  The webhook's resources are
\* owned by the operator's Deployment, so no DSPA is queued.
Observe(k) ==
    /\ (k \in res) # (k \in seen)
    /\ seen' = IF k \in res THEN seen \cup {k} ELSE seen \ {k}
    /\ UNCHANGED <<api, cached, watch, queued, localVars, res, late, budgets>>

\* The operator dies and starts again with caches listed afresh.
Crash ==
    /\ crashes < MaxCrashes /\ crashes' = crashes + 1
    /\ cached' = api /\ watch' = [d \in DSPAs |-> {}]
    /\ queued' = {d \in DSPAs : api[d].stage # "absent"}
    /\ pc' = [d \in DSPAs |-> "idle"]
    /\ mem' = [d \in DSPAs |-> Absent]
    /\ left' = [d \in DSPAs |-> <<>>]
    /\ seen' = res
    /\ UNCHANGED <<api, res, late, ops, faults>>

Work(d) ==
    \/ EnsureFinalizer(d) \/ Apply(d) \/ Check(d)
    \/ List(d) \/ Cleanup(d) \/ Unfinalize(d)

Next ==
    \/ \E d \in DSPAs :
          \/ Get(d) \/ Work(d) \/ Fail(d)
          \/ Create(d) \/ Edit(d) \/ Delete(d) \/ Deliver(d) \/ Resync(d)
    \/ \E k \in Kinds : Observe(k)
    \/ Crash

Spec == Init /\ [][Next]_vars

\* A running reconcile goes on, the queue is first-come first-served, watches
\* deliver and every name is resynced now and then.
ResyncSpec ==
    /\ Spec
    /\ \A d \in DSPAs : /\ SF_vars(Get(d)) /\ WF_vars(Work(d))
                        /\ WF_vars(Deliver(d)) /\ WF_vars(Resync(d))
    /\ \A k \in Kinds : WF_vars(Observe(k))

-----------------------------------------------------------------------------
Steps == {"idle", "finalizer", "apply", "check", "list", "cleanup", "unfinalize"}

\* The variables hold what the declarations say.
TypeOK ==
    /\ api \in [DSPAs -> Version] /\ cached \in [DSPAs -> Version]
    /\ mem \in [DSPAs -> Version]
    /\ watch \in [DSPAs -> SUBSET Version]
    /\ queued \subseteq DSPAs
    /\ pc \in [DSPAs -> Steps]
    /\ left \in [DSPAs -> Seq(Kinds)]
    /\ res \subseteq Kinds /\ seen \subseteq Kinds /\ late \subseteq DSPAs
    /\ ops \in Nat /\ faults \in Nat /\ crashes \in Nat

\* The operator has nothing more to do about d: it is not queued, not being
\* reconciled, and the cache has its latest version.
Settled(d) == pc[d] = "idle" /\ d \notin queued /\ watch[d] = {}

Served(d) == api[d].stage = "live" /\ api[d].k8s

\* "Webhook should still exist": once the operator is through with a live
\* kubernetes DSPA every resource of the webhook is there, whatever other DSPAs
\* were deleted in the meantime (ReconcileWebhook, CleanUpWebhookIfUnused).
SettledDSPAsAreServed ==
    \A d \in DSPAs : Served(d) /\ Settled(d) => res = Kinds

\* ... and this is the only way it can fail: a live kubernetes DSPA the operator
\* is through with has the whole webhook unless the cache learnt of it while
\* another DSPA's clean-up, which had listed the DSPAs before, was deleting, and
\* it has not been reconciled since.  Neither faults and crashes nor edits, stale
\* copies or lagging caches take the webhook away from a DSPA that was listed.
ServedUnlessLate ==
    \A d \in DSPAs : Served(d) /\ Settled(d) /\ d \notin late => res = Kinds

\* However reconciles interleave, a live kubernetes DSPA that users leave alone
\* gets the whole webhook for good, at the latest through a resync.
WebhookConverges ==
    \A d \in DSPAs : <>[](Served(d) => res = Kinds)

=============================================================================
