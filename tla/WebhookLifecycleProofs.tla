----------------------- MODULE WebhookLifecycleProofs -----------------------
(***************************************************************************)
(* Any number of reconciles at once, any number of DSPAs, any lag of the      *)
(* caches: the shared webhook is only ever taken away from a DSPA that the    *)
(* cache came to know in the middle of another one's clean-up.                *)
(***************************************************************************)
EXTENDS WebhookLifecycle, TLAPS

\* What the watch has yet to deliver ends with the version the API server has.
WatchOK ==
    \A d \in DSPAs :
        /\ watch[d] = {} => cached[d] = api[d]
        /\ watch[d] # {} => api[d] \in watch[d]
        /\ \A w \in watch[d] : /\ w.rv <= api[d].rv
                               /\ w.rv = api[d].rv => w = api[d]

\* A reconcile works on what the cache has, or its name is queued again; the
\* deleting branch is taken for a DSPA that is being deleted.
CopyOK ==
    \A d \in DSPAs :
        /\ pc[d] # "idle" /\ d \notin queued => mem[d] = cached[d]
        /\ pc[d] \in {"list", "cleanup", "unfinalize"} => mem[d].stage = "deleting"

\* What is left of the two orders.
ApplyLeft == {ApplyOrder, <<"mutating", "support", "validating">>,
              <<"support", "validating">>, <<"validating">>}
CleanupLeft == {CleanupOrder, <<"validating", "deployment", "support">>,
                <<"deployment", "support">>, <<"support">>}

\* The templates a reconcile has gone through are applied.
Applied(l) ==
    CASE l = <<"mutating", "support", "validating">> -> {"deployment"}
      [] l = <<"support", "validating">> -> {"deployment", "mutating"}
      [] l = <<"validating">> -> {"deployment", "mutating", "support"}
      [] OTHER -> {}

\* The cache has d as a DSPA that needs the webhook.
Needs(d) == cached[d].stage = "live" /\ cached[d].k8s

\* ... and nothing will have it reconciled, or has taken the webhook from it.
Kept(d) == Needs(d) /\ d \notin queued /\ d \notin late

\* A reconcile of a DSPA that is kept finds the templates it has gone through in
\* place, and when it is over the webhook is complete.
ServedOK ==
    \A d \in DSPAs : Kept(d) =>
        /\ pc[d] = "apply" => Applied(left[d]) \subseteq res
        /\ pc[d] \in {"check", "idle"} => res = Kinds

\* While one reconcile cleans up, every other DSPA that needs the webhook is late.
CleanupOK ==
    \A d, e \in DSPAs : d # e /\ pc[e] = "cleanup" /\ Needs(d) => d \in late

\* What a reconcile has left is the rest of an order.
LeftOK ==
    \A d \in DSPAs : /\ pc[d] = "apply" => left[d] \in ApplyLeft
                     /\ pc[d] = "cleanup" => left[d] \in CleanupLeft

IInv == TypeOK /\ LeftOK /\ WatchOK /\ CopyOK /\ ServedOK /\ CleanupOK

\* The two orders name kinds of resources.
LEMMA Orders ==
    /\ ApplyOrder \in Seq(Kinds) /\ CleanupOrder \in Seq(Kinds)
    /\ \A l \in ApplyLeft \cup CleanupLeft : l \in Seq(Kinds) /\ l # <<>>
BY DEF ApplyOrder, CleanupOrder, Kinds, ApplyLeft, CleanupLeft

\* Applying the first of what is left adds it to what is applied; the last one
\* completes the webhook.
LEMMA ApplyLeftStep ==
    ASSUME NEW l \in ApplyLeft
    PROVE  /\ Len(l) = 1 => Applied(l) \cup {Head(l)} = Kinds
           /\ Len(l) # 1 => /\ Tail(l) \in ApplyLeft
                            /\ Applied(Tail(l)) = Applied(l) \cup {Head(l)}
<1>1. CASE l = ApplyOrder
  BY <1>1 DEF ApplyOrder, Applied, ApplyLeft
<1>2. CASE l = <<"mutating", "support", "validating">>
  BY <1>2 DEF Applied, ApplyLeft
<1>3. CASE l = <<"support", "validating">>
  BY <1>3 DEF Applied, ApplyLeft
<1>4. CASE l = <<"validating">>
  BY <1>4 DEF Applied, Kinds
<1> QED BY <1>1, <1>2, <1>3, <1>4 DEF ApplyLeft

\* The rest of a clean-up is a clean-up.
LEMMA CleanupLeftStep ==
    ASSUME NEW l \in CleanupLeft, Len(l) # 1
    PROVE  Tail(l) \in CleanupLeft
<1>1. CASE l = CleanupOrder
  BY <1>1 DEF CleanupOrder, CleanupLeft
<1>2. CASE l = <<"validating", "deployment", "support">>
  BY <1>2 DEF CleanupLeft
<1>3. CASE l = <<"deployment", "support">>
  BY <1>3 DEF CleanupLeft
<1> QED BY <1>1, <1>2, <1>3 DEF CleanupLeft

\* The API server stores versions.
LEMMA CommitType ==
    ASSUME TypeOK, NEW d \in DSPAs, NEW v \in Version, Commit(d, v)
    PROVE  /\ Stored(d, v) \in Version
           /\ api' \in [DSPAs -> Version] /\ watch' \in [DSPAs -> SUBSET Version]
<1>1. api[d].rv \in Nat
  BY DEF TypeOK, Version
<1>2. Stored(d, v) \in Version
  BY <1>1 DEF Version, Stored
<1> QED BY <1>2 DEF TypeOK, Commit

\* There is no DSPA to begin with.
LEMMA InitIInv == Init => IInv
<1> SUFFICES ASSUME Init PROVE IInv
  OBVIOUS
<1>1. Absent \in Version
  BY DEF Absent, Version
<1>2. TypeOK
  BY <1>1 DEF Init, TypeOK, Steps
<1> QED
  BY <1>2 DEF Init, IInv, LeftOK, WatchOK, CopyOK, ServedOK, CleanupOK, Kept, Needs,
              Absent

\* A version keeps its type when a finalizer, a deletion or an edit changes it.
LEMMA VersionType ==
    /\ Absent \in Version
    /\ \A v \in Version : /\ [v EXCEPT !.fin = TRUE] \in Version
                          /\ [v EXCEPT !.stage = "deleting"] \in Version
                          /\ [v EXCEPT !.k8s = ~@] \in Version
    /\ \A k \in BOOLEAN :
          [Absent EXCEPT !.stage = "live", !.k8s = k] \in Version
<1>1. Absent \in Version
  BY DEF Absent, Version
<1>2. ASSUME NEW v \in Version
      PROVE  /\ [v EXCEPT !.fin = TRUE] \in Version
             /\ [v EXCEPT !.stage = "deleting"] \in Version
  BY DEF Version
<1>3. ASSUME NEW v \in Version PROVE [v EXCEPT !.k8s = ~@] \in Version
  <2>1. (~v.k8s) \in BOOLEAN
    OBVIOUS
  <2> QED BY <2>1 DEF Version
<1>4. ASSUME NEW k \in BOOLEAN
      PROVE  [Absent EXCEPT !.stage = "live", !.k8s = k] \in Version
  BY DEF Absent, Version
<1> QED BY <1>1, <1>2, <1>3, <1>4

\* Going on, or to the end, keeps the types of a reconcile's own variables.
LEMMA GotoType ==
    ASSUME TypeOK, NEW d \in DSPAs, NEW step \in Steps, NEW ks \in Seq(Kinds),
           Goto(d, step, ks)
    PROVE  pc' \in [DSPAs -> Steps] /\ left' \in [DSPAs -> Seq(Kinds)]
BY DEF TypeOK, Goto

\* The types of what a reconcile keeps to itself, and of the queue.
LocalType ==
    /\ pc \in [DSPAs -> Steps] /\ left \in [DSPAs -> Seq(Kinds)]
    /\ mem \in [DSPAs -> Version] /\ queued \subseteq DSPAs

\* The end of a reconcile keeps the types of what it kept to itself.
LEMMA FinishType ==
    ASSUME TypeOK, NEW d \in DSPAs, Finish(d)
    PROVE  /\ pc' \in [DSPAs -> Steps] /\ left' \in [DSPAs -> Seq(Kinds)]
           /\ mem' \in [DSPAs -> Version]
<1>1. "idle" \in Steps /\ <<>> \in Seq(Kinds)
  BY DEF Steps
<1>2. pc' \in [DSPAs -> Steps] /\ left' \in [DSPAs -> Seq(Kinds)]
  BY <1>1, GotoType DEF Finish
<1> QED BY <1>2, VersionType DEF TypeOK, Finish

\* Every step keeps the variables in their types.
LEMMA TypeStep == TypeOK /\ LeftOK /\ [Next]_vars => TypeOK'
<1> SUFFICES ASSUME TypeOK, LeftOK, [Next]_vars PROVE TypeOK'
  OBVIOUS
<1>1. ASSUME NEW d \in DSPAs, Get(d) PROVE TypeOK'
  <2>1. LocalType'
    <3>1. {"finalizer", "list"} \subseteq Steps /\ <<>> \in Seq(Kinds)
      BY DEF Steps
    <3>2. cached[d] \in Version
      BY DEF TypeOK
    <3> QED BY <1>1, <3>1, <3>2, GotoType DEF Get, LocalType, TypeOK, localVars
  <2> QED BY <1>1, <2>1 DEF Get, LocalType, TypeOK, budgets
<1>2. ASSUME NEW d \in DSPAs, EnsureFinalizer(d) PROVE TypeOK'
  <2>1. api' \in [DSPAs -> Version] /\ watch' \in [DSPAs -> SUBSET Version]
    BY <1>2, CommitType, VersionType DEF EnsureFinalizer, TypeOK, dspaVars
  <2>2. "apply" \in Steps
    BY DEF Steps
  <2>3. LocalType'
    BY <1>2, <2>2, FinishType, GotoType, Orders
    DEF EnsureFinalizer, LocalType, TypeOK, FinishRequeue
  <2> QED BY <1>2, <2>1, <2>3 DEF EnsureFinalizer, LocalType, TypeOK, budgets
<1>3. ASSUME NEW d \in DSPAs, Apply(d) PROVE TypeOK'
  <2>1. left[d] \in Seq(Kinds) /\ left[d] # <<>>
    BY <1>3, Orders DEF LeftOK, Apply
  <2>2. /\ Head(left[d]) \in Kinds /\ Tail(left[d]) \in Seq(Kinds)
        /\ {"apply", "check"} \subseteq Steps
    BY <2>1 DEF Steps
  <2>3. LocalType'
    BY <1>3, <2>2, GotoType DEF Apply, LocalType, TypeOK
  <2>4. res' \subseteq Kinds /\ seen' \subseteq Kinds
    BY <1>3, <2>2 DEF Apply, SetResources, TypeOK
  <2> QED BY <1>3, <2>3, <2>4 DEF Apply, LocalType, TypeOK, budgets
<1>4. ASSUME NEW d \in DSPAs, Check(d) PROVE TypeOK'
  BY <1>4, FinishType DEF Check, FinishRequeue, TypeOK, budgets
<1>5. ASSUME NEW d \in DSPAs, List(d) PROVE TypeOK'
  <2>1. {"cleanup", "unfinalize"} \subseteq Steps /\ <<>> \in Seq(Kinds)
    BY DEF Steps
  <2>2. LocalType'
    BY <1>5, <2>1, Orders, GotoType DEF List, LocalType, TypeOK
  <2> QED BY <1>5, <2>2 DEF List, LocalType, TypeOK, budgets
<1>6. ASSUME NEW d \in DSPAs, Cleanup(d) PROVE TypeOK'
  <2>1. left[d] \in Seq(Kinds) /\ left[d] # <<>>
    BY <1>6, Orders DEF LeftOK, Cleanup
  <2>2. Tail(left[d]) \in Seq(Kinds) /\ {"cleanup", "unfinalize"} \subseteq Steps
    BY <2>1 DEF Steps
  <2>3. LocalType'
    BY <1>6, <2>2, FinishType, GotoType DEF Cleanup, LocalType, TypeOK, FinishRequeue
  <2>4. res' \subseteq Kinds /\ seen' \subseteq Kinds
    BY <1>6 DEF Cleanup, SetResources, TypeOK
  <2> QED BY <1>6, <2>3, <2>4 DEF Cleanup, LocalType, TypeOK, budgets
<1>7. ASSUME NEW d \in DSPAs, Unfinalize(d) PROVE TypeOK'
  <2>1. api' \in [DSPAs -> Version] /\ watch' \in [DSPAs -> SUBSET Version]
    BY <1>7, CommitType, VersionType DEF Unfinalize, TypeOK, dspaVars
  <2> QED BY <1>7, <2>1, FinishType DEF Unfinalize, FinishRequeue, TypeOK, budgets
<1>8. ASSUME NEW d \in DSPAs, Fail(d) PROVE TypeOK'
  <2>1. faults' \in Nat
    BY <1>8 DEF Fail, TypeOK
  <2> QED BY <1>8, <2>1, FinishType DEF Fail, FinishRequeue, TypeOK
<1>9. ASSUME NEW d \in DSPAs, NEW v \in Version, User(d, v) PROVE TypeOK'
  <2>1. ops' \in Nat
    BY <1>9 DEF User, TypeOK
  <2> QED BY <1>9, <2>1, CommitType DEF User, TypeOK, localVars
<1>10. ASSUME NEW d \in DSPAs, Create(d) \/ Edit(d) \/ Delete(d) PROVE TypeOK'
  BY <1>9, <1>10, VersionType DEF Create, Edit, Delete, TypeOK
<1>11. ASSUME NEW d \in DSPAs, Deliver(d) PROVE TypeOK'
  <2>1. PICK v \in watch[d] : /\ cached' = [cached EXCEPT ![d] = v]
                              /\ watch' = [watch EXCEPT ![d] = @ \ {v}]
    BY <1>11 DEF Deliver
  <2>2. v \in Version /\ watch[d] \ {v} \in SUBSET Version
    BY DEF TypeOK
  <2>3. cached' \in [DSPAs -> Version] /\ watch' \in [DSPAs -> SUBSET Version]
    BY <2>1, <2>2 DEF TypeOK
  <2> QED BY <1>11, <2>3 DEF Deliver, TypeOK, localVars, budgets
<1>12. ASSUME NEW d \in DSPAs, Resync(d) PROVE TypeOK'
  BY <1>12 DEF Resync, TypeOK, localVars, budgets
<1>13. ASSUME NEW k \in Kinds, Observe(k) PROVE TypeOK'
  BY <1>13 DEF Observe, TypeOK, localVars, budgets
<1>14. CASE Crash
  <2>1. crashes' \in Nat /\ "idle" \in Steps /\ <<>> \in Seq(Kinds)
    BY <1>14 DEF Crash, TypeOK, Steps
  <2> QED BY <1>14, <2>1, VersionType DEF Crash, TypeOK
<1>15. CASE UNCHANGED vars
  BY <1>15 DEF vars, TypeOK
<1> QED
  BY <1>1, <1>2, <1>3, <1>4, <1>5, <1>6, <1>7, <1>8, <1>10, <1>11, <1>12, <1>13,
     <1>14, <1>15
  DEF Next, Work

\* Every step leaves the rest of an order.
LEMMA LeftStep == TypeOK /\ LeftOK /\ [Next]_vars => LeftOK'
<1> SUFFICES ASSUME TypeOK, LeftOK, [Next]_vars PROVE LeftOK'
  OBVIOUS
<1> USE DEF TypeOK, LeftOK, Goto, Finish, FinishRequeue
<1>1. ASSUME NEW d \in DSPAs, Get(d) PROVE LeftOK'
  BY <1>1 DEF Get, localVars
<1>2. ASSUME NEW d \in DSPAs, EnsureFinalizer(d) PROVE LeftOK'
  BY <1>2 DEF EnsureFinalizer, ApplyLeft
<1>3. ASSUME NEW d \in DSPAs, Apply(d) PROVE LeftOK'
  <2>1. left[d] \in ApplyLeft
    BY <1>3 DEF Apply
  <2> QED BY <1>3, <2>1, ApplyLeftStep DEF Apply
<1>4. ASSUME NEW d \in DSPAs, List(d) PROVE LeftOK'
  BY <1>4 DEF List, CleanupLeft
<1>5. ASSUME NEW d \in DSPAs, Cleanup(d) PROVE LeftOK'
  <2>1. left[d] \in CleanupLeft
    BY <1>5 DEF Cleanup
  <2> QED BY <1>5, <2>1, CleanupLeftStep DEF Cleanup
<1>6. ASSUME NEW d \in DSPAs, Check(d) \/ Unfinalize(d) \/ Fail(d) PROVE LeftOK'
  BY <1>6 DEF Check, Unfinalize, Fail
<1>7. ASSUME NEW d \in DSPAs, Create(d) \/ Edit(d) \/ Delete(d) PROVE LeftOK'
  BY <1>7 DEF Create, Edit, Delete, User, localVars
<1>8. ASSUME NEW d \in DSPAs, Deliver(d) \/ Resync(d) PROVE LeftOK'
  BY <1>8 DEF Deliver, Resync, localVars
<1>9. ASSUME NEW k \in Kinds, Observe(k) PROVE LeftOK'
  BY <1>9 DEF Observe, localVars
<1>10. CASE Crash
  BY <1>10 DEF Crash
<1>11. CASE UNCHANGED vars
  BY <1>11 DEF vars
<1> QED
  BY <1>1, <1>2, <1>3, <1>4, <1>5, <1>6, <1>7, <1>8, <1>9, <1>10, <1>11
  DEF Next, Work

\* However many reconciles run at once, what each has left to apply or to remove,
\* its copy of the DSPA, the caches and the queue keep their types.
THEOREM WebhookTypeCorrect == Spec => []TypeOK
<1>1. Init => TypeOK /\ LeftOK
  BY InitIInv DEF IInv
<1>2. TypeOK /\ LeftOK /\ [Next]_vars => TypeOK' /\ LeftOK'
  BY TypeStep, LeftStep
<1> QED BY <1>1, <1>2, PTL DEF Spec

\* Storing a version keeps the watch in order.
LEMMA CommitWatch ==
    ASSUME TypeOK, WatchOK, NEW d \in DSPAs, NEW v \in Version, Commit(d, v),
           UNCHANGED cached
    PROVE  WatchOK'
<1>1. Stored(d, v) \in Version /\ Stored(d, v).rv = api[d].rv + 1
  BY CommitType DEF Stored, Version
<1>2. \A e \in DSPAs : api[e].rv \in Nat /\ \A w \in watch[e] : w.rv \in Nat
  BY DEF TypeOK, Version
<1> DEFINE sv == Stored(d, v)
<1>3. /\ api'[d] = sv /\ watch'[d] = watch[d] \cup {sv}
      /\ \A e \in DSPAs \ {d} : api'[e] = api[e] /\ watch'[e] = watch[e]
  BY DEF Commit, TypeOK
<1> HIDE DEF sv
<1> QED BY <1>1, <1>2, <1>3 DEF WatchOK, sv

\* A reconcile that ends leaves the others where they are.
LEMMA FinishFrame ==
    ASSUME TypeOK, NEW d \in DSPAs, Finish(d)
    PROVE  /\ pc'[d] = "idle"
           /\ \A e \in DSPAs \ {d} :
                 pc'[e] = pc[e] /\ mem'[e] = mem[e] /\ left'[e] = left[e]
BY DEF Finish, Goto, TypeOK

\* A reconcile that ends, its name queued again, its DSPA not kept or the webhook
\* complete, keeps the invariant.
LEMMA FinishInv ==
    ASSUME IInv, TypeOK', LeftOK', NEW d \in DSPAs, Finish(d), WatchOK',
           UNCHANGED <<cached, res, late>>,
           queued' = queued \/ queued' = queued \cup {d},
           d \in queued' \/ ~Kept(d) \/ res = Kinds
    PROVE  IInv'
<1>1. /\ pc'[d] = "idle"
      /\ \A e \in DSPAs \ {d} :
            pc'[e] = pc[e] /\ mem'[e] = mem[e] /\ left'[e] = left[e]
  BY FinishFrame DEF IInv
<1>2. queued \subseteq queued' /\ \A e \in DSPAs \ {d} : e \in queued' <=> e \in queued
  OBVIOUS
<1>3. CopyOK'
  BY <1>1, <1>2 DEF IInv, CopyOK
<1>4. ServedOK'
  BY <1>1, <1>2 DEF IInv, ServedOK, Kept, Needs
<1>5. CleanupOK'
  BY <1>1 DEF IInv, CleanupOK, Needs
<1> QED BY <1>3, <1>4, <1>5 DEF IInv

\* Steps that leave the reconciles, the caches of DSPAs, the resources and the
\* history alone, and take nothing off the queue, keep the invariant.
LEMMA OutsideInv ==
    ASSUME IInv, TypeOK', LeftOK', WatchOK',
           UNCHANGED <<cached, localVars, res, late>>, queued \subseteq queued'
    PROVE  IInv'
BY DEF IInv, CopyOK, ServedOK, CleanupOK, Kept, Needs, localVars

\* Every step keeps the invariant, however many reconciles run.
LEMMA ServedStep == IInv /\ [Next]_vars => IInv'
<1> SUFFICES ASSUME IInv, [Next]_vars PROVE IInv'
  OBVIOUS
<1>0. TypeOK /\ TypeOK' /\ LeftOK /\ LeftOK'
  BY TypeStep, LeftStep DEF IInv
<1> USE <1>0
<1>1. ASSUME NEW d \in DSPAs, Get(d) PROVE IInv'
  <2>1. /\ UNCHANGED <<api, cached, watch, res>>
        /\ queued' = queued \ {d}
        /\ late' = IF OthersCleanUp(d) THEN late ELSE late \ {d}
        /\ \A e \in DSPAs \ {d} :
              pc'[e] = pc[e] /\ mem'[e] = mem[e] /\ left'[e] = left[e]
    BY <1>1 DEF Get, Goto, localVars, TypeOK
  <2>2. \/ pc'[d] = "idle" /\ ~Needs(d)
        \/ /\ pc'[d] \in {"finalizer", "list"} /\ mem'[d] = cached[d]
           /\ pc'[d] = "list" => cached[d].stage = "deleting"
    BY <1>1 DEF Get, Goto, Needs, localVars, TypeOK
  <2>3. (WatchOK /\ CopyOK)'
    BY <2>1, <2>2 DEF IInv, WatchOK, CopyOK
  <2>4. ServedOK'
    BY <2>1, <2>2 DEF IInv, ServedOK, Kept, Needs
  <2>5. CleanupOK'
    BY <2>1, <2>2 DEF IInv, CleanupOK, Needs, OthersCleanUp
  <2> QED BY <2>3, <2>4, <2>5 DEF IInv
<1>2. ASSUME NEW d \in DSPAs, EnsureFinalizer(d) PROVE IInv'
  <2>1. WatchOK'
    <3>1. [mem[d] EXCEPT !.fin = TRUE] \in Version
      BY VersionType DEF TypeOK
    <3>2. /\ UNCHANGED cached
          /\ UNCHANGED <<api, watch>> \/ Commit(d, [mem[d] EXCEPT !.fin = TRUE])
      BY <1>2 DEF EnsureFinalizer, dspaVars
    <3>3. CASE UNCHANGED <<api, watch>>
      BY <3>2, <3>3 DEF IInv, WatchOK
    <3>4. CASE Commit(d, [mem[d] EXCEPT !.fin = TRUE])
      BY <3>1, <3>2, <3>4, CommitWatch DEF IInv
    <3> QED BY <3>2, <3>3, <3>4
  <2>2. CASE FinishRequeue(d)
    BY <1>2, <2>1, <2>2, FinishInv DEF EnsureFinalizer, FinishRequeue
  <2>3. CASE ~mem[d].k8s /\ Finish(d) /\ UNCHANGED queued
    <3>1. ~Kept(d)
      BY <1>2, <2>3 DEF IInv, CopyOK, Kept, Needs, EnsureFinalizer
    <3> QED BY <1>2, <2>1, <2>3, <3>1, FinishInv DEF EnsureFinalizer
  <2>4. CASE Goto(d, "apply", ApplyOrder) /\ UNCHANGED <<mem, queued>>
    <3>1. Applied(ApplyOrder) = {}
      BY DEF Applied, ApplyOrder
    <3>2. /\ pc[d] = "finalizer" /\ pc'[d] = "apply" /\ left'[d] = ApplyOrder
          /\ \A e \in DSPAs \ {d} : pc'[e] = pc[e] /\ left'[e] = left[e]
          /\ UNCHANGED <<mem, queued, cached, res, late>>
      BY <1>2, <2>4 DEF EnsureFinalizer, Goto, TypeOK
    <3>3. CopyOK'
      BY <3>2 DEF IInv, CopyOK
    <3>4. ServedOK'
      BY <3>1, <3>2 DEF IInv, ServedOK, Kept, Needs
    <3>5. CleanupOK'
      BY <3>2 DEF IInv, CleanupOK, Needs
    <3> QED BY <2>1, <3>3, <3>4, <3>5 DEF IInv
  <2> QED BY <1>2, <2>2, <2>3, <2>4 DEF EnsureFinalizer
<1>3. ASSUME NEW d \in DSPAs, Apply(d) PROVE IInv'
  <2>1. left[d] \in ApplyLeft
    BY <1>3 DEF LeftOK, Apply
  <2>2. res' = res \cup {Head(left[d])} /\ res' \subseteq Kinds
    BY <1>3 DEF Apply, SetResources, TypeOK
  <2>3. /\ pc[d] = "apply" /\ pc'[d] \in {"apply", "check"}
        /\ \A e \in DSPAs \ {d} : pc'[e] = pc[e] /\ left'[e] = left[e]
        /\ UNCHANGED <<api, watch, mem, queued, cached, late>>
    BY <1>3 DEF Apply, Goto, TypeOK
  <2>4. (WatchOK /\ CopyOK /\ CleanupOK)'
    BY <2>3 DEF IInv, WatchOK, CopyOK, CleanupOK, Needs
  <2>5. ASSUME Kept(d), Applied(left[d]) \subseteq res
        PROVE  /\ pc'[d] = "apply" => Applied(left'[d]) \subseteq res'
               /\ pc'[d] = "check" => res' = Kinds
    <3>1. CASE Len(left[d]) = 1
      BY <1>3, <2>1, <2>2, <2>5, <3>1, ApplyLeftStep DEF Apply, Goto, TypeOK
    <3>2. CASE Len(left[d]) # 1
      BY <1>3, <2>1, <2>2, <2>5, <3>2, ApplyLeftStep DEF Apply, Goto, TypeOK
    <3> QED BY <3>1, <3>2
  <2>6. ServedOK'
    BY <2>2, <2>3, <2>5 DEF IInv, ServedOK, Kept, Needs
  <2> QED BY <2>4, <2>6 DEF IInv
<1>4. ASSUME NEW d \in DSPAs, Check(d) PROVE IInv'
  <2>1. Finish(d) /\ (queued' = queued \/ queued' = queued \cup {d})
    BY <1>4 DEF Check, FinishRequeue
  <2>2. ~Kept(d) \/ res = Kinds
    BY <1>4 DEF IInv, ServedOK, Check
  <2>3. WatchOK' /\ UNCHANGED <<cached, res, late>>
    BY <1>4 DEF IInv, WatchOK, Check
  <2> QED BY <2>1, <2>2, <2>3, FinishInv
<1>5. ASSUME NEW d \in DSPAs, List(d) PROVE IInv'
  <2>1. /\ pc'[d] \in {"cleanup", "unfinalize"} /\ pc[d] = "list"
        /\ \A e \in DSPAs \ {d} : pc'[e] = pc[e] /\ left'[e] = left[e]
        /\ UNCHANGED <<api, cached, watch, queued, mem, res, late>>
    BY <1>5 DEF List, Goto, TypeOK
  <2>2. (WatchOK /\ CopyOK /\ ServedOK)'
    BY <2>1 DEF IInv, WatchOK, CopyOK, ServedOK, Kept, Needs
  <2>3. pc'[d] = "cleanup" => \A e \in DSPAs \ {d} : ~Needs(e)
    <3>1. pc'[d] = "cleanup" => OtherKubernetesDSPAs(d) = {}
      BY <1>5 DEF List, Goto, TypeOK
    <3> QED BY <3>1 DEF OtherKubernetesDSPAs, Needs
  <2>4. CleanupOK'
    BY <2>1, <2>3 DEF IInv, CleanupOK, Needs
  <2> QED BY <2>2, <2>4 DEF IInv
<1>6. ASSUME NEW d \in DSPAs, Cleanup(d) PROVE IInv'
  <2>1. \A e \in DSPAs : ~Kept(e)
    BY <1>6 DEF IInv, CleanupOK, CopyOK, Kept, Needs, Cleanup
  <2>2. queued \subseteq queued' /\ UNCHANGED <<api, watch, cached, late>>
    BY <1>6 DEF Cleanup, FinishRequeue
  <2>3. (WatchOK /\ ServedOK)'
    BY <2>1, <2>2 DEF IInv, WatchOK, ServedOK, Kept, Needs
  <2>4. \A e \in DSPAs : pc'[e] = "cleanup" => pc[e] = "cleanup"
    BY <1>6 DEF Cleanup, FinishRequeue, Finish, Goto, TypeOK
  <2>5. CopyOK'
    BY <1>6 DEF IInv, CopyOK, Cleanup, FinishRequeue, Finish, Goto, TypeOK
  <2>6. CleanupOK'
    BY <2>2, <2>4 DEF IInv, CleanupOK, Needs
  <2> QED BY <2>3, <2>5, <2>6 DEF IInv
<1>7. ASSUME NEW d \in DSPAs, Unfinalize(d) PROVE IInv'
  <2>1. WatchOK'
    BY <1>7, CommitWatch, VersionType DEF IInv, Unfinalize, dspaVars, WatchOK
  <2>2. /\ Finish(d) /\ UNCHANGED <<cached, res, late>>
        /\ queued' = queued \/ queued' = queued \cup {d}
    BY <1>7 DEF Unfinalize, FinishRequeue
  <2>3. ~Kept(d)
    BY <1>7 DEF IInv, CopyOK, Unfinalize, Kept, Needs
  <2> QED BY <2>1, <2>2, <2>3, FinishInv
<1>8. ASSUME NEW d \in DSPAs, Fail(d) PROVE IInv'
  <2>1. WatchOK' /\ UNCHANGED <<cached, res, late>>
    BY <1>8 DEF IInv, WatchOK, Fail
  <2> QED BY <1>8, <2>1, FinishInv DEF Fail, FinishRequeue
<1>9. ASSUME NEW d \in DSPAs, NEW v \in Version, User(d, v) PROVE IInv'
  <2>1. WatchOK'
    BY <1>9, CommitWatch DEF IInv, User
  <2> QED BY <1>9, <2>1, OutsideInv DEF User
<1>10. ASSUME NEW d \in DSPAs, Create(d) \/ Edit(d) \/ Delete(d) PROVE IInv'
  BY <1>9, <1>10, VersionType DEF Create, Edit, Delete, TypeOK
<1>11. ASSUME NEW d \in DSPAs, Deliver(d) PROVE IInv'
  <2>1. PICK v \in watch[d] :
           /\ \A w \in watch[d] : v.rv <= w.rv
           /\ cached' = [cached EXCEPT ![d] = v]
           /\ watch' = [watch EXCEPT ![d] = @ \ {v}]
           /\ late' = IF v.stage = "live" /\ v.k8s /\ OthersCleanUp(d)
                      THEN late \cup {d} ELSE late
    BY <1>11 DEF Deliver
  <2>2. UNCHANGED <<api, pc, mem, left, res>> /\ queued' = queued \cup {d}
    BY <1>11 DEF Deliver, localVars
  <2>3. api[d].rv \in Nat /\ v.rv \in Nat
    <3>1. api[d] \in Version /\ v \in Version
      BY DEF TypeOK
    <3> QED BY <3>1 DEF Version
  <2>4. /\ cached'[d] = v /\ watch'[d] = watch[d] \ {v}
        /\ \A e \in DSPAs \ {d} : cached'[e] = cached[e] /\ watch'[e] = watch[e]
    BY <2>1 DEF TypeOK
  <2>5. WatchOK'
    <3>1. v = api[d] => watch[d] = {v}
      BY <2>1, <2>3 DEF IInv, WatchOK, TypeOK, Version
    <3>2. watch'[d] = {} => v = api[d]
      BY <2>4 DEF IInv, WatchOK
    <3> QED BY <2>2, <2>4, <3>1, <3>2 DEF IInv, WatchOK
  <2>6. (CopyOK /\ ServedOK)'
    BY <2>1, <2>2, <2>4 DEF IInv, CopyOK, ServedOK, Kept, Needs
  <2>7. CleanupOK'
    BY <2>1, <2>2, <2>4 DEF IInv, CleanupOK, Needs, OthersCleanUp
  <2> QED BY <2>5, <2>6, <2>7 DEF IInv
<1>12. ASSUME NEW d \in DSPAs, Resync(d) PROVE IInv'
  <2>1. WatchOK'
    BY <1>12 DEF IInv, WatchOK, Resync
  <2> QED BY <1>12, <2>1, OutsideInv DEF Resync
<1>13. ASSUME NEW k \in Kinds, Observe(k) PROVE IInv'
  <2>1. WatchOK'
    BY <1>13 DEF IInv, WatchOK, Observe
  <2> QED BY <1>13, <2>1, OutsideInv DEF Observe
<1>14. CASE Crash
  BY <1>14 DEF IInv, Crash, WatchOK, CopyOK, ServedOK, CleanupOK, Kept, Needs
<1>15. CASE UNCHANGED vars
  <2>1. WatchOK'
    BY <1>15 DEF IInv, WatchOK, vars
  <2> QED BY <1>15, <2>1, OutsideInv DEF vars, localVars
<1> QED
  BY <1>1, <1>2, <1>3, <1>4, <1>5, <1>6, <1>7, <1>8, <1>10, <1>11, <1>12, <1>13,
     <1>14, <1>15
  DEF Next, Work

\* However many workers reconcile whatever DSPAs are created, edited and deleted,
\* whatever fails, crashes or lags: a live kubernetes DSPA that the operator is
\* through with has every resource of the webhook, unless the cache learnt of it in
\* the middle of another one's clean-up and it has not been reconciled since.
THEOREM WebhookServedUnlessLate == Spec => []ServedUnlessLate
<1>1. Init => IInv
  BY InitIInv
<1>2. IInv /\ [Next]_vars => IInv'
  BY ServedStep
<1>3. IInv => ServedUnlessLate
  BY DEF IInv, WatchOK, ServedOK, Kept, Needs, ServedUnlessLate, Served, Settled
<1> QED BY <1>1, <1>2, <1>3, PTL DEF Spec
=============================================================================
