---------------------- MODULE MLflowEndpointCacheProofs ----------------------
(***************************************************************************)
(* Answers of the MLflow endpoint cache are fresh, and only expired entries  *)
(* are dropped, for any number of threads, namespaces and endpoints and any  *)
(* TTL.                                                                      *)
(***************************************************************************)
EXTENDS MLflowEndpointCache, TLAPS

\* An endpoint that is advertised now was last advertised now; a thread's time
\* is not in the future, nor is anything that was advertised.
TimeOK ==
    /\ \A n \in Namespaces : advertised[n] # Missing
                                => last[n][advertised[n]] = clock + 1
    /\ \A n \in Namespaces, e \in Endpoints : last[n][e] <= clock + 1
    /\ \A t \in Threads : now[t] <= clock

\* What an entry offers until it expires was advertised less than TTL before.
EntriesOK ==
    \A n \in Namespaces : entries[n] # NoEntry
        => last[n][entries[n].endpoint] + TTL >= entries[n].expires + 1

\* What a thread is about to store was advertised since its call began.
LookedUpOK ==
    \A t \in Threads : pc[t] = "store"
        => got[t] # Missing /\ last[ns[t]][got[t]] >= now[t] + 1

Fresh == TimeOK /\ EntriesOK /\ LookedUpOK /\ AnswersAreFresh

IInv == TypeOK /\ Fresh

\* The invariant holds initially.
LEMMA InitIInv == Init => IInv
<1> SUFFICES ASSUME Init PROVE IInv
  OBVIOUS
<1>1. TypeOK
  BY ConstantsOK DEF Init, TypeOK, NoEntry
<1>2. TimeOK /\ EntriesOK /\ LookedUpOK /\ AnswersAreFresh
  BY ConstantsOK DEF Init, TimeOK, EntriesOK, LookedUpOK, AnswersAreFresh, NoEntry
<1> QED BY <1>1, <1>2 DEF IInv, Fresh

\* Every step of a thread or of the world keeps the variables in their types.
LEMMA TypeStep == TypeOK /\ LookedUpOK /\ [Next]_vars => TypeOK'
<1> SUFFICES ASSUME TypeOK, LookedUpOK, [Next]_vars PROVE TypeOK'
  OBVIOUS
<1> USE ConstantsOK DEF TypeOK, Goto, threadVars
<1>1. ASSUME NEW t \in Threads, Call(t) PROVE TypeOK'
  BY <1>1 DEF Call
<1>2. ASSUME NEW t \in Threads, Look(t) PROVE TypeOK'
  <2> DEFINE e == entries[ns[t]]
  <2>1. e = NoEntry \/ e.endpoint \in Endpoints
    OBVIOUS
  <2>2. e # NoEntry => got' \in [Threads -> Endpoints \cup {Missing}]
    BY <1>2, <2>1 DEF Look
  <2>3. e = NoEntry => got' \in [Threads -> Endpoints \cup {Missing}]
    BY <1>2 DEF Look
  <2>4. pc' \in [Threads -> {"idle", "look", "evict", "lookup", "store", "returned"}]
    <3>1. \E step \in {"returned", "evict", "lookup"} : pc' = [pc EXCEPT ![t] = step]
      BY <1>2 DEF Look
    <3> QED BY <3>1
  <2> QED BY <1>2, <2>2, <2>3, <2>4 DEF Look
<1>3. ASSUME NEW t \in Threads, Evict(t) PROVE TypeOK'
  BY <1>3 DEF Evict
<1>4. ASSUME NEW t \in Threads, Lookup(t) PROVE TypeOK'
  BY <1>4 DEF Lookup
<1>5. ASSUME NEW t \in Threads, Store(t) PROVE TypeOK'
  BY <1>5 DEF Store, LookedUpOK
<1>6. ASSUME NEW n \in Namespaces, Readvertise(n) PROVE TypeOK'
  BY <1>6 DEF Readvertise
<1>7. CASE Tick
  BY <1>7 DEF Tick
<1>8. CASE UNCHANGED vars
  BY <1>8 DEF vars
<1> QED BY <1>1, <1>2, <1>3, <1>4, <1>5, <1>6, <1>7, <1>8 DEF Next

\* No step makes an entry or an answer older than it may be.
LEMMA FreshStep == IInv /\ [Next]_vars => IInv'
<1> SUFFICES ASSUME IInv, [Next]_vars PROVE IInv'
  OBVIOUS
<1>0. TypeOK /\ TypeOK'
  BY TypeStep DEF IInv, Fresh
<1> USE <1>0, ConstantsOK
<1>1. ASSUME NEW t \in Threads, Call(t) PROVE Fresh'
  BY <1>1 DEF Fresh, IInv, Call, TypeOK, TimeOK, EntriesOK, LookedUpOK,
              AnswersAreFresh, Goto
<1>2. ASSUME NEW t \in Threads, Look(t) PROVE Fresh'
  <2>1. (TimeOK /\ EntriesOK /\ LookedUpOK)'
    BY <1>2 DEF IInv, Fresh, Look, TypeOK, TimeOK, EntriesOK, LookedUpOK, Goto
  <2>2. AnswersAreFresh'
    BY <1>2 DEF IInv, Fresh, Look, TypeOK, EntriesOK, AnswersAreFresh, Goto, Expired
  <2> QED BY <2>1, <2>2 DEF Fresh
<1>3. ASSUME NEW t \in Threads, Evict(t) PROVE Fresh'
  BY <1>3 DEF Fresh, IInv, Evict, TypeOK, TimeOK, EntriesOK, LookedUpOK,
              AnswersAreFresh, Goto
<1>4. ASSUME NEW t \in Threads, Lookup(t) PROVE Fresh'
  BY <1>4 DEF Fresh, IInv, Lookup, TypeOK, TimeOK, EntriesOK, LookedUpOK,
              AnswersAreFresh, Goto
<1>5. ASSUME NEW t \in Threads, Store(t) PROVE Fresh'
  <2>1. (TimeOK /\ LookedUpOK /\ AnswersAreFresh)'
    BY <1>5 DEF IInv, Fresh, Store, TypeOK, TimeOK, LookedUpOK, AnswersAreFresh,
                Goto
  <2>2. EntriesOK'
    BY <1>5 DEF IInv, Fresh, Store, TypeOK, LookedUpOK, EntriesOK
  <2> QED BY <2>1, <2>2 DEF Fresh
<1>6. ASSUME NEW n \in Namespaces, Readvertise(n) PROVE Fresh'
  <2>1. \A m \in Namespaces, e \in Endpoints : last'[m][e] >= last[m][e]
    BY <1>6 DEF Fresh, IInv, Readvertise, TypeOK, TimeOK
  <2>2. TimeOK'
    BY <1>6 DEF Fresh, IInv, Readvertise, TypeOK, TimeOK, threadVars
  <2>3. (EntriesOK /\ LookedUpOK /\ AnswersAreFresh)'
    BY <1>6, <2>1 DEF Fresh, IInv, Readvertise, TypeOK, EntriesOK, LookedUpOK,
                      AnswersAreFresh, threadVars
  <2> QED BY <2>2, <2>3 DEF Fresh
<1>7. ASSUME Tick PROVE Fresh'
  BY <1>7 DEF Fresh, IInv, Tick, TypeOK, TimeOK, EntriesOK, LookedUpOK,
              AnswersAreFresh, threadVars
<1>8. ASSUME UNCHANGED vars PROVE Fresh'
  BY <1>8 DEF Fresh, IInv, vars, TypeOK, TimeOK, EntriesOK, LookedUpOK,
              AnswersAreFresh
<1>9. Fresh'
  BY <1>1, <1>2, <1>3, <1>4, <1>5, <1>6, <1>7, <1>8 DEF Next
<1> QED BY <1>0, <1>9 DEF IInv, Fresh

\* A thread that drops an entry goes by a time that is not in the future.
LEMMA DropStep ==
    ASSUME IInv, [Next]_vars,
           NEW n \in Namespaces, entries[n] # NoEntry, entries'[n] = NoEntry
    PROVE  Expired(entries[n], clock)
<1> USE ConstantsOK DEF IInv, Fresh, TypeOK, TimeOK, Expired
<1>1. ASSUME NEW t \in Threads, Evict(t) PROVE Expired(entries[n], clock)
  BY <1>1 DEF Evict
<1>2. ASSUME NEW t \in Threads, Store(t) PROVE Expired(entries[n], clock)
  BY <1>2 DEF Store, LookedUpOK, NoEntry
<1>3. CASE UNCHANGED entries
  BY <1>3
<1> QED
  BY <1>1, <1>2, <1>3
  DEF Next, Call, Look, Lookup, Readvertise, Tick, vars

\* The invariant holds in every reachable state.
LEMMA Invariance == Spec => []IInv
BY InitIInv, FreshStep, PTL DEF Spec

\* The cache's variables keep their types.
THEOREM CacheTypeCorrect == Spec => []TypeOK
<1>1. IInv => TypeOK
  BY DEF IInv
<1> QED BY <1>1, Invariance, PTL

\* An answer of retrieveMLflowEndpointCached is never older than the TTL, however
\* many reconciles share the cache and however slow they are.
THEOREM AnswersFresh == Spec => []AnswersAreFresh
<1>1. IInv => AnswersAreFresh
  BY DEF IInv, Fresh
<1> QED BY <1>1, Invariance, PTL

\* Neither the evicting branch nor removeExpiredMLflowCacheLocked ever drops an
\* entry that is still valid.
THEOREM DropsOnlyExpired == Spec => OnlyExpiredEntriesAreDropped
<1>1. IInv /\ [Next]_vars
        => [\A n \in Namespaces :
               entries[n] # NoEntry /\ entries'[n] = NoEntry
                   => Expired(entries[n], clock)]_vars
  BY DropStep
<1> QED BY <1>1, Invariance, PTL DEF Spec, OnlyExpiredEntriesAreDropped
=============================================================================
