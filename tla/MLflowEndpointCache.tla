------------------------ MODULE MLflowEndpointCache ------------------------
(***************************************************************************)
(* retrieveMLflowEndpointCached: the endpoint of a namespace's MLflow        *)
(* resource, kept for a while in a map all reconciles share.  The map is     *)
(* guarded by a RWMutex that is released between looking, evicting, asking   *)
(* the API server and storing, so those are the steps that interleave; the   *)
(* time of the call, taken once, decides about expiry in all of them.        *)
(***************************************************************************)
EXTENDS Naturals

CONSTANTS
    Threads,        \* concurrent reconciles
    Namespaces,
    Endpoints,      \* URLs an MLflow resource may advertise
    Missing,        \* no MLflow resource, or one without a valid URL
    TTL,            \* MLflowEndpointCacheTTL
    MaxTime         \* bound on the clock

ASSUME ConstantsOK ==
    /\ TTL \in Nat \ {0} /\ MaxTime \in Nat
    /\ Missing \notin Endpoints

VARIABLES
    clock,
    advertised,     \* per namespace, what the API server says now
    last,           \* history: when each endpoint was last advertised, plus one
    entries,        \* mlflowEndpointCache
    pc, ns, now,    \* per thread: where it is, for which namespace, since when
    got             \* per thread: the endpoint it looked up or returned

vars == <<clock, advertised, last, entries, pc, ns, now, got>>
threadVars == <<pc, ns, now, got>>

NoEntry == [endpoint |-> Missing, expires |-> 0]

Expired(e, t) == e.expires <= t

Init ==
    /\ clock = 0
    /\ advertised \in [Namespaces -> Endpoints \cup {Missing}]
    /\ last = [n \in Namespaces |->
                  [e \in Endpoints |-> IF e = advertised[n] THEN 1 ELSE 0]]
    /\ entries = [n \in Namespaces |-> NoEntry]
    /\ pc = [t \in Threads |-> "idle"]
    /\ ns \in [Threads -> Namespaces]
    /\ now = [t \in Threads |-> 0]
    /\ got = [t \in Threads |-> Missing]

Goto(t, step) == pc' = [pc EXCEPT ![t] = step]

Call(t) ==
    /\ pc[t] \in {"idle", "returned"}
    /\ \E n \in Namespaces : ns' = [ns EXCEPT ![t] = n]
    /\ now' = [now EXCEPT ![t] = clock]
    /\ got' = [got EXCEPT ![t] = Missing]
    /\ Goto(t, "look")
    /\ UNCHANGED <<clock, advertised, last, entries>>

\* Under RLock: a valid entry is the answer.
Look(t) ==
    /\ pc[t] = "look"
    /\ LET e == entries[ns[t]]
       IN  IF e # NoEntry /\ ~Expired(e, now[t])
           THEN got' = [got EXCEPT ![t] = e.endpoint] /\ Goto(t, "returned")
           ELSE UNCHANGED got /\ Goto(t, IF e # NoEntry THEN "evict" ELSE "lookup")
    /\ UNCHANGED <<clock, advertised, last, entries, ns, now>>

\* Mutant: the entry seen under RLock is deleted without looking again.
EvictUnchecked(t) ==
    /\ pc[t] = "evict"
    /\ entries' = [entries EXCEPT ![ns[t]] = NoEntry]
    /\ Goto(t, "lookup")
    /\ UNCHANGED <<clock, advertised, last, ns, now, got>>

\* Under Lock: the entry may have been replaced since.
Evict(t) ==
    /\ pc[t] = "evict"
    /\ entries' = [entries EXCEPT ![ns[t]] =
                      IF Expired(@, now[t]) THEN NoEntry ELSE @]
    /\ Goto(t, "lookup")
    /\ UNCHANGED <<clock, advertised, last, ns, now, got>>

\* Mutant: errors are cached too.
LookupCachingErrors(t) ==
    /\ pc[t] = "lookup"
    /\ got' = [got EXCEPT ![t] = advertised[ns[t]]]
    /\ Goto(t, "store")
    /\ UNCHANGED <<clock, advertised, last, entries, ns, now>>

\* lookupMLflowEndpoint reads the API server; an error is not cached.
Lookup(t) ==
    /\ pc[t] = "lookup"
    /\ got' = [got EXCEPT ![t] = advertised[ns[t]]]
    /\ Goto(t, IF advertised[ns[t]] = Missing THEN "returned" ELSE "store")
    /\ UNCHANGED <<clock, advertised, last, entries, ns, now>>

\* Mutant: the lifetime starts when the entry is stored.
StoreFromNow(t) ==
    /\ pc[t] = "store"
    /\ entries' = [entries EXCEPT ![ns[t]] =
                      [endpoint |-> got[t], expires |-> clock + TTL]]
    /\ Goto(t, "returned")
    /\ UNCHANGED <<clock, advertised, last, ns, now, got>>

\* Under Lock: expired entries of every namespace go, this one is written.
Store(t) ==
    /\ pc[t] = "store"
    /\ entries' = [n \in Namespaces |->
                      IF n = ns[t]
                      THEN [endpoint |-> got[t], expires |-> now[t] + TTL]
                      ELSE IF Expired(entries[n], now[t]) THEN NoEntry
                      ELSE entries[n]]
    /\ Goto(t, "returned")
    /\ UNCHANGED <<clock, advertised, last, ns, now, got>>

\* Somebody edits the MLflow resource of n.
Readvertise(n) ==
    /\ \E e \in Endpoints \cup {Missing} :
          /\ advertised' = [advertised EXCEPT ![n] = e]
          /\ last' = IF e = Missing THEN last
                     ELSE [last EXCEPT ![n][e] = clock + 1]
    /\ UNCHANGED <<clock, entries, threadVars>>

Tick ==
    /\ clock < MaxTime
    /\ clock' = clock + 1
    /\ last' = [n \in Namespaces |->
                   [e \in Endpoints |-> IF e = advertised[n] THEN clock + 2
                                                             ELSE last[n][e]]]
    /\ UNCHANGED <<advertised, entries, threadVars>>

Next ==
    \/ \E t \in Threads : Call(t) \/ Look(t) \/ Evict(t) \/ Lookup(t) \/ Store(t)
    \/ \E n \in Namespaces : Readvertise(n)
    \/ Tick

Spec == Init /\ [][Next]_vars

-----------------------------------------------------------------------------
\* The variables hold what the declarations say.
TypeOK ==
    /\ clock \in Nat
    /\ advertised \in [Namespaces -> Endpoints \cup {Missing}]
    /\ last \in [Namespaces -> [Endpoints -> Nat]]
    /\ entries \in [Namespaces -> {NoEntry} \cup [endpoint : Endpoints,
                                                  expires : Nat]]
    /\ pc \in [Threads -> {"idle", "look", "evict", "lookup", "store",
                           "returned"}]
    /\ ns \in [Threads -> Namespaces]
    /\ now \in [Threads -> Nat]
    /\ got \in [Threads -> Endpoints \cup {Missing}]

\* However slow the other reconciles are, an answer is never older than TTL: the
\* endpoint returned was the one advertised at some time less than TTL before
\* the call began (retrieveMLflowEndpointCached).
AnswersAreFresh ==
    \A t \in Threads :
        pc[t] = "returned" /\ got[t] # Missing
            => last[ns[t]][got[t]] + TTL > now[t] + 1

\* An entry that is still valid is never dropped, whatever time the thread that
\* clears the map believes it is (the second look in the evicting branch,
\* removeExpiredMLflowCacheLocked).
OnlyExpiredEntriesAreDropped ==
    [][\A n \in Namespaces :
          entries[n] # NoEntry /\ entries'[n] = NoEntry
              => Expired(entries[n], clock)]_vars

=============================================================================
