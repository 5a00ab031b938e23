---------------------- MODULE DatabaseHealthCheckProofs ----------------------
(***************************************************************************)
(* What the health checks guarantee for any number of workers, DSPAs,        *)
(* authorities and settings although they share one registered name: TLS is  *)
(* never lost, and with uniform settings nothing is.                         *)
(***************************************************************************)
EXTENDS DatabaseHealthCheck, TLAPS

\* The settings that occur are settings.
DatabasesOK == Databases \subseteq Settings

\* All DSPAs that use TLS use the same configuration.
Uniform ==
    \A s, t \in Databases :
        TLSConfig(s).tls /\ TLSConfig(t).tls => TLSConfig(s) = TLSConfig(t)

\* c is what the settings of some DSPA make, in TLS as s asks for.
MadeFor(c, s) ==
    \E t \in Databases : /\ CertificatesOK(t) /\ c = TLSConfig(t)
                         /\ TLSConfig(t).tls = TLSConfig(s).tls

\* Some check's configuration is registered once there is any.
RegistryOK ==
    registry.tls =>
        \E t \in Databases : CertificatesOK(t) /\ registry = TLSConfig(t)

\* Before it opens the connection a check has its own configuration, and in TLS
\* something is registered; after that it has somebody's.
CheckOK ==
    \A d \in DSPAs :
        /\ pc[d] \in {"register", "open"} =>
              CertificatesOK(db[d]) /\ config[d] = TLSConfig(db[d])
        /\ pc[d] = "register" => config[d].tls
        /\ pc[d] = "open" /\ config[d].tls => registry.tls
        /\ pc[d] = "query" => MadeFor(config[d], db[d])

IInv == TypeOK /\ RegistryOK /\ CheckOK /\ PassedUnderSomeConfig

\* The configuration made from certificates that parse is a configuration.
LEMMA TLSConfigType ==
    ASSUME DatabasesOK, NEW s \in Databases, CertificatesOK(s)
    PROVE  TLSConfig(s) \in Configs
BY DEF DatabasesOK, TLSConfig, CertificatesOK, Configs, Settings, TLSMode, Insecure,
       NoTLS

\* The three ways a check begins.
LEMMA BeginCases ==
    ASSUME NEW d \in DSPAs, Begin(d)
    PROVE  \E s \in Databases :
              /\ db' = [db EXCEPT ![d] = s] /\ registry' = registry
              /\ \/ s.disabled /\ Answer(d, "assumed") /\ UNCHANGED config
                 \/ Answer(d, "failed") /\ UNCHANGED config
                 \/ /\ CertificatesOK(s)
                    /\ config' = [config EXCEPT ![d] = TLSConfig(s)]
                    /\ pc' = [pc EXCEPT ![d] =
                                 IF TLSConfig(s).tls THEN "register" ELSE "open"]
                    /\ verdict' = [verdict EXCEPT ![d] = "none"]
BY DEF Begin

\* The invariant holds initially.
LEMMA InitIInv == Init => IInv
BY DEF Init, IInv, TypeOK, RegistryOK, CheckOK, PassedUnderSomeConfig, NoTLS, Configs

\* Every step keeps the variables in their types.
LEMMA TypeStep ==
    ASSUME DatabasesOK
    PROVE  TypeOK /\ [Next]_vars => TypeOK'
<1> SUFFICES ASSUME TypeOK, [Next]_vars PROVE TypeOK'
  OBVIOUS
<1> USE DEF TypeOK
<1>1. ASSUME NEW d \in DSPAs, Begin(d) PROVE TypeOK'
  <2>1. PICK s \in Databases :
           /\ db' = [db EXCEPT ![d] = s] /\ registry' = registry
           /\ \/ s.disabled /\ Answer(d, "assumed") /\ UNCHANGED config
              \/ Answer(d, "failed") /\ UNCHANGED config
              \/ /\ CertificatesOK(s)
                 /\ config' = [config EXCEPT ![d] = TLSConfig(s)]
                 /\ pc' = [pc EXCEPT ![d] =
                              IF TLSConfig(s).tls THEN "register" ELSE "open"]
                 /\ verdict' = [verdict EXCEPT ![d] = "none"]
    BY <1>1, BeginCases
  <2>2. CertificatesOK(s) => TLSConfig(s) \in Configs
    BY TLSConfigType
  <2> QED BY <2>1, <2>2 DEF Answer
<1>2. ASSUME NEW d \in DSPAs, Register(d) PROVE TypeOK'
  BY <1>2 DEF Register
<1>3. ASSUME NEW d \in DSPAs, Open(d) PROVE TypeOK'
  BY <1>3 DEF Open, Answer
<1>4. ASSUME NEW d \in DSPAs, Query(d) PROVE TypeOK'
  BY <1>4 DEF Query, Answer
<1>5. CASE UNCHANGED vars
  BY <1>5 DEF vars
<1> QED BY <1>1, <1>2, <1>3, <1>4, <1>5 DEF Next

\* However many health checks run at once, the settings they work with, the
\* driver's registry and the verdicts keep their types: only certificates that
\* parsed are ever registered.
THEOREM ChecksTypeCorrect ==
    ASSUME DatabasesOK
    PROVE  Spec => []TypeOK
<1>1. Init => TypeOK
  BY InitIInv DEF IInv
<1>2. TypeOK /\ [Next]_vars => TypeOK'
  BY TypeStep
<1> QED BY <1>1, <1>2, PTL DEF Spec

\* Every step keeps the invariant: whoever registers next, registers TLS.
LEMMA CheckStep ==
    ASSUME DatabasesOK
    PROVE  IInv /\ [Next]_vars => IInv'
<1> SUFFICES ASSUME IInv, [Next]_vars PROVE IInv'
  OBVIOUS
<1>0. TypeOK /\ TypeOK'
  BY TypeStep DEF IInv
<1> USE <1>0
<1>1. ASSUME NEW d \in DSPAs, Begin(d) PROVE IInv'
  <2>1. PICK s \in Databases :
           /\ db' = [db EXCEPT ![d] = s] /\ registry' = registry
           /\ \/ s.disabled /\ Answer(d, "assumed") /\ UNCHANGED config
              \/ Answer(d, "failed") /\ UNCHANGED config
              \/ /\ CertificatesOK(s)
                 /\ config' = [config EXCEPT ![d] = TLSConfig(s)]
                 /\ pc' = [pc EXCEPT ![d] =
                              IF TLSConfig(s).tls THEN "register" ELSE "open"]
                 /\ verdict' = [verdict EXCEPT ![d] = "none"]
    BY <1>1, BeginCases
  <2>2. /\ db'[d] = s /\ verdict'[d] # "ok"
        /\ \A e \in DSPAs \ {d} : /\ pc'[e] = pc[e] /\ config'[e] = config[e]
                                  /\ db'[e] = db[e] /\ verdict'[e] = verdict[e]
        /\ \/ pc'[d] = "idle"
           \/ /\ CertificatesOK(s) /\ config'[d] = TLSConfig(s)
              /\ pc'[d] = IF TLSConfig(s).tls THEN "register" ELSE "open"
    BY <2>1 DEF Answer, TypeOK
  <2>3. RegistryOK'
    BY <2>1 DEF IInv, RegistryOK
  <2>4. CheckOK'
    BY <2>1, <2>2 DEF IInv, CheckOK
  <2>5. PassedUnderSomeConfig'
    BY <2>2 DEF IInv, PassedUnderSomeConfig
  <2> QED BY <2>3, <2>4, <2>5 DEF IInv
<1>2. ASSUME NEW d \in DSPAs, Register(d) PROVE IInv'
  <2>1. /\ pc[d] = "register" /\ pc'[d] = "open" /\ registry' = config[d]
        /\ \A e \in DSPAs \ {d} : pc'[e] = pc[e]
        /\ UNCHANGED <<db, config, verdict>>
    BY <1>2 DEF Register, TypeOK
  <2>2. config[d].tls /\ CertificatesOK(db[d]) /\ config[d] = TLSConfig(db[d])
    BY <2>1 DEF IInv, CheckOK
  <2>3. RegistryOK'
    BY <2>1, <2>2 DEF RegistryOK, TypeOK
  <2>4. CheckOK'
    BY <2>1, <2>2 DEF IInv, CheckOK
  <2>5. PassedUnderSomeConfig'
    BY <2>1 DEF IInv, PassedUnderSomeConfig
  <2> QED BY <2>3, <2>4, <2>5 DEF IInv
<1>3. ASSUME NEW d \in DSPAs, Open(d) PROVE IInv'
  <2>1. /\ \A e \in DSPAs \ {d} : /\ pc'[e] = pc[e] /\ config'[e] = config[e]
                                  /\ verdict'[e] = verdict[e]
        /\ UNCHANGED <<registry, db>>
        /\ pc[d] = "open"
        /\ \/ pc'[d] = "idle" /\ verdict'[d] = "failed"
           \/ /\ pc'[d] = "query" /\ verdict'[d] = verdict[d]
              /\ config'[d] = IF config[d].tls THEN registry ELSE config[d]
    BY <1>3 DEF Open, Answer, TypeOK
  <2>2. RegistryOK'
    BY <2>1 DEF IInv, RegistryOK
  <2>3. pc'[d] = "query" => MadeFor(config'[d], db[d])
    <3>1. CertificatesOK(db[d]) /\ config[d] = TLSConfig(db[d]) /\ db[d] \in Databases
      BY <2>1 DEF IInv, CheckOK, TypeOK
    <3>2. CASE config[d].tls
      <4>1. registry.tls
        BY <2>1, <3>2 DEF IInv, CheckOK
      <4>2. PICK t \in Databases : CertificatesOK(t) /\ registry = TLSConfig(t)
        BY <4>1 DEF IInv, RegistryOK
      <4>3. TLSConfig(t).tls = TLSConfig(db[d]).tls
        BY <3>1, <3>2, <4>1, <4>2 DEF TypeOK, Configs
      <4> QED BY <2>1, <3>2, <4>2, <4>3 DEF MadeFor
    <3>3. CASE ~config[d].tls
      BY <2>1, <3>1, <3>3 DEF MadeFor
    <3> QED BY <3>2, <3>3
  <2>4. CheckOK'
    BY <2>1, <2>3 DEF IInv, CheckOK
  <2>5. PassedUnderSomeConfig'
    BY <2>1 DEF IInv, PassedUnderSomeConfig
  <2> QED BY <2>2, <2>4, <2>5 DEF IInv
<1>4. ASSUME NEW d \in DSPAs, Query(d) PROVE IInv'
  <2>1. /\ pc[d] = "query" /\ pc'[d] = "idle"
        /\ \A e \in DSPAs \ {d} : pc'[e] = pc[e] /\ verdict'[e] = verdict[e]
        /\ UNCHANGED <<registry, db, config>>
        /\ verdict'[d] = "ok" => Accepts(config[d], db[d])
    BY <1>4 DEF Query, Answer, TypeOK
  <2>2. (RegistryOK /\ CheckOK)'
    BY <2>1 DEF IInv, RegistryOK, CheckOK
  <2>3. MadeFor(config[d], db[d])
    BY <2>1 DEF IInv, CheckOK
  <2>4. PassedUnderSomeConfig'
    BY <2>1, <2>3 DEF IInv, PassedUnderSomeConfig, MadeFor
  <2> QED BY <2>2, <2>4 DEF IInv
<1>5. CASE UNCHANGED vars
  BY <1>5 DEF IInv, vars, RegistryOK, CheckOK, PassedUnderSomeConfig
<1> QED BY <1>1, <1>2, <1>3, <1>4, <1>5 DEF Next

\* However many checks share the name "custom", one that passes never went in the
\* clear when its DSPA asks for TLS, and went under the configuration of some DSPA.
THEOREM ChecksKeepTLS ==
    ASSUME DatabasesOK
    PROVE  Spec => []PassedUnderSomeConfig
<1>1. Init => IInv
  BY InitIInv
<1>2. IInv /\ [Next]_vars => IInv'
  BY CheckStep
<1>3. IInv => PassedUnderSomeConfig
  BY DEF IInv
<1> QED BY <1>1, <1>2, <1>3, PTL DEF Spec

\* Where all DSPAs that use TLS have the same certificates and verification, sharing
\* the name does no harm: any number of concurrent checks are sound.
THEOREM UniformChecksSound ==
    ASSUME DatabasesOK, Uniform
    PROVE  Spec => []PassedUnderOwnConfig
<1>1. Init => IInv
  BY InitIInv
<1>2. IInv /\ [Next]_vars => IInv'
  BY CheckStep
<1>3. IInv => PassedUnderOwnConfig
  <2> SUFFICES ASSUME IInv, NEW d \in DSPAs, verdict[d] = "ok"
               PROVE  Accepts(TLSConfig(db[d]), db[d])
    BY DEF PassedUnderOwnConfig
  <2>1. PICK s \in Databases : /\ TLSConfig(s).tls = TLSConfig(db[d]).tls
                               /\ Accepts(TLSConfig(s), db[d])
    BY DEF IInv, PassedUnderSomeConfig
  <2>2. db[d] \in Databases
    BY DEF IInv, TypeOK
  <2> QED BY <2>1, <2>2 DEF Uniform, Accepts
<1> QED BY <1>1, <1>2, <1>3, PTL DEF Spec
=============================================================================
