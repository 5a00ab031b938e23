------------------------ MODULE DatabaseHealthCheck ------------------------
(***************************************************************************)
(* isDatabaseAccessible and ConnectAndQueryDatabase.  A health check that    *)
(* wants TLS registers its configuration with the MySQL driver under the     *)
(* name "custom", a registry of the whole process, and then opens a          *)
(* connection that asks the driver for "custom".  Reconciles of different    *)
(* DSPAs run their checks concurrently.                                      *)
(***************************************************************************)
EXTENDS Naturals, FiniteSets

CONSTANTS
    DSPAs,
    Workers,        \* MaxConcurrentReconciles
    CAs,            \* certificate authorities
    Databases       \* the spec.database settings that may occur

\* A setting: the kind of database, the "tls" of the extra parameters, the
\* custom certificates ("bad" is no PEM file), whether health checks are off,
\* and the authority of the server's certificate.  "malformed" stands for extra
\* parameters that are no JSON, "skip-verify" for "preferred" too, "unknown" for
\* a name neither the switch nor the driver knows.  The authorities of
\* SSL_CERT_FILE, which every check trusts, are left out.
Settings == [kind : {"mariaDB", "external", "neither"},
             tls : {"absent", "false", "true", "skip-verify", "unknown",
                    "malformed"},
             pems : SUBSET (CAs \cup {"bad"}), disabled : BOOLEAN, server : CAs]

VARIABLES
    registry,   \* what the driver has registered as "custom"
    pc,         \* per DSPA, where its health check is
    db,         \* per DSPA, the database it checks
    config,     \* per DSPA, the TLS configuration the check made or resolved
    verdict     \* per DSPA, what its last check answered

vars == <<registry, pc, db, config, verdict>>

\* InsecureSkipVerify is verify = FALSE.
NoTLS == [tls |-> FALSE, verify |-> FALSE, cas |-> {}]
Insecure == [tls |-> TRUE, verify |-> FALSE, cas |-> {}]
Configs == [tls : BOOLEAN, verify : BOOLEAN, cas : SUBSET CAs]

Init ==
    /\ registry = NoTLS
    /\ pc = [d \in DSPAs |-> "idle"]
    /\ db \in [DSPAs -> Databases]
    /\ config = [d \in DSPAs |-> NoTLS]
    /\ verdict = [d \in DSPAs |-> "none"]

\* The default follows the kind of database, the extra parameters override it.
TLSMode(s) ==
    IF s.tls # "absent" THEN s.tls ELSE IF s.kind = "external" THEN "true" ELSE "false"

\* tLSClientConfig refuses what is not a PEM file, if it is called at all.
CertificatesOK(s) == TLSMode(s) = "true" => "bad" \notin s.pems

\* isDatabaseAccessible returns an error before it looks at "tls".
Rejected(s) == s.kind = "neither" \/ s.tls = "malformed"

\* tLSClientConfig and the switch before it.
TLSConfig(s) ==
    CASE TLSMode(s) = "true" -> [tls |-> TRUE, verify |-> TRUE, cas |-> s.pems]
      [] TLSMode(s) = "skip-verify" -> Insecure
      [] OTHER -> NoTLS

\* Whether a handshake under configuration c with the server of s succeeds.
Accepts(c, s) == c.tls /\ c.verify => s.server \in c.cas

Answer(d, v) ==
    /\ verdict' = [verdict EXCEPT ![d] = v]
    /\ pc' = [pc EXCEPT ![d] = "idle"]

\* A reconcile begins a check: disabled checks are taken as passed; a database of
\* no known kind, malformed parameters and a bad certificate file are errors.
Begin(d) ==
    /\ pc[d] = "idle" /\ Cardinality({e \in DSPAs : pc[e] # "idle"}) < Workers
    /\ \E s \in Databases :
          /\ db' = [db EXCEPT ![d] = s]
          /\ \/ s.disabled /\ Answer(d, "assumed") /\ UNCHANGED config
             \/ /\ ~s.disabled /\ (Rejected(s) \/ ~CertificatesOK(s))
                /\ Answer(d, "failed") /\ UNCHANGED config
             \/ /\ ~s.disabled /\ ~Rejected(s) /\ CertificatesOK(s)
                /\ config' = [config EXCEPT ![d] = TLSConfig(s)]
                /\ pc' = [pc EXCEPT ![d] =
                             IF TLSConfig(s).tls THEN "register" ELSE "open"]
                /\ verdict' = [verdict EXCEPT ![d] = "none"]
    /\ UNCHANGED registry

\* mysql.RegisterTLSConfig("custom", tlsConfig)
Register(d) ==
    /\ pc[d] = "register"
    /\ registry' = config[d]
    /\ pc' = [pc EXCEPT ![d] = "open"]
    /\ UNCHANGED <<db, config, verdict>>

\* sql.Open parses the connection string, and with it resolves "custom"; a tls
\* value the switch did not know goes to the driver, which refuses it.
Open(d) ==
    /\ pc[d] = "open"
    /\ IF TLSMode(db[d]) = "unknown"
       THEN Answer(d, "failed") /\ UNCHANGED config
       ELSE /\ config' = [config EXCEPT ![d] = IF @.tls THEN registry ELSE @]
            /\ pc' = [pc EXCEPT ![d] = "query"]
            /\ UNCHANGED verdict
    /\ UNCHANGED <<registry, db>>

\* SELECT 1 within the timeout.
Query(d) ==
    /\ pc[d] = "query"
    /\ \E v \in {"failed"} \cup (IF Accepts(config[d], db[d]) THEN {"ok"} ELSE {}) :
          Answer(d, v)
    /\ UNCHANGED <<registry, db, config>>

Next == \E d \in DSPAs : Begin(d) \/ Register(d) \/ Open(d) \/ Query(d)

Spec == Init /\ [][Next]_vars

-----------------------------------------------------------------------------
\* The variables hold what the declarations say.
TypeOK ==
    /\ registry \in Configs
    /\ pc \in [DSPAs -> {"idle", "register", "open", "query"}]
    /\ db \in [DSPAs -> Databases]
    /\ config \in [DSPAs -> Configs]
    /\ verdict \in [DSPAs -> {"none", "ok", "failed", "assumed"}]

\* "we need to make sure we're setting our tls config to be used": a check that
\* passes has connected under its own DSPA's TLS settings, so the server's
\* certificate is one that DSPA trusts (ConnectAndQueryDatabase).  Another
\* check that registers "custom" between Register and Open makes it false.
PassedUnderOwnConfig ==
    \A d \in DSPAs : verdict[d] = "ok" => Accepts(TLSConfig(db[d]), db[d])

\* What is left of it however many checks run: a check that passes went over TLS
\* if its own settings ask for TLS, never in the clear, and under a configuration
\* made from the settings of some DSPA.
PassedUnderSomeConfig ==
    \A d \in DSPAs : verdict[d] = "ok" =>
        \E s \in Databases : /\ CertificatesOK(s)
                             /\ TLSConfig(s).tls = TLSConfig(db[d]).tls
                             /\ Accepts(TLSConfig(s), db[d])

=============================================================================
