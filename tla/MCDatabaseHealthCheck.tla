----------------------- MODULE MCDatabaseHealthCheck -----------------------
(* DatabaseHealthCheck for TLC. *)
EXTENDS DatabaseHealthCheck

\* An external database with its default TLS, one that is not verified, the
\* operator's own without TLS, a mistyped tls value, malformed parameters, no
\* database and a disabled check.
FewDatabases ==
    {s \in Settings : s.disabled => s.server = "ca1" /\ s.pems = {"ca1"}} \cap
    {s \in Settings :
        \/ s.kind = "external" /\ s.tls = "absent" /\ Cardinality(s.pems) = 1
        \/ s.kind = "external" /\ s.tls = "skip-verify" /\ s.pems = {}
        \/ s.kind = "mariaDB" /\ s.tls \in {"absent", "true", "unknown", "malformed"}
                              /\ s.pems = {}
        \/ s.kind = "neither" /\ s.tls = "absent" /\ s.pems = {}}
=============================================================================
