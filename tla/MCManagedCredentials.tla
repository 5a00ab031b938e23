------------------------ MODULE MCManagedCredentials ------------------------
\* Instances of ManagedCredentials for TLC.
EXTENDS ManagedCredentials

CONSTANTS u1, u2, x

\* One Secret of the user's is complete, one lacks the last key, one holds what
\* the external store accepts.
SomeUserCreds == {[k \in Keys |-> u1], [k \in Keys |-> x],
                  [k \in Keys |-> IF k = NKeys THEN Missing ELSE u2]}
XCred == [k \in Keys |-> x]

=============================================================================
