----------------------- MODULE MCMLflowEndpointCache -----------------------
(* MLflowEndpointCache for TLC. *)
EXTENDS MLflowEndpointCache, TLC

\* Threads, namespaces and endpoints are each interchangeable.
Symmetry == Permutations(Threads) \cup Permutations(Namespaces)
                \cup Permutations(Endpoints)
=============================================================================
