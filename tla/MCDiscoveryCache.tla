-------------------------- MODULE MCDiscoveryCache --------------------------
(* Small instances of DiscoveryCache for TLC. *)
EXTENDS DiscoveryCache, TLC

CONSTANTS v1, v2, k1, k2, d1, d2

\* Each key under a key id of its own, and all under one.
MCOwnKid == [k \in Keys |-> k]
MCOneKid == [k \in Keys |-> "kid"]

\* Callers, keys and, as long as all of them are supported, documents are
\* interchangeable.
Symmetry == Permutations(Callers) \cup Permutations(Keys)
            \cup Permutations(Documents)
=============================================================================
