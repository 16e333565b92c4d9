----------------------------- MODULE MCLoginFlow -----------------------------
(* Small instances of LoginFlow for TLC. *)
EXTENDS LoginFlow, TLC

CONSTANTS l1, l2, r1, r2, s1, s2, n1, n2, i1, i2, c1, c2, u1, u2,
          home, other, foreign, google, unknown

\* The requests, the random values, the codes and the users of one kind are
\* interchangeable; origins and providers are not, some being refused.
Symmetry ==
    Permutations(LoginReqs) \cup Permutations(CallbackReqs)
    \cup Permutations(States) \cup Permutations(Nonces)
    \cup Permutations(SessionIds) \cup Permutations(Codes)
    \cup Permutations(Subjects)
=============================================================================
