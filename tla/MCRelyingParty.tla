--------------------------- MODULE MCRelyingParty ---------------------------
(* Small instances of RelyingParty for TLC. *)
EXTENDS RelyingParty, TLC

CONSTANTS l1, r1, r2, s1, n1, i1, i2, c1, c2, u1, u2, home, google,
          b1, b2, m1, o1, o2

\* Callbacks, session ids, codes, users, browsers and
\* logouts are interchangeable.
Symmetry ==
    Permutations(CallbackReqs) \cup Permutations(SessionIds)
    \cup Permutations(Codes) \cup Permutations(Subjects)
    \cup Permutations(LogoutReqs) \cup Permutations(Browsers)
=============================================================================
