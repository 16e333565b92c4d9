------------------------------ MODULE MCIdToken ------------------------------
(* int64 scaled down to -16 .. 15, a skew of 2 s and an age of 3 s. *)
EXTENDS IdToken

CONSTANTS empty, rp, foreign, google, bare, elsewhere

\* The ends of the range, the values that wrap in Unix or saturate in Add,
\* and those around the clock.
MCExpClaims == {-16, -4, -3, -2, -1, 0, 9, 10, 11, 15}
MCIatClaims == {-16, -5, -4, -3, -2, 0, 1, 8, 11, 12, 15}
=============================================================================
