\* Every shape of aud up to two names; exp and iat from both ends of the range.
SPECIFICATION Spec
CONSTANTS
    empty = empty  rp = rp  foreign = foreign
    google = google  bare = bare  elsewhere = elsewhere
    MaxInt = 15
    UnixEpoch = 4
    ClockSkew = 2
    MaxAge = 3
    Names = {empty, rp, foreign}
    Empty = empty
    ClientId = rp
    Issuers = {google, bare, elsewhere}
    Issuer = google
    BareIssuer = bare
    MaxAudience = 2
    ExpClaims <- MCExpClaims
    IatClaims <- MCIatClaims
    MaxNow = 2
INVARIANTS
    AcceptedMatchesRules
    ClearTokenAccepted
    RefusedStaysRefused
\* The clock stops at its bound.
CHECK_DEADLOCK FALSE
