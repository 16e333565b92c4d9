\* One login and two callbacks; no symmetry, liveness does not allow it.
SPECIFICATION FairSpec
CONSTANTS
    None = None
    l1 = l1  l2 = l2  r1 = r1  r2 = r2
    s1 = s1  s2 = s2  n1 = n1  n2 = n2  i1 = i1  i2 = i2
    c1 = c1  c2 = c2  u1 = u1  u2 = u2
    home = home  other = other  foreign = foreign  google = google  unknown = unknown
    LoginReqs = {l1}
    CallbackReqs = {r1, r2}
    States = {s1}
    Nonces = {n1}
    SessionIds = {i1, i2}
    Codes = {c1, c2}
    Subjects = {u1, u2}
    ReturnTos = {home}
    AllowedOrigins = {home}
    Idps = {google}
    Registry = {google}
    TransactionTtl = 1
    SessionTtl = 1
PROPERTIES
    IssuedStatesEnd
    IssuedSessionsEnd
\* Each request is served once, so a run ends when all are done.
CHECK_DEADLOCK FALSE
