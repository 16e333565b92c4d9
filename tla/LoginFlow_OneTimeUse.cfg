\* Must be violated.
SPECIFICATION Spec
CONSTANTS
    None = None
    l1 = l1  l2 = l2  r1 = r1  r2 = r2
    s1 = s1  s2 = s2  n1 = n1  n2 = n2  i1 = i1  i2 = i2
    c1 = c1  c2 = c2  u1 = u1  u2 = u2
    home = home  other = other  foreign = foreign  google = google  unknown = unknown
    LoginReqs = {l1, l2}
    CallbackReqs = {r1, r2}
    States = {s1, s2}
    Nonces = {n1, n2}
    SessionIds = {i1, i2}
    Codes = {c1, c2}
    Subjects = {u1, u2}
    ReturnTos = {home, other, foreign}
    AllowedOrigins = {home, other}
    Idps = {google, unknown}
    Registry = {google}
    TransactionTtl = 1
    SessionTtl = 1
SYMMETRY Symmetry
INVARIANT TransactionOneTimeUse
CHECK_DEADLOCK FALSE
