\* One login answered twice by the provider, so two callbacks may open two
\* sessions; two browsers, one /me and two logouts.
SPECIFICATION RpSpec
CONSTANTS
    None = None
    l1 = l1  r1 = r1  r2 = r2  s1 = s1  n1 = n1  i1 = i1  i2 = i2
    c1 = c1  c2 = c2  u1 = u1  u2 = u2  home = home  google = google
    b1 = b1  b2 = b2  m1 = m1  o1 = o1  o2 = o2
    LoginReqs = {l1}
    CallbackReqs = {r1, r2}
    States = {s1}
    Nonces = {n1}
    SessionIds = {i1, i2}
    Codes = {c1, c2}
    Subjects = {u1, u2}
    ReturnTos = {home}
    AllowedOrigins = {home}
    Idps = {google}
    Registry = {google}
    TransactionTtl = 1
    SessionTtl = 1
    Browsers = {b1, b2}
    MeReqs = {m1}
    LogoutReqs = {o1, o2}
SYMMETRY Symmetry
INVARIANTS
    RpTypeOK
    MeReportsAuthenticatedUser
    LogoutIsFinal
    RpInvariant
PROPERTIES
    DeadCookieStaysDead
    RpKeepsContract
\* Each request is served once, so a run ends when all are done.
CHECK_DEADLOCK FALSE
