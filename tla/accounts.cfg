SPECIFICATION Spec
CHECK_DEADLOCK FALSE
CONSTANTS
    u1 = u1  u2 = u2  s1 = s1  s2 = s2  s3 = s3  b1 = b1  b2 = b2
    g1 = g1  e1 = e1  e2 = e2
    UserIds = {u1, u2}
    Emails = {e1, e2}
    Subjects = {g1}
    EmailOf <- Google
    Sessions = {s1, s2, s3}
    Links = {l1}
    Flows = {f1, f2}
    Browsers = {b1, b2}
    Requests = {r1, r2, r3}
    MaxEvents = 1
    Homes <- Either
    HomeUser <- People
    HomeEmail <- Address
    HomeSession <- Cookies
    None = None
SYMMETRY Symmetric
INVARIANTS
    LateNeverServed
    LinkSignsInOnce
    FlowStaysInItsBrowser
PROPERTIES
    IdentityNeverMoves
    OwnSessionsOnly
    EmailFindsLivingUser
