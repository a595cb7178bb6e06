SPECIFICATION Spec
CONSTANTS
    h1 = h1
    h2 = h2
    u1 = u1
    u2 = u2
    t1 = t1
    t2 = t2
    u3 = u3
    t3 = t3
    t4 = t4
    Handlers = {h1, h2}
    Scenarios <- Scenes
    Users = {u1, u2, u3}
    SpacesOf <- GitLabSpaces
    TokensOf <- GitLabTokens
    Spaces = {1, 2}
    PerPage = 1
    Ttl = 1
    LastKnownMaxAge = 2
    MaxCall = 1
    Limit = 2
    Window = 2
    MayFail <- CallsFail
    MaxTime = 4
    MaxGrants = 4
    None = None
INVARIANTS
    TypeOK
    RevocationBounded
    CurrentInTime
    LimitExact
