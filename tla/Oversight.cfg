SPECIFICATION Spec
CONSTANTS
    h1 = h1
    h2 = h2
    svc = svc
    ann = ann
    s1 = s1
    s2 = s2
    e1 = e1
    e2 = e2
    e3 = e3
    g1 = g1
    g2 = g2
    r1 = r1
    t1 = t1
    None = None
    Handlers = {h1, h2}
    Principals = {svc, ann}
    Services = {svc}
    Viewer = ann
    Spaces = {s1, s2}
    Risks = {r1}
    Tickets = {t1}
    Records <- RecordsWritten
    Epics <- EpicList
    GroupOf <- EpicGroups
    Limit = 1
    Configs <- Configurations
    Scenarios <- Scenes
INVARIANTS
    TypeOK
    ReportExact
    PagedOnce
    Audited
    TamperEvident
