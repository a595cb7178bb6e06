SPECIFICATION Spec
CONSTANTS
    h1 = h1
    h2 = h2
    h3 = h3
    ann = ann
    bob = bob
    t1 = t1
    None = None
    Handlers = {h1, h2}
    TicketIds = {t1}
    Humans = {ann}
    Texts = {"x", "y"}
    Says <- VersionedTickets
    MaxFiles = 2
    GitMayFail = TRUE
    MayRestart = TRUE
SYMMETRY Threads
INVARIANTS
    TypeOK
    AckedIsCommitted
PROPERTIES
    ReturnsCommitted
    AppendOnly
